------------------------------ MODULE BlockCache ------------------------------
(***************************************************************************)
(* easy-fs/src/block_cache.rs: the manager's queue of cached blocks, their *)
(* write-back on eviction and in block_cache_sync_all, and the nesting in  *)
(* which the callers (vfs.rs, layout.rs, bitmap.rs, efs.rs) hold them.     *)
(*                                                                         *)
(* Entry is the set of heap objects Arc<Mutex<BlockCache>>.  A caller gets *)
(* a block, locks it, runs a closure on it and drops it; closures nest, so *)
(* the entries in use form a stack, held.  The device is external: a write *)
(* is atomic per block and a power failure keeps what was written.         *)
(***************************************************************************)
EXTENDS Integers, Sequences, SequencesExt

CONSTANTS Block,             \* block numbers of the device
          Value,             \* contents of a block
          Zero,              \* the zeroed buffer a BlockCache starts from
          Entry,             \* BlockCache objects
          NoBlock,           \* block number of an object that is not in use
          BLOCK_CACHE_SIZE,  \* capacity of the queue
          Area               \* the part of the disk layout a block is in

ASSUME CacheAssumption ==
    /\ Zero \in Value
    /\ NoBlock \notin Block
    /\ BLOCK_CACHE_SIZE \in Nat /\ BLOCK_CACHE_SIZE >= 3
    /\ Area \in [Block -> {"super", "bitmap", "inode", "data"}]

VARIABLES
    block_id, cache, modified,   \* the fields of each BlockCache
    queue,                       \* BlockCacheManager.queue
    held,                        \* stack of locked handles, with the access
    syncing,                     \* next position of block_cache_sync_all, or 0
    panicked,                    \* "Run out of BlockCache!"
    disk                         \* the device

entryVars == <<block_id, cache, modified>>
vars == <<entryVars, queue, held, syncing, panicked, disk>>

HeldEntries == {held[i].entry : i \in 1..Len(held)}
IsFirst(i, S) == i \in S /\ \A j \in S : i <= j

Init ==
    /\ block_id = [e \in Entry |-> NoBlock]
    /\ cache = [e \in Entry |-> Zero]
    /\ modified = [e \in Entry |-> FALSE]
    /\ queue = <<>>
    /\ held = <<>>
    /\ syncing = 0
    /\ panicked = FALSE
    /\ disk \in [Block -> Value]

Running == ~panicked /\ syncing = 0
-----------------------------------------------------------------------------
(***************************************************************************)
(* The nesting of the callers.  Inode::{read,modify}_disk_inode holds the  *)
(* block of an inode while bitmap and data blocks are used; increase_size  *)
(* and clear_size hold the second-level index block, a data block, while   *)
(* they use the first-level blocks it names, which are other blocks.       *)
(***************************************************************************)
HeldArea(i) == Area[block_id[held[i].entry]]

MayRequest(b) ==
    \/ held = <<>>
    \/ Len(held) = 1 /\ HeldArea(1) = "inode" /\ Area[b] \in {"bitmap", "data"}
    \/ /\ Len(held) = 2 /\ held[1].access = "modify" /\ held[2].access = "modify"
       /\ HeldArea(2) = "data" /\ Area[b] = "data"
       /\ b # block_id[held[2].entry]

\* BlockCache::sync without the write.
WriteBackSkipped(d, e) == d

\* BlockCache::sync: what it leaves on the device.
WriteBack(d, e) ==
    IF modified[e] THEN [d EXCEPT ![block_id[e]] = cache[e]] ELSE d

\* Positions get_block_cache finds for b.
Hits(b) == {i \in 1..Len(queue) : block_id[queue[i]] = b}

\* get_mut sets the flag before the closure writes.
GetHit(b, access) ==
    \E i \in Hits(b) :
        /\ IsFirst(i, Hits(b))
        /\ held' = Append(held, [entry |-> queue[i], access |-> access])
        /\ modified' = [modified EXCEPT ![queue[i]] = @ \/ access = "modify"]
        /\ UNCHANGED <<block_id, cache, queue, disk, panicked>>

\* BlockCache::new for b on the device d, pushed back on the queue q.
LoadInto(b, access, e, q, d) ==
    /\ queue' = Append(q, e)
    /\ held' = Append(held, [entry |-> e, access |-> access])
    /\ disk' = d
    /\ UNCHANGED panicked

GetFree(b, access) ==
    /\ Len(queue) # BLOCK_CACHE_SIZE
    /\ \E e \in Entry \ (ToSet(queue) \cup HeldEntries) :
          /\ LoadInto(b, access, e, queue, disk)
          /\ block_id' = [block_id EXCEPT ![e] = b]
          /\ cache' = [cache EXCEPT ![e] = disk[b]]
          /\ modified' = [modified EXCEPT ![e] = access = "modify"]

\* A replacement that does not look at the reference counts.
AllPositions == 1..Len(queue)

\* A replacement that only looks at the entry loaded first.
FrontOnly == {i \in {1} : queue[i] \notin HeldEntries}

\* Positions whose entry nobody holds: strong_count is 1.
Evictable == {i \in 1..Len(queue) : queue[i] \notin HeldEntries}

\* Full: the first entry that is not in use is dropped, which writes it back.
GetEvict(b, access) ==
    /\ Len(queue) = BLOCK_CACHE_SIZE
    /\ IF Evictable = {}
       THEN panicked' = TRUE /\ UNCHANGED <<entryVars, queue, held, disk>>
       ELSE \E idx \in Evictable :
              LET old == queue[idx]
                  d == WriteBack(disk, old)
              IN
              /\ IsFirst(idx, Evictable)
              /\ \E e \in Entry \ (ToSet(RemoveAt(queue, idx)) \cup HeldEntries) :
                    /\ LoadInto(b, access, e, RemoveAt(queue, idx), d)
                    /\ block_id' = [block_id EXCEPT ![old] = NoBlock, ![e] = b]
                    /\ cache' = [cache EXCEPT ![old] = Zero, ![e] = d[b]]
                    /\ modified' = [modified EXCEPT ![old] = FALSE,
                                                    ![e] = access = "modify"]

\* get_block_cache(b).lock(), then read or modify up to the closure.
GetBlockCache(b, access) ==
    /\ Running
    /\ MayRequest(b)
    /\ \/ GetHit(b, access)
       \/ Hits(b) = {} /\ (GetFree(b, access) \/ GetEvict(b, access))
    /\ UNCHANGED syncing

\* The closure of modify assigns through its reference.
Modify(v) ==
    /\ Running
    /\ held # <<>>
    /\ Last(held).access = "modify"
    /\ cache' = [cache EXCEPT ![Last(held).entry] = v]
    /\ UNCHANGED <<block_id, modified, queue, held, syncing, panicked, disk>>

\* The closure returns: the guard and the Arc are dropped.
Release ==
    /\ Running
    /\ held # <<>>
    /\ held' = Front(held)
    /\ UNCHANGED <<entryVars, queue, syncing, panicked, disk>>

\* block_cache_sync_all: called when no block is held, one write at a time.
SyncAll ==
    /\ Running
    /\ held = <<>>
    /\ syncing' = 1
    /\ UNCHANGED <<entryVars, queue, held, panicked, disk>>

SyncNext ==
    /\ ~panicked
    /\ syncing \in 1..Len(queue)
    /\ LET e == queue[syncing] IN
          /\ disk' = WriteBack(disk, e)
          /\ modified' = [modified EXCEPT ![e] = FALSE]
    /\ syncing' = syncing + 1
    /\ UNCHANGED <<block_id, cache, queue, held, panicked>>

SyncEnd ==
    /\ ~panicked
    /\ syncing = Len(queue) + 1
    /\ syncing' = 0
    /\ UNCHANGED <<entryVars, queue, held, panicked, disk>>

\* Power failure, possibly in the middle of anything, and reboot (external).
Crash ==
    /\ block_id' = [e \in Entry |-> NoBlock]
    /\ cache' = [e \in Entry |-> Zero]
    /\ modified' = [e \in Entry |-> FALSE]
    /\ queue' = <<>>
    /\ held' = <<>>
    /\ syncing' = 0
    /\ panicked' = FALSE
    /\ UNCHANGED disk

Next ==
    \/ \E b \in Block, access \in {"read", "modify"} : GetBlockCache(b, access)
    \/ \E v \in Value : Modify(v)
    \/ Release
    \/ SyncAll
    \/ SyncNext
    \/ SyncEnd
    \/ Crash

Spec == Init /\ [][Next]_vars
-----------------------------------------------------------------------------
\* The types of the fields, the queue, the handles and the device.
TypeOK ==
    /\ block_id \in [Entry -> Block \cup {NoBlock}]
    /\ cache \in [Entry -> Value]
    /\ modified \in [Entry -> BOOLEAN]
    /\ queue \in Seq(Entry)
    /\ held \in Seq([entry : Entry, access : {"read", "modify"}])
    /\ syncing \in Nat
    /\ panicked \in BOOLEAN
    /\ disk \in [Block -> Value]

(***************************************************************************)
(* The manager never caches a block twice and never exceeds its capacity,  *)
(* and an entry that is not marked modified is what the device holds, so   *)
(* that dropping it without a write loses nothing.                         *)
(***************************************************************************)
CacheConsistent ==
    /\ Len(queue) <= BLOCK_CACHE_SIZE
    /\ IsInjective(queue)
    /\ \A e \in ToSet(queue) : block_id[e] \in Block
    /\ \A e, f \in ToSet(queue) : block_id[e] = block_id[f] => e = f
    /\ \A e \in ToSet(queue) : ~modified[e] => cache[e] = disk[block_id[e]]

(***************************************************************************)
(* A block somebody holds is not replaced: every handle is the entry that  *)
(* a second get_block_cache of the block would return.  No block is locked *)
(* twice (a spin::Mutex would never be released), and a handle open for    *)
(* modification is marked before anything is written through it.           *)
(***************************************************************************)
PinnedStayCached ==
    /\ HeldEntries \subseteq ToSet(queue)
    /\ \A i, j \in 1..Len(held) : held[i].entry = held[j].entry => i = j
    /\ \A i \in 1..Len(held) : held[i].access = "modify" => modified[held[i].entry]

\* "Run out of BlockCache!" is unreachable: the callers never hold more than
\* three blocks, fewer than the queue has when it is full.
NeverRunsOut == ~panicked

\* The strengthening that makes the above inductive: how deep the callers nest,
\* and how far block_cache_sync_all has come.
CacheInv ==
    /\ TypeOK
    /\ CacheConsistent
    /\ PinnedStayCached
    /\ NeverRunsOut
    /\ Len(held) <= 3
    /\ Len(held) >= 2 => HeldArea(1) = "inode"
    /\ syncing > 0 => /\ held = <<>>
                      /\ \A i \in 1..Len(queue) : i < syncing => ~modified[queue[i]]
=============================================================================
