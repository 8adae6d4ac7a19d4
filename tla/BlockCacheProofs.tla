--------------------------- MODULE BlockCacheProofs ---------------------------
(***************************************************************************)
(* CacheInv is an invariant of the block cache, for any device, any        *)
(* contents and any capacity of at least three.                            *)
(***************************************************************************)
EXTENDS BlockCache, SequenceFacts, SequenceTheorems, TLAPS

LEMMA UpToTwo == \A n \in Nat : n <= 2 => n = 0 \/ n = 1 \/ n = 2
OBVIOUS

USE CacheAssumption

Handle == [entry : Entry, access : {"read", "modify"}]

\* A device with nothing cached satisfies the invariant: boot and reboot.
LEMMA EmptyCache ==
    ASSUME block_id = [e \in Entry |-> NoBlock], cache = [e \in Entry |-> Zero],
           modified = [e \in Entry |-> FALSE], queue = <<>>, held = <<>>,
           syncing = 0, panicked = FALSE, disk \in [Block -> Value]
    PROVE  CacheInv
<1>1. TypeOK
  BY EmptyElements, ZenonT(40) DEF TypeOK
<1>2. HeldEntries = {} /\ ToSet(queue) = {} /\ IsInjective(queue)
  BY EmptyElements DEF HeldEntries
<1>3. CacheConsistent
  BY <1>2 DEF CacheConsistent
<1>4. PinnedStayCached
  BY <1>2 DEF PinnedStayCached
<1> QED BY <1>1, <1>3, <1>4 DEF CacheInv, NeverRunsOut

LEMMA EmptyCacheNext ==
    ASSUME TypeOK, Crash
    PROVE  CacheInv'
<1>1. TypeOK'
  BY EmptyElements, ZenonT(40) DEF TypeOK, Crash
<1>2. HeldEntries' = {} /\ ToSet(queue') = {} /\ IsInjective(queue')
  BY EmptyElements DEF HeldEntries, Crash
<1>3. CacheConsistent'
  BY <1>2 DEF CacheConsistent, Crash
<1>4. PinnedStayCached'
  BY <1>2 DEF PinnedStayCached, Crash
<1> QED BY <1>1, <1>3, <1>4 DEF CacheInv, NeverRunsOut, Crash

\* The block that MayRequest allows is not held: no self-deadlock.
LEMMA RequestNotHeld ==
    ASSUME CacheInv, NEW b \in Block, MayRequest(b), NEW i \in 1..Len(held)
    PROVE  block_id[held[i].entry] # b /\ Len(held) <= 2
<1>1. Len(held) \in Nat
  BY DEF CacheInv, TypeOK
<1>2. CASE Len(held) = 1
  BY <1>1, <1>2 DEF MayRequest, HeldArea
<1>3. CASE Len(held) = 2
  BY <1>1, <1>3, SMTT(30) DEF MayRequest, HeldArea, CacheInv
<1> QED BY <1>1, <1>2, <1>3 DEF MayRequest

LEMMA HandleEntries ==
    ASSUME NEW h \in Seq(Handle), NEW i \in 1..Len(h)
    PROVE  h[i].entry \in Entry /\ h[i].access \in {"read", "modify"}
<1>1. h[i] \in Handle
  OBVIOUS
<1> QED BY <1>1 DEF Handle

(***************************************************************************)
(* Whether it was found or loaded, the entry e of the requested block b    *)
(* goes on top of the handles; the others keep their blocks and marks.     *)
(***************************************************************************)
Pushes(b, access, e) ==
    /\ Running /\ MayRequest(b)
    /\ held' = Append(held, [entry |-> e, access |-> access])
    /\ UNCHANGED <<syncing, panicked>>
    /\ e \in ToSet(queue') /\ (access = "modify" => modified'[e])
    /\ \A i \in 1..Len(held) :
           /\ held[i].entry # e
           /\ held[i].entry \in ToSet(queue')
           /\ block_id'[held[i].entry] = block_id[held[i].entry]
           /\ modified[held[i].entry] => modified'[held[i].entry]

LEMMA PushKeeps ==
    ASSUME CacheInv, NEW b \in Block, NEW access \in {"read", "modify"},
           NEW e \in Entry, Pushes(b, access, e), TypeOK', CacheConsistent'
    PROVE  CacheInv'
<1>1. /\ TypeOK /\ PinnedStayCached /\ NeverRunsOut
  BY DEF CacheInv
<1>2. held \in Seq(Handle) /\ Len(held) \in Nat
  BY <1>1 DEF TypeOK, Handle
<1> DEFINE h == [entry |-> e, access |-> access]
<1>a. h \in Handle /\ h.entry = e /\ h.access = access /\ held' = Append(held, h)
  BY DEF Handle, Pushes
<1>b. /\ e \in ToSet(queue') /\ (access = "modify" => modified'[e])
      /\ \A i \in 1..Len(held) :
           /\ held[i].entry # e
           /\ held[i].entry \in ToSet(queue')
           /\ block_id'[held[i].entry] = block_id[held[i].entry]
           /\ modified[held[i].entry] => modified'[held[i].entry]
  BY DEF Pushes
<1> HIDE DEF h
<1>3. /\ held' \in Seq(Handle) /\ Len(held') = Len(held) + 1
      /\ \A k \in 1..Len(held) : held'[k] = held[k]
      /\ held'[Len(held) + 1] = h
  BY <1>2, <1>a, AppendIndex
<1>4. PinnedStayCached'
  <2>1. HeldEntries' \subseteq ToSet(queue')
    BY <1>2, <1>3, <1>a, <1>b DEF HeldEntries
  <2>2. \A k, m \in 1..Len(held') : held'[k].entry = held'[m].entry => k = m
    BY <1>1, <1>2, <1>3, <1>a, <1>b DEF PinnedStayCached
  <2>3. \A k \in 1..Len(held') : held'[k].access = "modify" => modified'[held'[k].entry]
    BY <1>1, <1>2, <1>3, <1>a, <1>b DEF PinnedStayCached
  <2> QED BY <2>1, <2>2, <2>3 DEF PinnedStayCached
<1>5. Len(held) <= 2
  BY <1>2, RequestNotHeld DEF MayRequest, Pushes
<1>6. Len(held') >= 2 => HeldArea(1)' = "inode"
  <2>1. CASE Len(held) = 1
    BY <1>2, <1>3, <1>b, <2>1 DEF HeldArea, MayRequest, Pushes
  <2>2. CASE Len(held) = 2
    BY <1>2, <1>3, <1>b, <2>2 DEF HeldArea, CacheInv
  <2>3. Len(held) \in Nat /\ Len(held') = Len(held) + 1 /\ Len(held) <= 2
    BY <1>2, <1>3, <1>5
  <2>4. CASE Len(held) = 0
    BY <2>3, <2>4
  <2>5. Len(held) = 0 \/ Len(held) = 1 \/ Len(held) = 2
    BY <2>3, UpToTwo, ZenonT(40)
  <2> QED BY <2>1, <2>2, <2>4, <2>5, Zenon
<1>7. ~(syncing' > 0)
  BY DEF Running, Pushes
<1> QED BY <1>1, <1>2, <1>3, <1>4, <1>5, <1>6, <1>7, SMTT(30)
           DEF CacheInv, NeverRunsOut, Pushes

\* get_block_cache finds the block.
LEMMA HitKeeps ==
    ASSUME CacheInv, NEW b \in Block, NEW access \in {"read", "modify"},
           Running, MayRequest(b), GetHit(b, access), UNCHANGED syncing
    PROVE  CacheInv'
<1>1. /\ TypeOK /\ CacheConsistent /\ PinnedStayCached /\ NeverRunsOut
  BY DEF CacheInv
<1>2. PICK i \in Hits(b) :
        /\ held' = Append(held, [entry |-> queue[i], access |-> access])
        /\ modified' = [modified EXCEPT ![queue[i]] = @ \/ access = "modify"]
        /\ UNCHANGED <<block_id, cache, queue, disk, panicked>>
  BY ZenonT(40) DEF GetHit
<1> DEFINE e == queue[i]
<1>3. e \in Entry /\ e \in ToSet(queue) /\ block_id[e] = b
  BY <1>1, <1>2, SeqElements DEF Hits, TypeOK
<1> HIDE DEF e
<1>4. /\ held' = Append(held, [entry |-> e, access |-> access])
      /\ modified' = [modified EXCEPT ![e] = @ \/ access = "modify"]
      /\ UNCHANGED <<block_id, cache, queue, disk, panicked, syncing>>
  BY <1>2 DEF e
<1>5. held \in Seq(Handle) /\ Len(held) \in Nat
  BY <1>1 DEF TypeOK, Handle
<1>6. held' \in Seq(Handle)
  <2>1. [entry |-> e, access |-> access] \in Handle
    BY <1>3 DEF Handle
  <2> QED BY <1>4, <1>5, <2>1, AppendIndex
<1>7. /\ modified' \in [Entry -> BOOLEAN]
      /\ access = "modify" => modified'[e]
      /\ \A f \in Entry : modified[f] => modified'[f]
  BY <1>1, <1>3, <1>4, ZenonT(40) DEF TypeOK
<1>8. TypeOK'
  BY <1>1, <1>4, <1>6, <1>7 DEF TypeOK, Handle
<1>9. CacheConsistent'
  BY <1>1, <1>4, <1>7, SeqElements DEF CacheConsistent, TypeOK
<1>10. ASSUME NEW k \in 1..Len(held)
       PROVE  /\ held[k].entry \in Entry /\ held[k].entry # e
              /\ held[k].entry \in ToSet(queue)
  BY <1>1, <1>3, <1>5, HandleEntries, RequestNotHeld DEF PinnedStayCached, HeldEntries
<1>11. Pushes(b, access, e)
  <2>1. \A k \in 1..Len(held) :
           /\ held[k].entry # e
           /\ held[k].entry \in ToSet(queue')
           /\ block_id'[held[k].entry] = block_id[held[k].entry]
    BY <1>4, <1>10
  <2>2. \A k \in 1..Len(held) : modified[held[k].entry] => modified'[held[k].entry]
    BY <1>7, <1>10
  <2>3. e \in ToSet(queue') /\ UNCHANGED <<syncing, panicked>>
    BY <1>3, <1>4
  <2>4. held' = Append(held, [entry |-> e, access |-> access])
    BY <1>4
  <2>5. access = "modify" => modified'[e]
    BY <1>7
  <2> QED BY <2>1, <2>2, <2>3, <2>4, <2>5, Zenon DEF Pushes
<1> QED BY <1>3, <1>8, <1>9, <1>11, PushKeeps

(***************************************************************************)
(* A miss: b is loaded into the free object e.  q is the queue and d the   *)
(* device after the replacement, if there is one; what stays in q is left  *)
(* alone, and every handle stays.                                          *)
(***************************************************************************)
Loads(b, access, e, q, d) ==
    /\ Running /\ MayRequest(b)
    /\ q \in Seq(Entry) /\ IsInjective(q) /\ Len(q) < BLOCK_CACHE_SIZE
    /\ ToSet(q) \subseteq ToSet(queue) /\ HeldEntries \subseteq ToSet(q)
    /\ e \notin ToSet(q)
    /\ \A f \in ToSet(q) : block_id[f] # b
    /\ d \in [Block -> Value]
    /\ \A f \in ToSet(q) : ~modified[f] => cache[f] = d[block_id[f]]
    /\ \A f \in ToSet(q) : /\ block_id'[f] = block_id[f]
                            /\ cache'[f] = cache[f]
                            /\ modified'[f] = modified[f]
    /\ queue' = Append(q, e) /\ disk' = d
    /\ block_id'[e] = b /\ cache'[e] = d[b] /\ modified'[e] = (access = "modify")
    /\ held' = Append(held, [entry |-> e, access |-> access])
    /\ UNCHANGED <<syncing, panicked>>
    /\ block_id' \in [Entry -> Block \cup {NoBlock}]
    /\ cache' \in [Entry -> Value] /\ modified' \in [Entry -> BOOLEAN]

LEMMA LoadKeeps ==
    ASSUME CacheInv, NEW b \in Block, NEW access \in {"read", "modify"},
           NEW e \in Entry, NEW q, NEW d, Loads(b, access, e, q, d)
    PROVE  CacheInv'
<1>1. /\ TypeOK /\ CacheConsistent /\ PinnedStayCached
  BY DEF CacheInv
<1>2. held \in Seq(Handle)
  BY <1>1 DEF TypeOK, Handle
<1>3. q \in Seq(Entry) /\ IsInjective(q) /\ e \notin ToSet(q) /\ Len(q) < BLOCK_CACHE_SIZE
  BY DEF Loads
<1>4. /\ queue' \in Seq(Entry) /\ IsInjective(queue')
      /\ ToSet(queue') = ToSet(q) \cup {e}
      /\ Len(queue') <= BLOCK_CACHE_SIZE
  <2>1. queue' = Append(q, e)
    BY DEF Loads
  <2>2. Len(queue') = Len(q) + 1 /\ Len(q) \in Nat
    BY <1>3, <2>1, AppendIndex
  <2> QED BY <1>3, <2>1, <2>2, AppendElements
<1>5. TypeOK'
  <2>1. held' \in Seq(Handle)
    <3>1. [entry |-> e, access |-> access] \in Handle
      BY DEF Handle
    <3>2. held' = Append(held, [entry |-> e, access |-> access])
      BY DEF Loads
    <3> QED BY <1>2, <3>1, <3>2, AppendIndex
  <2>2. UNCHANGED <<syncing, panicked>> /\ disk' \in [Block -> Value]
    BY DEF Loads
  <2>3. /\ block_id' \in [Entry -> Block \cup {NoBlock}]
        /\ cache' \in [Entry -> Value] /\ modified' \in [Entry -> BOOLEAN]
    BY DEF Loads
  <2> QED BY <1>1, <1>4, <2>1, <2>2, <2>3, SMTT(30) DEF TypeOK, Handle
<1>6. CacheConsistent'
  <2>1. \A f \in ToSet(q) : /\ f \in ToSet(queue) /\ f # e
                            /\ block_id'[f] = block_id[f] /\ block_id[f] # b
    BY <1>3 DEF Loads
  <2>2. block_id'[e] = b
    BY DEF Loads
  <2>3. \A f \in ToSet(queue') : block_id'[f] \in Block
    BY <1>1, <1>4, <2>1, <2>2 DEF CacheConsistent
  <2>4. \A f, g \in ToSet(queue') : block_id'[f] = block_id'[g] => f = g
    BY <1>1, <1>4, <2>1, <2>2 DEF CacheConsistent
  <2>5. \A f \in ToSet(queue') : ~modified'[f] => cache'[f] = disk'[block_id'[f]]
    <3>1. \A f \in ToSet(q) : ~modified'[f] => cache'[f] = disk'[block_id'[f]]
      BY DEF Loads
    <3>2. cache'[e] = disk'[block_id'[e]]
      BY DEF Loads
    <3> QED BY <1>4, <3>1, <3>2
  <2> QED BY <1>4, <2>3, <2>4, <2>5 DEF CacheConsistent
<1>7. Pushes(b, access, e)
  <2>1. \A k \in 1..Len(held) : held[k].entry \in ToSet(q)
    BY DEF Loads, HeldEntries
  <2>2. \A k \in 1..Len(held) :
           /\ held[k].entry # e
           /\ held[k].entry \in ToSet(queue')
           /\ block_id'[held[k].entry] = block_id[held[k].entry]
    BY <1>3, <1>4, <2>1 DEF Loads
  <2>3. \A k \in 1..Len(held) : modified[held[k].entry] => modified'[held[k].entry]
    BY <2>1 DEF Loads
  <2>4. e \in ToSet(queue') /\ UNCHANGED <<syncing, panicked>>
    BY <1>4 DEF Loads
  <2>5. access = "modify" => modified'[e]
    BY DEF Loads
  <2>6. /\ held' = Append(held, [entry |-> e, access |-> access])
        /\ Running /\ MayRequest(b)
    BY DEF Loads
  <2> QED BY <2>2, <2>3, <2>4, <2>5, <2>6, Zenon DEF Pushes
<1> QED BY <1>5, <1>6, <1>7, PushKeeps, SMTT(30)

LEMMA Miss ==
    ASSUME TypeOK, NEW b, Hits(b) = {}, NEW f \in ToSet(queue)
    PROVE  f \in Entry /\ block_id[f] # b
<1>1. PICK i \in 1..Len(queue) : f = queue[i]
  BY SeqElements DEF TypeOK
<1> QED BY <1>1 DEF Hits, TypeOK

\* A miss with room left in the queue.
LEMMA FreeLoads ==
    ASSUME CacheInv, NEW b \in Block, NEW access \in {"read", "modify"},
           Running, MayRequest(b), Hits(b) = {}, GetFree(b, access),
           UNCHANGED syncing
    PROVE  \E e \in Entry : Loads(b, access, e, queue, disk)
<1>1. /\ TypeOK /\ CacheConsistent /\ PinnedStayCached
  BY DEF CacheInv
<1>2. PICK e \in Entry \ (ToSet(queue) \cup HeldEntries) :
         /\ LoadInto(b, access, e, queue, disk)
         /\ block_id' = [block_id EXCEPT ![e] = b]
         /\ cache' = [cache EXCEPT ![e] = disk[b]]
         /\ modified' = [modified EXCEPT ![e] = access = "modify"]
  BY ZenonT(40) DEF GetFree
<1>3. \A f \in ToSet(queue) : f \in Entry /\ f # e /\ block_id[f] # b
  BY <1>1, <1>2, Miss
<1>4. \A f \in ToSet(queue) : /\ block_id'[f] = block_id[f]
                              /\ cache'[f] = cache[f]
                              /\ modified'[f] = modified[f]
  BY <1>1, <1>2, <1>3 DEF TypeOK
<1>5. block_id'[e] = b /\ cache'[e] = disk[b] /\ modified'[e] = (access = "modify")
  BY <1>1, <1>2 DEF TypeOK
<1>6. Len(queue) < BLOCK_CACHE_SIZE
  BY <1>1 DEF TypeOK, GetFree, CacheConsistent
<1>7. /\ block_id' \in [Entry -> Block \cup {NoBlock}]
      /\ cache' \in [Entry -> Value] /\ modified' \in [Entry -> BOOLEAN]
  BY <1>1, <1>2 DEF TypeOK
<1>8. /\ queue' = Append(queue, e) /\ disk' = disk
      /\ held' = Append(held, [entry |-> e, access |-> access])
      /\ UNCHANGED <<syncing, panicked>>
  BY <1>2 DEF LoadInto
<1>9. /\ queue \in Seq(Entry) /\ IsInjective(queue) /\ HeldEntries \subseteq ToSet(queue)
      /\ disk \in [Block -> Value]
      /\ \A f \in ToSet(queue) : ~modified[f] => cache[f] = disk[block_id[f]]
  BY <1>1 DEF TypeOK, CacheConsistent, PinnedStayCached
<1> QED BY <1>2, <1>3, <1>4, <1>5, <1>6, <1>7, <1>8, <1>9, Zenon DEF Loads

\* Two handles cannot pin the three or more entries of a full queue.
LEMMA SomeEvictable ==
    ASSUME CacheInv, NEW b \in Block, MayRequest(b), Len(queue) = BLOCK_CACHE_SIZE
    PROVE  Evictable # {}
<1> SUFFICES ASSUME Evictable = {} PROVE FALSE
  OBVIOUS
<1>1. /\ TypeOK /\ CacheConsistent
  BY DEF CacheInv
<1>2. queue \in Seq(Entry) /\ 1 \in 1..Len(queue) /\ 2 \in 1..Len(queue) /\ 3 \in 1..Len(queue)
  BY <1>1 DEF TypeOK
<1>3. queue[1] # queue[2] /\ queue[1] # queue[3] /\ queue[2] # queue[3]
  BY <1>1, <1>2, SeqElements DEF CacheConsistent
<1>4. {queue[1], queue[2], queue[3]} \subseteq HeldEntries
  BY <1>2 DEF Evictable
<1>5. Len(held) \in Nat /\ Len(held) <= 2
  BY <1>1, RequestNotHeld DEF TypeOK, MayRequest
<1>6. CASE Len(held) = 0
  BY <1>4, <1>6 DEF HeldEntries
<1>7. CASE Len(held) = 1
  BY <1>3, <1>4, <1>7 DEF HeldEntries
<1>8. CASE Len(held) = 2
  <2>1. HeldEntries \subseteq {held[1].entry, held[2].entry}
    BY <1>8 DEF HeldEntries
  <2> QED BY <1>3, <1>4, <2>1
<1>9. Len(held) = 0 \/ Len(held) = 1 \/ Len(held) = 2
  BY <1>5, UpToTwo, ZenonT(40)
<1> QED BY <1>6, <1>7, <1>8, <1>9

\* A miss with the queue full: the first entry nobody holds is written back if
\* it is modified, and equals the device if it is not.
LEMMA EvictLoads ==
    ASSUME CacheInv, NEW b \in Block, NEW access \in {"read", "modify"},
           Running, MayRequest(b), Hits(b) = {}, GetEvict(b, access),
           UNCHANGED syncing
    PROVE  \E idx \in Evictable, e \in Entry :
              Loads(b, access, e, RemoveAt(queue, idx), WriteBack(disk, queue[idx]))
<1>1. /\ TypeOK /\ CacheConsistent /\ PinnedStayCached
  BY DEF CacheInv
<1>2. Len(queue) = BLOCK_CACHE_SIZE /\ Evictable # {}
  BY SomeEvictable DEF GetEvict
<1>3. PICK idx \in Evictable :
        LET old == queue[idx]
            d == WriteBack(disk, old)
        IN \E e \in Entry \ (ToSet(RemoveAt(queue, idx)) \cup HeldEntries) :
              /\ LoadInto(b, access, e, RemoveAt(queue, idx), d)
              /\ block_id' = [block_id EXCEPT ![old] = NoBlock, ![e] = b]
              /\ cache' = [cache EXCEPT ![old] = Zero, ![e] = d[b]]
              /\ modified' = [modified EXCEPT ![old] = FALSE, ![e] = access = "modify"]
  BY <1>2, ZenonT(40) DEF GetEvict
<1> DEFINE old == queue[idx]
           d == WriteBack(disk, old)
           q == RemoveAt(queue, idx)
<1>4. PICK e \in Entry \ (ToSet(q) \cup HeldEntries) :
              /\ LoadInto(b, access, e, q, d)
              /\ block_id' = [block_id EXCEPT ![old] = NoBlock, ![e] = b]
              /\ cache' = [cache EXCEPT ![old] = Zero, ![e] = d[b]]
              /\ modified' = [modified EXCEPT ![old] = FALSE, ![e] = access = "modify"]
  BY <1>3, ZenonT(40)
<1>5. idx \in 1..Len(queue) /\ old \notin HeldEntries
  BY DEF Evictable
<1>6. old \in Entry /\ old \in ToSet(queue) /\ block_id[old] \in Block
  BY <1>1, <1>5, SeqElements, SMTT(30) DEF TypeOK, CacheConsistent
<1>7. q \in Seq(Entry) /\ IsInjective(q) /\ ToSet(q) = ToSet(queue) \ {old}
  BY <1>1, <1>5, RemoveAtElements, SMTT(30) DEF TypeOK, CacheConsistent
<1>8. Len(q) < BLOCK_CACHE_SIZE
  <2>1. queue \in Seq(Entry)
    BY <1>1 DEF TypeOK
  <2>2. Len(q) = Len(queue) - 1
    BY <1>1, <1>5, <2>1, RemoveAtElements, SMTT(30) DEF CacheConsistent
  <2> QED BY <1>2, <2>2
<1> HIDE DEF q
<1>9. d \in [Block -> Value] /\ \A c \in Block : c # block_id[old] => d[c] = disk[c]
  BY <1>1, <1>6, SMTT(30) DEF TypeOK, WriteBack
<1> HIDE DEF d, old
<1>10. \A f \in ToSet(q) : /\ f \in ToSet(queue) /\ f \in Entry /\ f # old /\ f # e
                           /\ block_id[f] # b /\ block_id[f] # block_id[old]
                           /\ block_id[f] \in Block
  BY <1>1, <1>4, <1>6, <1>7, Miss, ZenonT(40) DEF CacheConsistent
<1>11. \A f \in ToSet(q) : ~modified[f] => cache[f] = d[block_id[f]]
  BY <1>1, <1>9, <1>10 DEF CacheConsistent
<1>12. \A f \in ToSet(q) : /\ block_id'[f] = block_id[f]
                           /\ cache'[f] = cache[f]
                           /\ modified'[f] = modified[f]
  BY <1>1, <1>4, <1>10 DEF TypeOK
<1>13. block_id'[e] = b /\ cache'[e] = d[b] /\ modified'[e] = (access = "modify")
  BY <1>1, <1>4, <1>6 DEF TypeOK
<1>14. /\ block_id' \in [Entry -> Block \cup {NoBlock}]
       /\ cache' \in [Entry -> Value] /\ modified' \in [Entry -> BOOLEAN]
  BY <1>1, <1>4, <1>6, <1>9, ZenonT(40) DEF TypeOK
<1>15. /\ queue' = Append(q, e) /\ disk' = d
       /\ held' = Append(held, [entry |-> e, access |-> access])
       /\ UNCHANGED <<syncing, panicked>>
  BY <1>4 DEF LoadInto
<1>16. ToSet(q) \subseteq ToSet(queue) /\ HeldEntries \subseteq ToSet(q)
  BY <1>1, <1>5, <1>7 DEF PinnedStayCached, old
<1>17. Loads(b, access, e, q, d)
  <2>1. e \notin ToSet(q) /\ \A f \in ToSet(q) : block_id[f] # b
    BY <1>4, <1>10
  <2> QED BY <1>7, <1>8, <1>9, <1>11, <1>12, <1>13, <1>14, <1>15, <1>16, <2>1,
             Zenon DEF Loads
<1> QED BY <1>17 DEF q, d, old

\* The closure of modify writes to the entry on top, which is marked.
LEMMA ModifyKeeps ==
    ASSUME CacheInv, NEW v \in Value, Modify(v)
    PROVE  CacheInv'
<1>1. /\ TypeOK /\ CacheConsistent /\ PinnedStayCached
  BY DEF CacheInv
<1>2. held \in Seq(Handle) /\ held # <<>>
  BY <1>1 DEF TypeOK, Handle, Modify
<1>3. /\ Last(held).entry \in Entry /\ modified[Last(held).entry]
  <2>0. Len(held) \in Nat /\ Len(held) >= 1 /\ Last(held) = held[Len(held)]
    BY <1>2, FrontIndex, ZenonT(40)
  <2>1. Len(held) \in 1..Len(held) /\ Last(held) = held[Len(held)]
    BY <2>0
  <2>2. held[Len(held)].access = "modify"
    BY <2>1 DEF Modify
  <2>3. modified[held[Len(held)].entry]
    BY <1>1, <2>1, <2>2, Zenon DEF PinnedStayCached
  <2> QED BY <1>2, <2>1, <2>3, HandleEntries
<1>4. UNCHANGED <<block_id, modified, queue, held, syncing, panicked, disk>>
  BY DEF Modify
<1>5. TypeOK'
  BY <1>1, <1>4, ZenonT(40) DEF TypeOK, Modify
<1>6. \A f \in Entry : ~modified[f] => cache'[f] = cache[f]
  BY <1>1, <1>3 DEF TypeOK, Modify
<1>7. \A f \in ToSet(queue) : f \in Entry
  BY <1>1, SeqElements DEF TypeOK
<1>8. CacheConsistent'
  BY <1>1, <1>4, <1>6, <1>7, SMTT(30) DEF CacheConsistent
<1>9. PinnedStayCached'
  BY <1>1, <1>4 DEF PinnedStayCached, HeldEntries
<1> QED BY <1>4, <1>5, <1>8, <1>9 DEF CacheInv, NeverRunsOut, HeldArea

\* Dropping the handle on top.
LEMMA ReleaseKeeps ==
    ASSUME CacheInv, Release
    PROVE  CacheInv'
<1>1. /\ TypeOK /\ CacheConsistent /\ PinnedStayCached
  BY DEF CacheInv
<1>2. held \in Seq(Handle) /\ held # <<>>
  BY <1>1 DEF TypeOK, Handle, Release
<1>3. /\ held' \in Seq(Handle) /\ Len(held) \in Nat /\ Len(held') = Len(held) - 1
      /\ \A i \in 1..Len(held') : i \in 1..Len(held) /\ held'[i] = held[i]
  BY <1>2, FrontIndex DEF Release
<1>4. UNCHANGED <<block_id, cache, modified, queue, syncing, panicked, disk>>
  BY DEF Release, entryVars
<1>5. TypeOK'
  BY <1>1, <1>3, <1>4 DEF TypeOK, Handle
<1>6. CacheConsistent'
  BY <1>1, <1>4 DEF CacheConsistent
<1>7. PinnedStayCached'
  BY <1>1, <1>3, <1>4, SMTT(30) DEF PinnedStayCached, HeldEntries
<1>8. Len(held') <= 3
  BY <1>3 DEF CacheInv
<1>9. Len(held') >= 2 => HeldArea(1)' = "inode"
  BY <1>3, <1>4 DEF CacheInv, HeldArea
<1>10. ~(syncing' > 0)
  BY <1>4 DEF Release, Running
<1> QED BY <1>4, <1>5, <1>6, <1>7, <1>8, <1>9, <1>10, SMTT(30)
           DEF CacheInv, NeverRunsOut

\* The loop of block_cache_sync_all starts or ends.
LEMMA SyncEdgeKeeps ==
    ASSUME CacheInv, SyncAll \/ SyncEnd
    PROVE  CacheInv'
<1>1. /\ TypeOK /\ CacheConsistent /\ PinnedStayCached
  BY DEF CacheInv
<1>2. UNCHANGED <<block_id, cache, modified, queue, held, panicked, disk>>
  BY DEF SyncAll, SyncEnd, entryVars
<1>3. syncing' \in Nat /\ (syncing' > 0 => held = <<>> /\ syncing' = 1)
  BY DEF SyncAll, SyncEnd
<1>4. TypeOK' /\ CacheConsistent' /\ PinnedStayCached'
  BY <1>1, <1>2, <1>3 DEF TypeOK, CacheConsistent, PinnedStayCached, HeldEntries
<1>5. syncing' > 0 => \A i \in 1..Len(queue') : i < syncing' => ~modified'[queue'[i]]
  BY <1>3
<1> QED BY <1>2, <1>3, <1>4, <1>5 DEF CacheInv, NeverRunsOut, HeldArea

\* One write of block_cache_sync_all.
LEMMA SyncNextKeeps ==
    ASSUME CacheInv, SyncNext
    PROVE  CacheInv'
<1> DEFINE e == queue[syncing]
<1>1. /\ TypeOK /\ CacheConsistent /\ PinnedStayCached
  BY DEF CacheInv
<1>2. syncing \in 1..Len(queue) /\ held = <<>> /\ syncing' = syncing + 1
  BY <1>1 DEF SyncNext, CacheInv
<1>3. e \in Entry /\ e \in ToSet(queue) /\ block_id[e] \in Block
  BY <1>1, <1>2, SeqElements DEF TypeOK, CacheConsistent
<1>4. /\ disk' = WriteBack(disk, e) /\ modified' = [modified EXCEPT ![e] = FALSE]
      /\ UNCHANGED <<block_id, cache, queue, held, panicked>>
  BY DEF SyncNext
<1>5. /\ disk' \in [Block -> Value]
      /\ \A c \in Block : c # block_id[e] => disk'[c] = disk[c]
      /\ disk'[block_id[e]] = cache[e]
  BY <1>1, <1>3, <1>4 DEF WriteBack, TypeOK, CacheConsistent
<1>6. TypeOK'
  BY <1>1, <1>2, <1>4, <1>5, SMTT(30) DEF TypeOK
<1>7. CacheConsistent'
  <2>1. ASSUME NEW f \in ToSet(queue), ~modified'[f]
        PROVE  cache[f] = disk'[block_id[f]]
    <3>1. f \in Entry
      BY <1>1, SeqElements DEF TypeOK
    <3>2. CASE f = e
      BY <3>2, <1>5
    <3>3. CASE f # e
      BY <3>1, <3>3, <1>1, <1>3, <1>4, <1>5, <2>1, SMTT(30)
         DEF TypeOK, CacheConsistent
    <3> QED BY <3>2, <3>3
  <2> QED BY <1>1, <1>4, <2>1 DEF CacheConsistent
<1>8. PinnedStayCached'
  BY <1>1, <1>2, <1>4 DEF PinnedStayCached, HeldEntries
<1>9. \A i \in 1..Len(queue') : i < syncing' => ~modified'[queue'[i]]
  <2>1. \A i \in 1..Len(queue) : queue[i] \in Entry
    BY <1>1, SeqElements DEF TypeOK
  <2>2. \A i \in 1..Len(queue) : i < syncing => ~modified[queue[i]]
    BY <1>2 DEF CacheInv
  <2>3. ASSUME NEW i \in 1..Len(queue), i < syncing'
        PROVE  ~modified'[queue[i]]
    <3>1. i < syncing \/ i = syncing
      BY <1>2, <2>3
    <3>2. modified'[e] = FALSE
      BY <1>1, <1>3, <1>4 DEF TypeOK
    <3>3. modified'[queue[i]] = modified[queue[i]] \/ queue[i] = e
      BY <1>1, <1>3, <1>4, <2>1, ZenonT(40) DEF TypeOK
    <3> QED BY <2>2, <3>1, <3>2, <3>3
  <2> QED BY <1>4, <2>3
<1>10. Len(held') <= 3 /\ ~(Len(held') >= 2) /\ held' = <<>>
  BY <1>2, <1>4
<1> QED BY <1>4, <1>6, <1>7, <1>8, <1>9, <1>10, SMTT(30)
           DEF CacheInv, NeverRunsOut

\* get_block_cache hits, or loads the block with or without a replacement.
LEMMA GetCases ==
    ASSUME CacheInv, NEW b \in Block, NEW access \in {"read", "modify"},
           GetBlockCache(b, access)
    PROVE  \/ GetHit(b, access)
           \/ \E e \in Entry : Loads(b, access, e, queue, disk)
           \/ \E idx \in Evictable, e \in Entry :
                 Loads(b, access, e, RemoveAt(queue, idx), WriteBack(disk, queue[idx]))
BY FreeLoads, EvictLoads DEF GetBlockCache

LEMMA CacheStepKeeps ==
    ASSUME CacheInv, [Next]_vars
    PROVE  CacheInv'
<1>1. ASSUME NEW b \in Block, NEW access \in {"read", "modify"}, GetBlockCache(b, access)
      PROVE  CacheInv'
  <2>1. CASE GetHit(b, access)
    BY <1>1, <2>1, HitKeeps, SMTT(30) DEF GetBlockCache
  <2> QED BY <1>1, <2>1, GetCases, LoadKeeps
<1>2. CASE UNCHANGED vars
  BY <1>2 DEF CacheInv, TypeOK, CacheConsistent, PinnedStayCached, NeverRunsOut,
              HeldEntries, HeldArea, vars, entryVars
<1>3. CASE Crash
  BY <1>3, EmptyCacheNext DEF CacheInv
<1> QED BY <1>1, <1>2, <1>3, ModifyKeeps, ReleaseKeeps, SyncEdgeKeeps, SyncNextKeeps, SMTT(30)
        DEF Next

(***************************************************************************)
(* The invariant of the cache: no block twice, clean entries equal the     *)
(* device, handles stay in the queue, and a full queue can always replace. *)
(***************************************************************************)
THEOREM CacheCorrect == Spec => []CacheInv
<1>1. Init => CacheInv
  BY EmptyCache, ZenonT(40) DEF Init
<1>2. CacheInv /\ [Next]_vars => CacheInv'
  BY CacheStepKeeps
<1> QED BY <1>1, <1>2, PTL DEF Spec

\* get_block_cache never panics, for every capacity of at least three.
THEOREM CacheNeverRunsOut == Spec => []NeverRunsOut
<1>1. CacheInv => NeverRunsOut
  BY DEF CacheInv
<1> QED BY <1>1, CacheCorrect, PTL

\* No block is cached twice and a clean entry equals the device.
THEOREM CacheStaysConsistent == Spec => []CacheConsistent
<1>1. CacheInv => CacheConsistent
  BY DEF CacheInv
<1> QED BY <1>1, CacheCorrect, PTL

\* The handles of the callers stay in the queue, and no block is locked twice.
THEOREM CachePinned == Spec => []PinnedStayCached
<1>1. CacheInv => PinnedStayCached
  BY DEF CacheInv
<1> QED BY <1>1, CacheCorrect, PTL
=============================================================================
