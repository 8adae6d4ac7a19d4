------------------------- MODULE BlockCacheRefinement -------------------------
(***************************************************************************)
(* BlockCache implements BlockStore.  written is a history variable: the   *)
(* values each block has had since the last block_cache_sync_all returned. *)
(***************************************************************************)
EXTENDS BlockCache

VARIABLE written

\* A block is what its entry in the queue holds, or else what is on the disk.
BlockValue(q, id, data, d, b) ==
    IF \E e \in ToSet(q) : id[e] = b
    THEN data[CHOOSE e \in ToSet(q) : id[e] = b]
    ELSE d[b]

contentBar == [b \in Block |-> BlockValue(queue, block_id, cache, disk, b)]

\* What the handles h show.
ViewOf(h, id, data) == [i \in 1..Len(h) |-> <<id[h[i].entry], data[h[i].entry]>>]

viewBar == ViewOf(held, block_id, cache)

HInit == Init /\ written = [b \in Block |-> {contentBar[b]}]

HNext ==
    /\ Next
    /\ written' = IF SyncEnd \/ Crash
                  THEN [b \in Block |-> {contentBar'[b]}]
                  ELSE [b \in Block |-> written[b] \cup {contentBar'[b]}]

hvars == <<vars, written>>

HSpec == HInit /\ [][HNext]_hvars

Store == INSTANCE BlockStore WITH content <- contentBar, view <- viewBar,
                                  pending <- written

(***************************************************************************)
(* get_block_cache, modify, the eviction, block_cache_sync_all and a power *)
(* failure are steps of BlockStore: no update is lost to replacement, no   *)
(* handle shows stale data, and all that precedes a completed sync is on   *)
(* the device.                                                             *)
(***************************************************************************)
ImplementsStore == Store!StoreSpec

(***************************************************************************)
(* What is on the device is a value the block has had since the last sync. *)
(* With CacheConsistent this is the invariant the refinement rests on.     *)
(***************************************************************************)
DiskIsRecent == \A b \in Block : disk[b] \in written[b] /\ contentBar[b] \in written[b]
=============================================================================
