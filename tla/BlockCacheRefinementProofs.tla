--------------------- MODULE BlockCacheRefinementProofs ---------------------
(***************************************************************************)
(* The block cache implements BlockStore.  The proof rests on CacheInv and *)
(* on DiskIsRecent.                                                        *)
(***************************************************************************)
EXTENDS BlockCacheRefinement, BlockCacheProofs

\* No block has two entries.
OneEntry(q, id) == \A f, g \in ToSet(q) : id[f] = id[g] => f = g

LEMMA Unique ==
    /\ CacheConsistent => OneEntry(queue, block_id)
    /\ CacheConsistent' => OneEntry(queue', block_id')
BY DEF CacheConsistent, OneEntry

\* A block with one entry has the value of that entry, any other that of the
\* device.
LEMMA ValueCached ==
    ASSUME NEW q, NEW id, NEW data, NEW d, NEW b, NEW e \in ToSet(q), id[e] = b,
           OneEntry(q, id)
    PROVE  BlockValue(q, id, data, d, b) = data[e]
<1> DEFINE c == CHOOSE f \in ToSet(q) : id[f] = b
<1>1. c \in ToSet(q) /\ id[c] = b
  OBVIOUS
<1>2. c = e
  BY <1>1 DEF OneEntry
<1> QED BY <1>2, ZenonT(40) DEF BlockValue

LEMMA ValueUncached ==
    ASSUME NEW q, NEW id, NEW data, NEW d, NEW b,
           \A e \in ToSet(q) : id[e] # b
    PROVE  BlockValue(q, id, data, d, b) = d[b]
BY DEF BlockValue

Typed(q, data, d) ==
    q \in Seq(Entry) /\ data \in [Entry -> Value] /\ d \in [Block -> Value]

LEMMA ValueTyped ==
    ASSUME NEW q, NEW id, NEW data, NEW d, NEW b \in Block,
           Typed(q, data, d), OneEntry(q, id)
    PROVE  BlockValue(q, id, data, d, b) \in Value
<1>1. ASSUME NEW e \in ToSet(q), id[e] = b
      PROVE  BlockValue(q, id, data, d, b) \in Value
  <2>1. BlockValue(q, id, data, d, b) = data[e]
    BY <1>1, ValueCached
  <2>2. e \in Entry
    BY SeqElements DEF Typed
  <2> QED BY <2>1, <2>2 DEF Typed
<1>2. CASE \A e \in ToSet(q) : id[e] # b
  BY <1>2, ValueUncached DEF Typed
<1> QED BY <1>1, <1>2

LEMMA ContentTyped ==
    /\ CacheInv => contentBar \in [Block -> Value]
    /\ CacheInv' => contentBar' \in [Block -> Value]
BY ValueTyped, Unique, ZenonT(40) DEF CacheInv, TypeOK, contentBar, Typed

\* Loading a block, with the write-back of the entry that made room, changes
\* the value of no block.
LEMMA LoadSameContent ==
    ASSUME CacheInv, CacheInv', NEW b \in Block, NEW access \in {"read", "modify"},
           NEW e \in Entry, NEW q, NEW d, Loads(b, access, e, q, d),
           \/ q = queue /\ d = disk
           \/ \E idx \in Evictable : q = RemoveAt(queue, idx) /\ d = WriteBack(disk, queue[idx])
    PROVE  contentBar' = contentBar /\ cache'[e] = contentBar[b]
<1>1. /\ TypeOK /\ CacheConsistent /\ CacheConsistent'
  BY DEF CacheInv
<1>2. ToSet(queue') = ToSet(q) \cup {e} /\ block_id'[e] = b
  BY AppendElements DEF Loads
<1>3. \A f \in ToSet(q) : block_id'[f] = block_id[f] /\ cache'[f] = cache[f] /\ f \in ToSet(queue)
  BY DEF Loads
<1>4. disk' = d /\ cache'[e] = d[b] /\ \A f \in ToSet(q) : block_id[f] # b
  BY DEF Loads
<1>5. ASSUME NEW c \in Block, NEW f \in ToSet(q), block_id[f] = c
      PROVE  BlockValue(queue, block_id, cache, disk, c) = BlockValue(queue, block_id, cache, disk, c)'
  <2>1. BlockValue(queue, block_id, cache, disk, c) = cache[f]
    BY <1>1, <1>3, <1>5, ValueCached, Unique, SMTT(30)
  <2>2. OneEntry(queue', block_id')
    BY <1>1, Unique
  <2>3. f \in ToSet(queue') /\ block_id'[f] = c
    BY <1>2, <1>3, <1>5
  <2>4. BlockValue(queue', block_id', cache', disk', c) = cache'[f]
    BY <2>2, <2>3, ValueCached
  <2> QED BY <1>3, <2>1, <2>4
<1>6. ASSUME NEW c \in Block, \A f \in ToSet(q) : block_id[f] # c
      PROVE  /\ BlockValue(queue, block_id, cache, disk, c) = d[c]
             /\ BlockValue(queue, block_id, cache, disk, c)' = d[c]
  <2>1. BlockValue(queue, block_id, cache, disk, c) = d[c]
    <3>1. CASE q = queue /\ d = disk
      BY <3>1, <1>6, ValueUncached
    <3>2. ASSUME NEW idx \in Evictable, q = RemoveAt(queue, idx), d = WriteBack(disk, queue[idx])
          PROVE  BlockValue(queue, block_id, cache, disk, c) = d[c]
      <4>a. /\ idx \in 1..Len(queue) /\ queue \in Seq(Entry) /\ IsInjective(queue)
        BY <1>1 DEF Evictable, TypeOK, CacheConsistent
      <4>b. queue[idx] \in ToSet(queue) /\ queue[idx] \in Entry
        BY <4>a, SeqElements
      <4>1. /\ queue[idx] \in ToSet(queue) /\ queue[idx] \in Entry
            /\ ToSet(q) = ToSet(queue) \ {queue[idx]}
        BY <3>2, <4>a, <4>b, RemoveAtElements, SMTT(30)
      <4>2. CASE block_id[queue[idx]] = c
        <5>1. BlockValue(queue, block_id, cache, disk, c) = cache[queue[idx]]
          BY <1>1, <4>1, <4>2, ValueCached, Unique, SMTT(30)
        <5>2. d[c] = cache[queue[idx]]
          BY <1>1, <3>2, <4>1, <4>2 DEF WriteBack, TypeOK, CacheConsistent
        <5> QED BY <5>1, <5>2
      <4>3. CASE block_id[queue[idx]] # c
        <5>1. BlockValue(queue, block_id, cache, disk, c) = disk[c]
          BY <1>6, <4>1, <4>3, ValueUncached, SMTT(30)
        <5>2. d[c] = disk[c]
          BY <1>1, <3>2, <4>1, <4>3, SMTT(30)
             DEF WriteBack, TypeOK, CacheConsistent
        <5> QED BY <5>1, <5>2
      <4> QED BY <4>2, <4>3
    <3> QED BY <3>1, <3>2
  <2>2. BlockValue(queue', block_id', cache', disk', c) = d[c]
    <3>1. CASE c = b
      <4>1. OneEntry(queue', block_id') /\ e \in ToSet(queue') /\ block_id'[e] = c
        BY <1>1, <1>2, <3>1, Unique
      <4>2. BlockValue(queue', block_id', cache', disk', c) = cache'[e]
        BY <4>1, ValueCached
      <4> QED BY <1>4, <3>1, <4>2
    <3>2. CASE c # b
      <4>1. \A f \in ToSet(queue') : block_id'[f] # c
        BY <1>2, <1>3, <1>6, <3>2, SMTT(30)
      <4> QED BY <1>4, <4>1, ValueUncached
    <3> QED BY <3>1, <3>2
  <2> QED BY <2>1, <2>2
<1>7. \A c \in Block : contentBar'[c] = contentBar[c]
  BY <1>5, <1>6 DEF contentBar
<1> QED BY <1>4, <1>6, <1>7 DEF contentBar

\* The handles show blocks and values.
Shows(h, id, data) ==
    /\ h \in Seq(Handle)
    /\ \A i \in 1..Len(h) : id[h[i].entry] \in Block /\ data[h[i].entry] \in Value

LEMMA ViewIsSeq ==
    ASSUME NEW h, NEW id, NEW data, Shows(h, id, data)
    PROVE  /\ ViewOf(h, id, data) \in Seq(Block \X Value)
           /\ Len(ViewOf(h, id, data)) = Len(h) /\ Len(h) \in Nat
           /\ \A i \in 1..Len(h) :
                 ViewOf(h, id, data)[i] = <<id[h[i].entry], data[h[i].entry]>>
BY DEF ViewOf, Shows

LEMMA HandlesShow ==
    /\ CacheInv => Shows(held, block_id, cache)
    /\ CacheInv' => Shows(held', block_id', cache')
<1>1. ASSUME CacheInv PROVE Shows(held, block_id, cache)
  <2>1. held \in Seq(Handle)
    BY <1>1 DEF CacheInv, TypeOK, Handle
  <2>2. \A i \in 1..Len(held) : held[i].entry \in Entry /\ held[i].entry \in ToSet(queue)
    BY <1>1, <2>1, HandleEntries, SMTT(30)
       DEF CacheInv, PinnedStayCached, HeldEntries
  <2> QED BY <1>1, <2>1, <2>2, SMTT(30)
             DEF CacheInv, CacheConsistent, TypeOK, Shows
<1>2. ASSUME CacheInv' PROVE Shows(held', block_id', cache')
  <2>1. held' \in Seq(Handle)
    BY <1>2 DEF CacheInv, TypeOK, Handle
  <2>2. \A i \in 1..Len(held') : held'[i].entry \in Entry /\ held'[i].entry \in ToSet(queue')
    BY <1>2, <2>1, HandleEntries, SMTT(30)
       DEF CacheInv, PinnedStayCached, HeldEntries
  <2> QED BY <1>2, <2>1, <2>2 DEF CacheInv, CacheConsistent, TypeOK, Shows
<1> QED BY <1>1, <1>2

LEMMA ViewNow ==
    ASSUME CacheInv
    PROVE  /\ viewBar \in Seq(Block \X Value) /\ Len(viewBar) = Len(held) /\ Len(held) \in Nat
           /\ \A i \in 1..Len(held) :
                 viewBar[i] = <<block_id[held[i].entry], cache[held[i].entry]>>
BY ViewIsSeq, HandlesShow DEF viewBar

LEMMA ViewNext ==
    ASSUME CacheInv'
    PROVE  /\ viewBar' \in Seq(Block \X Value) /\ Len(viewBar') = Len(held')
           /\ Len(held') \in Nat
           /\ \A i \in 1..Len(held') :
                 viewBar'[i] = <<block_id'[held'[i].entry], cache'[held'[i].entry]>>
BY ViewIsSeq, HandlesShow DEF viewBar

\* A new handle is appended to what the others show.
LEMMA ViewPush ==
    ASSUME CacheInv, CacheInv', NEW b \in Block, NEW v \in Value,
           NEW h \in Handle, held' = Append(held, h),
           block_id'[h.entry] = b, cache'[h.entry] = v,
           \A i \in 1..Len(held) : /\ block_id'[held[i].entry] = block_id[held[i].entry]
                                   /\ cache'[held[i].entry] = cache[held[i].entry]
    PROVE  viewBar' = Append(viewBar, <<b, v>>)
<1> DEFINE T == Block \X Value
           x == <<b, v>>
           w == viewBar
           u == viewBar'
           a == Append(w, x)
<1>1. /\ w \in Seq(T) /\ Len(w) = Len(held) /\ Len(held) \in Nat
      /\ \A i \in 1..Len(held) : w[i] = <<block_id[held[i].entry], cache[held[i].entry]>>
  BY ViewNow
<1>2. /\ u \in Seq(T) /\ Len(u) = Len(held')
      /\ \A i \in 1..Len(held') : u[i] = <<block_id'[held'[i].entry], cache'[held'[i].entry]>>
  BY ViewNext
<1>3. /\ held \in Seq(Handle)
  BY HandlesShow DEF Shows
<1>4. /\ Len(held') = Len(held) + 1
      /\ \A k \in 1..Len(held) : held'[k] = held[k]
      /\ held'[Len(held) + 1] = h
  BY <1>3, AppendIndex
<1>5. x \in T
  OBVIOUS
<1>6. /\ a \in Seq(T) /\ Len(a) = Len(w) + 1
      /\ \A k \in 1..Len(w) : a[k] = w[k]
      /\ a[Len(w) + 1] = x
  <2> HIDE DEF T, x, w
  <2> QED BY <1>1, <1>5, AppendIndex, SMTT(30)
<1>7. ASSUME NEW k \in 1..Len(u) PROVE u[k] = a[k]
  <2> HIDE DEF T, w, u, a
  <2>1. CASE k \in 1..Len(held)
    <3>1. u[k] = <<block_id'[held[k].entry], cache'[held[k].entry]>>
      BY <1>2, <1>4, <2>1, SMTT(30)
    <3>2. a[k] = <<block_id[held[k].entry], cache[held[k].entry]>>
      BY <1>1, <1>6, <2>1
    <3> QED BY <2>1, <3>1, <3>2, SMTT(30)
  <2>2. CASE k = Len(held) + 1
    <3>1. u[k] = <<block_id'[h.entry], cache'[h.entry]>>
      BY <1>2, <1>4, <2>2
    <3>2. a[k] = x
      BY <1>1, <1>6, <2>2, SMTT(30)
    <3> QED BY <3>1, <3>2
  <2> QED BY <1>1, <1>2, <1>4, <2>1, <2>2, SMTT(30)
<1> HIDE DEF T, w, x, u, a
<1>8. u = a
  BY <1>1, <1>2, <1>4, <1>6, <1>7, SeqEqual, SMTT(30)
<1> QED BY <1>8 DEF w, x, u, a

\* Unless a closure writes, the handles that stay show what they showed.
LEMMA ViewFramed ==
    ASSUME CacheInv, CacheInv', UNCHANGED held,
           \A i \in 1..Len(held) : /\ block_id'[held[i].entry] = block_id[held[i].entry]
                                   /\ cache'[held[i].entry] = cache[held[i].entry]
    PROVE  viewBar' = viewBar
BY DEF viewBar, ViewOf

\* A write-back leaves on the device what it had or the value of the block.
LEMMA WriteBackRecent ==
    ASSUME CacheInv, NEW e \in ToSet(queue), NEW b \in Block
    PROVE  WriteBack(disk, e)[b] = disk[b] \/ WriteBack(disk, e)[b] = contentBar[b]
<1>1. /\ TypeOK /\ CacheConsistent
  BY DEF CacheInv
<1>2. e \in Entry
  BY <1>1, SeqElements DEF TypeOK
<1>3. CASE block_id[e] = b
  <2>1. contentBar[b] = cache[e]
    BY <1>1, <1>3, ValueCached, Unique, SMTT(30) DEF contentBar
  <2> QED BY <1>1, <1>2, <1>3, <2>1, SMTT(30) DEF WriteBack, TypeOK
<1>4. CASE block_id[e] # b
  BY <1>1, <1>2, <1>4 DEF WriteBack, TypeOK
<1> QED BY <1>3, <1>4

LEMMA GetDiskRecent ==
    ASSUME CacheInv, NEW b \in Block, NEW access \in {"read", "modify"},
           GetBlockCache(b, access), NEW c \in Block
    PROVE  disk'[c] = disk[c] \/ disk'[c] = contentBar[c]
<1>1. CASE GetHit(b, access)
  BY <1>1 DEF GetHit
<1>2. ASSUME NEW e \in Entry, Loads(b, access, e, queue, disk)
      PROVE  disk' = disk
  BY <1>2 DEF Loads
<1>3. ASSUME NEW idx \in Evictable, NEW e \in Entry,
             Loads(b, access, e, RemoveAt(queue, idx), WriteBack(disk, queue[idx]))
      PROVE  disk'[c] = disk[c] \/ disk'[c] = contentBar[c]
  <2>1. disk' = WriteBack(disk, queue[idx])
    BY <1>3 DEF Loads
  <2>2. queue[idx] \in ToSet(queue)
    BY SeqElements DEF Evictable, CacheInv, TypeOK
  <2> QED BY <2>1, <2>2, WriteBackRecent, SMTT(30)
<1> QED BY <1>1, <1>2, <1>3, GetCases, SMTT(30)

\* get_block_cache shows the value of the block and changes none.
LEMMA GetRefines ==
    ASSUME CacheInv, CacheInv', NEW b \in Block, NEW access \in {"read", "modify"},
           GetBlockCache(b, access)
    PROVE  contentBar' = contentBar /\ viewBar' = Append(viewBar, <<b, contentBar[b]>>)
<1>1. /\ TypeOK /\ CacheConsistent /\ PinnedStayCached
  BY DEF CacheInv
<1>2. contentBar[b] \in Value
  BY ContentTyped
<1>3. ASSUME NEW e \in Entry, held' = Append(held, [entry |-> e, access |-> access]),
             block_id'[e] = b, cache'[e] = contentBar[b],
             \A i \in 1..Len(held) : /\ block_id'[held[i].entry] = block_id[held[i].entry]
                                     /\ cache'[held[i].entry] = cache[held[i].entry]
      PROVE  viewBar' = Append(viewBar, <<b, contentBar[b]>>)
  <2> DEFINE h == [entry |-> e, access |-> access]
             v == contentBar[b]
  <2>1. h \in Handle /\ h.entry = e /\ held' = Append(held, h)
    BY <1>3 DEF Handle
  <2>2. v \in Value /\ cache'[h.entry] = v /\ block_id'[h.entry] = b
    BY <1>2, <1>3, SMTT(30)
  <2> HIDE DEF h, v
  <2>3. viewBar' = Append(viewBar, <<b, v>>)
    BY <1>3, <2>1, <2>2, ViewPush, SMTT(30)
  <2> QED BY <2>3 DEF v
<1>4. CASE GetHit(b, access)
  <2>1. PICK i \in Hits(b) :
          /\ held' = Append(held, [entry |-> queue[i], access |-> access])
          /\ UNCHANGED <<block_id, cache, queue, disk>>
    BY <1>4 DEF GetHit
  <2>2. queue[i] \in Entry /\ queue[i] \in ToSet(queue) /\ block_id[queue[i]] = b
    BY <1>1, SeqElements DEF Hits, TypeOK
  <2>3. contentBar[b] = cache[queue[i]]
    BY <1>1, <2>2, ValueCached, Unique, SMTT(30) DEF contentBar
  <2>4. contentBar' = contentBar
    BY <2>1 DEF contentBar
  <2> QED BY <1>3, <2>1, <2>2, <2>3, <2>4, SMTT(30)
<1>5. ASSUME NEW e \in Entry, NEW q, NEW d, Loads(b, access, e, q, d),
             \/ q = queue /\ d = disk
             \/ \E idx \in Evictable : q = RemoveAt(queue, idx) /\ d = WriteBack(disk, queue[idx])
      PROVE  contentBar' = contentBar /\ viewBar' = Append(viewBar, <<b, contentBar[b]>>)
  <2>1. contentBar' = contentBar /\ cache'[e] = contentBar[b]
    BY <1>5, LoadSameContent, SMTT(30)
  <2>2. /\ held' = Append(held, [entry |-> e, access |-> access]) /\ block_id'[e] = b
        /\ \A f \in ToSet(q) : block_id'[f] = block_id[f] /\ cache'[f] = cache[f]
        /\ HeldEntries \subseteq ToSet(q)
    BY <1>5 DEF Loads
  <2>3. \A i \in 1..Len(held) : held[i].entry \in ToSet(q)
    BY <2>2 DEF HeldEntries
  <2> QED BY <1>3, <2>1, <2>2, <2>3, SMTT(30)
<1>6. CASE \E e \in Entry : Loads(b, access, e, queue, disk)
  BY <1>5, <1>6
<1>7. CASE \E idx \in Evictable, e \in Entry :
                 Loads(b, access, e, RemoveAt(queue, idx), WriteBack(disk, queue[idx]))
  BY <1>5, <1>7
<1> QED BY <1>4, <1>6, <1>7, GetCases, SMTT(30)

\* Dropping the last handle.
LEMMA ReleaseRefines ==
    ASSUME CacheInv, CacheInv', Release
    PROVE  /\ contentBar' = contentBar
           /\ viewBar # <<>> /\ viewBar' = Front(viewBar)
<1> DEFINE T == Block \X Value
           w == viewBar
           u == viewBar'
           f == Front(w)
<1>1. held \in Seq(Handle) /\ held # <<>>
  BY DEF CacheInv, TypeOK, Handle, Release
<1>2. /\ Len(held) \in Nat /\ Len(held) >= 1 /\ Len(held') = Len(held) - 1
      /\ \A i \in 1..Len(held) - 1 : held'[i] = held[i]
  BY <1>1, FrontIndex DEF Release
<1>3. UNCHANGED <<block_id, cache, queue, disk>>
  BY DEF Release, entryVars
<1>4. /\ w \in Seq(T) /\ Len(w) = Len(held)
      /\ \A i \in 1..Len(held) : w[i] = <<block_id[held[i].entry], cache[held[i].entry]>>
  BY ViewNow
<1>5. /\ u \in Seq(T) /\ Len(u) = Len(held')
      /\ \A i \in 1..Len(held') : u[i] = <<block_id'[held'[i].entry], cache'[held'[i].entry]>>
  BY ViewNext
<1>6. w # <<>>
  BY <1>2, <1>4
<1>7. f \in Seq(T) /\ Len(f) = Len(w) - 1 /\ \A i \in 1..Len(w) - 1 : f[i] = w[i]
  <2> HIDE DEF T, w
  <2> QED BY <1>4, <1>6, FrontIndex, ZenonT(40)
<1>8. u = f
  <2> HIDE DEF T, w, u, f
  <2>1. ASSUME NEW i \in 1..Len(u) PROVE u[i] = f[i]
    <3>1. i \in 1..Len(held) - 1 /\ i \in 1..Len(held) /\ i \in 1..Len(held')
      BY <1>2, <1>5
    <3>2. u[i] = <<block_id[held[i].entry], cache[held[i].entry]>>
      BY <1>2, <1>3, <1>5, <3>1, SMTT(30)
    <3>3. f[i] = w[i]
      BY <1>4, <1>7, <3>1
    <3> QED BY <1>4, <3>1, <3>2, <3>3, SMTT(30)
  <2> QED BY <1>2, <1>4, <1>5, <1>7, <2>1, SeqEqual, SMTT(30)
<1> QED BY <1>3, <1>6, <1>8, SMTT(30) DEF contentBar

\* A closure assigns: the block changes, and the handle that is on top shows it.
LEMMA ModifyRefines ==
    ASSUME CacheInv, CacheInv', NEW v \in Value, Modify(v)
    PROVE  \E b \in Block :
              /\ viewBar # <<>> /\ Last(viewBar)[1] = b
              /\ contentBar' = [contentBar EXCEPT ![b] = v]
              /\ viewBar' = Append(Front(viewBar), <<b, v>>)
<1> DEFINE e == Last(held).entry
           b == block_id[e]
           n == Len(held)
           T == Block \X Value
           w == viewBar
           u == viewBar'
           x == <<b, v>>
           f == Front(w)
           a == Append(f, x)
<1>1. /\ TypeOK /\ CacheConsistent /\ PinnedStayCached /\ CacheConsistent'
  BY DEF CacheInv
<1>2. held \in Seq(Handle) /\ held # <<>>
  BY <1>1 DEF TypeOK, Handle, Modify
<1>3. n \in Nat /\ n >= 1 /\ Last(held) = held[n] /\ n \in 1..n
  <2>1. n \in Nat /\ n >= 1 /\ Last(held) = held[n]
    BY <1>2, FrontIndex, ZenonT(40)
  <2> QED BY <2>1
<1>4. e = held[n].entry /\ e \in Entry /\ e \in ToSet(queue)
  BY <1>1, <1>2, <1>3, HandleEntries, SMTT(30) DEF PinnedStayCached, HeldEntries
<1>5. b \in Block
  BY <1>1, <1>4, SMTT(30) DEF CacheConsistent
<1>6. /\ cache' = [cache EXCEPT ![e] = v] /\ UNCHANGED <<block_id, queue, held, disk>>
  BY DEF Modify
<1>7. \A k \in 1..n : held[k].entry \in Entry /\ (k # n => held[k].entry # e)
  BY <1>1, <1>2, <1>3, <1>4, HandleEntries, SMTT(30) DEF PinnedStayCached
<1>8. /\ w \in Seq(T) /\ Len(w) = n
      /\ \A i \in 1..n : w[i] = <<block_id[held[i].entry], cache[held[i].entry]>>
  BY ViewNow
<1>9. /\ u \in Seq(T) /\ Len(u) = n
      /\ \A i \in 1..n : u[i] = <<block_id[held[i].entry], cache'[held[i].entry]>>
  BY <1>6, ViewNext, SMTT(30)
<1>10. w # <<>> /\ x \in T
  BY <1>3, <1>5, <1>8, SMTT(30)
<1>11. /\ f \in Seq(T) /\ Len(f) = n - 1 /\ \A i \in 1..n - 1 : f[i] = w[i]
       /\ Last(w) = w[n]
  <2> HIDE DEF T, w, n
  <2> QED BY <1>8, <1>10, FrontIndex, ZenonT(40)
<1>12. Last(w)[1] = b
  <2> HIDE DEF w
  <2> QED BY <1>3, <1>4, <1>8, <1>11, SMTT(30)
<1>13. /\ a \in Seq(T) /\ Len(a) = Len(f) + 1
       /\ (\A i \in 1..Len(f) : a[i] = f[i]) /\ a[Len(f) + 1] = x
  <2> HIDE DEF T, f, x
  <2> QED BY <1>10, <1>11, AppendIndex, SMTT(30)
<1>14. u = a
  <2>1. ASSUME NEW i \in 1..n PROVE u[i] = a[i]
    <3> HIDE DEF w, u, f, a, n, T
    <3>1. CASE i = n
      <4>1. cache'[e] = v
        BY <1>1, <1>4, <1>6, SMTT(30) DEF TypeOK
      <4>2. u[i] = <<b, v>>
        BY <1>3, <1>4, <1>9, <3>1, <4>1, SMTT(30)
      <4> QED BY <1>3, <1>11, <1>13, <3>1, <4>2, SMTT(30)
    <3>2. CASE i # n
      <4>1. cache'[held[i].entry] = cache[held[i].entry]
        BY <1>1, <1>4, <1>6, <1>7, <3>2, SMTT(30) DEF TypeOK
      <4>2. u[i] = w[i]
        BY <1>8, <1>9, <4>1, ZenonT(40)
      <4>3. i \in 1..n - 1
        BY <1>3, <3>2
      <4> QED BY <1>3, <1>11, <1>13, <4>2, <4>3, SMTT(30)
    <3> QED BY <3>1, <3>2, SMTT(30)
  <2>2. Len(u) = Len(a) /\ Len(u) = n
    BY <1>3, <1>9, <1>11, <1>13, SMTT(30)
  <2> HIDE DEF w, u, f, a, n, T
  <2> QED BY <1>9, <1>13, <2>1, <2>2, SeqEqual, SMTT(30)
<1>15. contentBar' = [contentBar EXCEPT ![b] = v]
  <2>1. ASSUME NEW c \in Block
        PROVE  BlockValue(queue', block_id', cache', disk', c)
                 = IF c = b THEN v ELSE BlockValue(queue, block_id, cache, disk, c)
    <3>0. OneEntry(queue, block_id)
      BY <1>1, Unique, SMTT(30)
    <3>1. CASE c = b
      <4>a. e \in ToSet(queue) /\ block_id[e] = c
        BY <1>4, <3>1
      <4>1. BlockValue(queue, block_id, cache', disk, c) = cache'[e]
        <5> HIDE DEF e, b
        <5> QED BY <3>0, <4>a, ValueCached, SMTT(30)
      <4> QED BY <1>1, <1>4, <1>6, <3>1, <4>1, SMTT(30) DEF TypeOK
    <3>2. ASSUME c # b, NEW g \in ToSet(queue), block_id[g] = c
          PROVE  BlockValue(queue, block_id, cache', disk, c)
                   = BlockValue(queue, block_id, cache, disk, c)
      <4>1. /\ BlockValue(queue, block_id, cache', disk, c) = cache'[g]
            /\ BlockValue(queue, block_id, cache, disk, c) = cache[g]
        BY <3>0, <3>2, ValueCached, SMTT(30)
      <4>2. g # e /\ g \in Entry
        BY <1>1, <3>2, SeqElements, SMTT(30) DEF TypeOK
      <4> QED BY <1>1, <1>4, <1>6, <4>1, <4>2, SMTT(30) DEF TypeOK
    <3>3. CASE \A g \in ToSet(queue) : block_id[g] # c
      <4>1. /\ BlockValue(queue, block_id, cache', disk, c) = disk[c]
            /\ BlockValue(queue, block_id, cache, disk, c) = disk[c]
        BY <3>3, ValueUncached, SMTT(30)
      <4> QED BY <1>4, <1>6, <3>3, <4>1, SMTT(30)
    <3> QED BY <1>6, <3>1, <3>2, <3>3, ZenonT(40)
  <2> HIDE DEF b
  <2> QED BY <1>5, <2>1, ZenonT(40) DEF contentBar
<1> HIDE DEF b
<1> QED BY <1>5, <1>10, <1>12, <1>14, <1>15, ZenonT(40)

\* block_cache_sync_all writes what the blocks already are.
LEMMA SyncNextRefines ==
    ASSUME CacheInv, CacheInv', SyncNext
    PROVE  /\ contentBar' = contentBar /\ viewBar' = viewBar
           /\ \A b \in Block : disk'[b] = disk[b] \/ disk'[b] = contentBar[b]
<1> DEFINE e == queue[syncing]
<1>1. /\ TypeOK /\ CacheConsistent
  BY DEF CacheInv
<1>2. e \in Entry /\ e \in ToSet(queue) /\ block_id[e] \in Block
  BY <1>1, SeqElements DEF TypeOK, CacheConsistent, SyncNext
<1>3. disk' = WriteBack(disk, e) /\ UNCHANGED <<block_id, cache, queue, held>>
  BY DEF SyncNext
<1>4. OneEntry(queue, block_id)
  BY <1>1, Unique, SMTT(30)
<1> HIDE DEF e
<1>5. ASSUME NEW b \in Block, NEW g \in ToSet(queue), block_id[g] = b
      PROVE  /\ BlockValue(queue, block_id, cache, disk', b) = cache[g]
             /\ BlockValue(queue, block_id, cache, disk, b) = cache[g]
             /\ disk'[b] = disk[b] \/ disk'[b] = cache[g]
  <2>1. /\ BlockValue(queue, block_id, cache, disk', b) = cache[g]
        /\ BlockValue(queue, block_id, cache, disk, b) = cache[g]
    BY <1>4, <1>5, ValueCached
  <2>2. block_id[e] = b => e = g
    BY <1>2, <1>4, <1>5, SMTT(30) DEF OneEntry
  <2>3. disk'[b] = disk[b] \/ disk'[b] = cache[g]
    BY <1>1, <1>2, <1>3, <2>2, SMTT(30) DEF WriteBack, TypeOK
  <2> QED BY <2>1, <2>3
<1>6. ASSUME NEW b \in Block, \A g \in ToSet(queue) : block_id[g] # b
      PROVE  /\ BlockValue(queue, block_id, cache, disk', b) = disk'[b]
             /\ BlockValue(queue, block_id, cache, disk, b) = disk[b]
             /\ disk'[b] = disk[b]
  <2>1. disk'[b] = disk[b]
    BY <1>1, <1>2, <1>3, <1>6, SMTT(30) DEF WriteBack, TypeOK
  <2> QED BY <1>6, <2>1, ValueUncached, SMTT(30)
<1>7. \A b \in Block : BlockValue(queue, block_id, cache, disk', b)
                         = BlockValue(queue, block_id, cache, disk, b)
  BY <1>5, <1>6
<1>8. contentBar' = contentBar
  BY <1>3, <1>7, SMTT(30) DEF contentBar
<1>9. \A b \in Block : disk'[b] = disk[b] \/ disk'[b] = contentBar[b]
  BY <1>5, <1>6 DEF contentBar
<1> QED BY <1>3, <1>8, <1>9, ViewFramed, SMTT(30)

\* When it has come to the end, the device holds the value of every block.
LEMMA SyncedContent ==
    ASSUME CacheInv, SyncEnd
    PROVE  /\ \A b \in Block : disk[b] = contentBar[b]
           /\ contentBar' = contentBar /\ viewBar' = viewBar /\ viewBar = <<>>
<1>1. /\ TypeOK /\ CacheConsistent
  BY DEF CacheInv
<1>2. \A i \in 1..Len(queue) : ~modified[queue[i]]
  BY <1>1 DEF CacheInv, SyncEnd, TypeOK
<1>3. ASSUME NEW b \in Block PROVE disk[b] = BlockValue(queue, block_id, cache, disk, b)
  <2>1. ASSUME NEW e \in ToSet(queue), block_id[e] = b
        PROVE  disk[b] = BlockValue(queue, block_id, cache, disk, b)
    <3>1. ~modified[e]
      BY <1>1, <1>2, SeqElements, SMTT(30) DEF TypeOK
    <3>2. BlockValue(queue, block_id, cache, disk, b) = cache[e]
      BY <1>1, <2>1, ValueCached, Unique, SMTT(30)
    <3> QED BY <1>1, <2>1, <3>1, <3>2, SMTT(30) DEF CacheConsistent
  <2> QED BY <2>1, ValueUncached, SMTT(30)
<1>4. held = <<>>
  BY <1>1 DEF CacheInv, SyncEnd, TypeOK
<1>5. viewBar = <<>>
  BY <1>4, ViewNow
<1>6. UNCHANGED <<block_id, cache, queue, disk, held>>
  BY DEF SyncEnd, entryVars
<1> QED BY <1>3, <1>5, <1>6, SMTT(30) DEF contentBar, viewBar

\* After a power failure every block is what the device holds.
LEMMA CrashContent ==
    ASSUME CacheInv, CacheInv', Crash
    PROVE  /\ \A b \in Block : contentBar'[b] = disk[b]
           /\ disk' = disk /\ viewBar' = <<>> /\ contentBar' \in [Block -> Value]
<1>1. disk' = disk /\ held' = <<>> /\ queue' = <<>>
  BY DEF Crash
<1>2. ToSet(queue') = {}
  BY <1>1, EmptyElements
<1>3. \A b \in Block : BlockValue(queue', block_id', cache', disk', b) = disk'[b]
  BY <1>2, ValueUncached
<1>4. viewBar' = <<>>
  BY <1>1, ViewNext, SMTT(30)
<1>5. disk \in [Block -> Value]
  BY DEF CacheInv, TypeOK
<1> QED BY <1>1, <1>3, <1>4, <1>5, SMTT(30) DEF contentBar

HistoryInv == DiskIsRecent /\ written \in [Block -> SUBSET Value]

\* What the history variable does in a step that neither ends a sync nor fails.
LEMMA Remembers ==
    ASSUME CacheInv, CacheInv', HistoryInv, HNext, ~SyncEnd, ~Crash
    PROVE  /\ written' = [b \in Block |-> written[b] \cup {contentBar'[b]}]
           /\ written' \in [Block -> SUBSET Value]
           /\ contentBar' = contentBar => written' = written
           /\ (\A b \in Block : disk'[b] = disk[b] \/ disk'[b] = contentBar[b]) => HistoryInv'
<1>1. written' = [b \in Block |-> written[b] \cup {contentBar'[b]}]
  BY DEF HNext
<1>2. contentBar' \in [Block -> Value]
  BY ContentTyped
<1>3. written' \in [Block -> SUBSET Value]
  BY <1>1, <1>2 DEF HistoryInv
<1>4. contentBar' = contentBar => written' = written
  BY <1>1 DEF HistoryInv, DiskIsRecent
<1>5. (\A b \in Block : disk'[b] = disk[b] \/ disk'[b] = contentBar[b]) => DiskIsRecent'
  BY <1>1 DEF HistoryInv, DiskIsRecent
<1> QED BY <1>1, <1>3, <1>4, <1>5, SMTT(30) DEF HistoryInv

\* Every step of the cache is a step of the store or changes nothing of it.
LEMMA StepRefines ==
    ASSUME CacheInv, CacheInv', HistoryInv, [HNext]_hvars
    PROVE  HistoryInv' /\ [Store!StoreNext]_(Store!storeVars)
<1> DEFINE Same == contentBar' = contentBar /\ viewBar' = viewBar /\ written' = written
<1>s. Same => [Store!StoreNext]_(Store!storeVars)
  BY DEF Store!storeVars
<1>1. CASE UNCHANGED hvars
  <2>1. UNCHANGED <<block_id, cache, queue, held, disk, written>>
    BY <1>1 DEF hvars, vars, entryVars
  <2>2. Same
    BY <2>1 DEF contentBar, viewBar
  <2>3. HistoryInv'
    BY <2>1, <2>2 DEF HistoryInv, DiskIsRecent
  <2> QED BY <2>2, <2>3, <1>s
<1>2. CASE HNext /\ SyncEnd
  <2>1. /\ written' = [b \in Block |-> {contentBar'[b]}] /\ disk' = disk
    BY <1>2 DEF HNext, SyncEnd
  <2>2. Store!Sync
    BY <1>2, <2>1, SyncedContent, SMTT(30) DEF Store!Sync
  <2>3. HistoryInv'
    BY <1>2, <2>1, SyncedContent, ContentTyped, SMTT(30)
       DEF HistoryInv, DiskIsRecent
  <2> QED BY <2>2, <2>3 DEF Store!StoreNext
<1>3. CASE HNext /\ Crash
  <2>1. /\ written' = [b \in Block |-> {contentBar'[b]}]
    BY <1>3 DEF HNext
  <2>2. \A b \in Block : contentBar'[b] \in written[b]
    BY <1>3, CrashContent DEF HistoryInv, DiskIsRecent
  <2>3. Store!PowerFailure
    BY <1>3, <2>1, <2>2, CrashContent, SMTT(30) DEF Store!PowerFailure
  <2>4. HistoryInv'
    BY <1>3, <2>1, CrashContent, SMTT(30) DEF HistoryInv, DiskIsRecent
  <2> QED BY <2>3, <2>4, SMTT(30) DEF Store!StoreNext
<1>4. CASE HNext /\ ~SyncEnd /\ ~Crash
  <2>1. ASSUME NEW b \in Block, NEW access \in {"read", "modify"}, GetBlockCache(b, access)
        PROVE  HistoryInv' /\ Store!Access(b)
    BY <1>4, <2>1, GetRefines, GetDiskRecent, Remembers, SMTT(30)
       DEF Store!Access
  <2>2. ASSUME NEW v \in Value, Modify(v)
        PROVE  HistoryInv' /\ Store!Update(v)
    <3>1. disk' = disk
      BY <2>2 DEF Modify
    <3>2. PICK b \in Block :
              /\ viewBar # <<>> /\ Last(viewBar)[1] = b
              /\ contentBar' = [contentBar EXCEPT ![b] = v]
              /\ viewBar' = Append(Front(viewBar), <<b, v>>)
      BY <2>2, ModifyRefines
    <3>3. contentBar \in [Block -> Value]
      BY ContentTyped
    <3>4. written' = [written EXCEPT ![b] = @ \cup {v}]
      <4>1. /\ written' = [c \in Block |-> written[c] \cup {contentBar'[c]}]
            /\ written \in [Block -> SUBSET Value]
        BY <1>4, Remembers DEF HistoryInv
      <4>2. /\ contentBar'[b] = v
            /\ \A c \in Block \ {b} : written[c] \cup {contentBar'[c]} = written[c]
        BY <3>2, <3>3 DEF HistoryInv, DiskIsRecent
      <4> QED BY <4>1, <4>2, ZenonT(40)
    <3>5. Store!Update(v)
      BY <3>2, <3>4 DEF Store!Update, Last, Front
    <3> QED BY <1>4, <3>1, <3>5, Remembers, SMTT(30)
  <2>3. CASE Release
    <3>1. disk' = disk
      BY <2>3 DEF Release
    <3> QED BY <1>4, <2>3, <3>1, ReleaseRefines, Remembers, SMTT(30)
            DEF Store!Close, Store!StoreNext, Front
  <2>4. CASE SyncAll
    <3>1. UNCHANGED <<block_id, cache, queue, held, disk>>
      BY <2>4 DEF SyncAll, entryVars
    <3>2. contentBar' = contentBar /\ viewBar' = viewBar
      BY <3>1 DEF contentBar, viewBar
    <3> QED BY <1>4, <1>s, <3>1, <3>2, Remembers, SMTT(30)
  <2>5. CASE SyncNext
    BY <1>4, <1>s, <2>5, SyncNextRefines, Remembers, SMTT(30)
  <2> QED BY <1>4, <2>1, <2>2, <2>3, <2>4, <2>5, SMTT(30)
             DEF HNext, Next, Store!StoreNext
<1> QED BY <1>1, <1>2, <1>3, <1>4, SMTT(30)

\* Before the first request the device is the store and nothing is held.
LEMMA HistoryStarts ==
    HInit => CacheInv /\ HistoryInv /\ Store!StoreInit
<1> SUFFICES ASSUME HInit PROVE CacheInv /\ HistoryInv /\ Store!StoreInit
  OBVIOUS
<1>1. CacheInv
  BY EmptyCache, ZenonT(40) DEF HInit, Init
<1>2. contentBar \in [Block -> Value]
  BY <1>1, ContentTyped
<1>3. \A b \in Block : contentBar[b] = disk[b]
  BY EmptyElements, ValueUncached DEF HInit, Init, contentBar
<1>4. viewBar = <<>>
  BY <1>1, ViewNow DEF HInit, Init
<1> QED BY <1>1, <1>2, <1>3, <1>4, SMTT(30)
        DEF HInit, HistoryInv, DiskIsRecent, Store!StoreInit

(***************************************************************************)
(* The cache implements the store: with any device, capacity and contents, *)
(* whatever is evicted, synced or lost in a power failure.                 *)
(***************************************************************************)
THEOREM CacheImplementsStore == HSpec => ImplementsStore
<1>1. HInit => CacheInv /\ HistoryInv /\ Store!StoreInit
  BY HistoryStarts
<1>2. CacheInv /\ [HNext]_hvars => CacheInv'
  BY CacheStepKeeps DEF HNext, hvars
<1>3. CacheInv /\ CacheInv' /\ HistoryInv /\ [HNext]_hvars
         => HistoryInv' /\ [Store!StoreNext]_(Store!storeVars)
  BY StepRefines
<1> QED BY <1>1, <1>2, <1>3, PTL DEF HSpec, ImplementsStore, Store!StoreSpec

(***************************************************************************)
(* The device holds, for each block, a value the block has had since the   *)
(* last complete sync: an eviction or a sync writes the cached value and   *)
(* never an older one.                                                     *)
(***************************************************************************)
THEOREM DeviceIsRecent == HSpec => []DiskIsRecent
<1>1. HInit => CacheInv /\ HistoryInv
  BY HistoryStarts
<1>2. CacheInv /\ [HNext]_hvars => CacheInv'
  BY CacheStepKeeps DEF HNext, hvars
<1>3. CacheInv /\ CacheInv' /\ HistoryInv /\ [HNext]_hvars => HistoryInv'
  BY StepRefines
<1>4. HistoryInv => DiskIsRecent
  BY DEF HistoryInv
<1> QED BY <1>1, <1>2, <1>3, <1>4, PTL DEF HSpec
=============================================================================
