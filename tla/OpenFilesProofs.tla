--------------------------- MODULE OpenFilesProofs ---------------------------
(***************************************************************************)
(* ReferencesAllocated holds for any number of processes, names, inodes    *)
(* and open files.  The inductive invariant adds the types and that a      *)
(* process that does not run has no descriptors.                           *)
(***************************************************************************)
EXTENDS OpenFiles, SequenceFacts, WellFoundedInduction

Descriptor == OpenFile \cup {None, Std}
DirEntry == [name : Name, inode_id : InodeId]

OpenTypes ==
    /\ dirents \in Seq(DirEntry)
    /\ inode_bitmap \subseteq InodeId
    /\ content \in [InodeId -> Seq(Nat)]
    /\ fd_table \in [Proc -> Seq(Descriptor)]
    /\ os_inode \in [OpenFile -> OSInode \cup {None}]
    /\ live \subseteq Proc

OpenInv ==
    /\ OpenTypes
    /\ ReferencesAllocated
    /\ \A p \in Proc \ live : fd_table[p] = <<>>

\* The lowest free bit, descriptor or handle is one of the free ones.
LEMMA MinIn ==
    ASSUME NEW T, T \subseteq Nat, T # {}
    PROVE  Min(T) \in T
<1>1. PICK x \in T : \A y \in T : <<y, x>> \notin OpToRel(<, Nat)
  BY WFMin, NatLessThanWellFounded, ZenonT(40)
<1>2. OpToRel(<, Nat) = {ss \in Nat \X Nat : ss[1] < ss[2]}
  BY DEF OpToRel
<1>3. ASSUME NEW y \in T PROVE x <= y
  <2>1. <<y, x>> \notin {ss \in Nat \X Nat : ss[1] < ss[2]}
    BY <1>1, <1>2
  <2> QED BY <2>1
<1> QED BY <1>3, ZenonT(40) DEF Min

\* The larger and the smaller of two numbers.
LEMMA OfTwo ==
    ASSUME NEW m \in Nat, NEW n \in Nat
    PROVE  Max({m, n}) \in Nat /\ Min({m, n}) \in Nat
<1>1. /\ \E x \in {m, n} : \A y \in {m, n} : x >= y
      /\ \E x \in {m, n} : \A y \in {m, n} : x <= y
  OBVIOUS
<1>2. Max({m, n}) \in {m, n}
  BY <1>1 DEF Max
<1>3. Min({m, n}) \in {m, n}
  BY <1>1 DEF Min
<1> QED BY <1>2, <1>3

\* An assignment to one descriptor.
LEMMA ExceptElements ==
    ASSUME NEW S, NEW s \in Seq(S), NEW k \in 1..Len(s), NEW e \in S
    PROVE  LET d == [s EXCEPT ![k] = e] IN
           /\ d \in Seq(S) /\ Len(d) = Len(s) /\ e \in ToSet(d)
           /\ ToSet(d) \subseteq ToSet(s) \cup {e}
           /\ ToSet(s) \ {s[k]} \subseteq ToSet(d)
<1> DEFINE d == [s EXCEPT ![k] = e]
<1>1. /\ d \in Seq(S) /\ Len(d) = Len(s) /\ d[k] = e
      /\ \A i \in 1..Len(s) : i # k => d[i] = s[i]
  OBVIOUS
<1> HIDE DEF d
<1>2. /\ \A x : x \in ToSet(d) <=> \E i \in 1..Len(s) : x = d[i]
      /\ \A x : x \in ToSet(s) <=> \E i \in 1..Len(s) : x = s[i]
  <2>1. \A x : x \in ToSet(d) <=> \E i \in 1..Len(d) : x = d[i]
    BY <1>1, SeqElements
  <2>2. \A x : x \in ToSet(s) <=> \E i \in 1..Len(s) : x = s[i]
    BY SeqElements
  <2> QED BY <1>1, <2>1, <2>2
<1>3. e \in ToSet(d) /\ ToSet(d) \subseteq ToSet(s) \cup {e}
  BY <1>1, <1>2
<1>4. ToSet(s) \ {s[k]} \subseteq ToSet(d)
  BY <1>1, <1>2
<1> QED BY <1>1, <1>3, <1>4, ZenonT(40) DEF d

\* alloc_fd replaces a free descriptor or adds one.
LEMMA WithFdElements ==
    ASSUME OpenTypes, NEW p \in Proc, NEW h \in OpenFile
    PROVE  /\ WithFd(p, h) \in Seq(Descriptor)
           /\ h \in ToSet(WithFd(p, h))
           /\ ToSet(WithFd(p, h)) \subseteq ToSet(fd_table[p]) \cup {h}
           /\ ToSet(fd_table[p]) \cap OpenFile \subseteq ToSet(WithFd(p, h))
<1>1. fd_table[p] \in Seq(Descriptor) /\ h \in Descriptor /\ None \notin OpenFile
  BY OpenFilesAssumption DEF OpenTypes, Descriptor
<1>2. CASE FreeFds(p) = {}
  <2>1. WithFd(p, h) = Append(fd_table[p], h)
    BY <1>2 DEF WithFd
  <2> QED BY <1>1, <2>1, AppendElements
<1>3. CASE FreeFds(p) # {}
  <2> DEFINE k == Min(FreeFds(p))
  <2>1. k \in FreeFds(p)
    <3>1. FreeFds(p) \subseteq Nat
      BY DEF FreeFds
    <3> QED BY <1>3, <3>1, MinIn
  <2>2. k \in 1..Len(fd_table[p]) /\ fd_table[p][k] = None
    BY <2>1 DEF FreeFds
  <2>3. WithFd(p, h) = [fd_table[p] EXCEPT ![k] = h]
    BY <1>3 DEF WithFd
  <2> HIDE DEF k
  <2> DEFINE d == [fd_table[p] EXCEPT ![k] = h]
  <2>4. /\ d \in Seq(Descriptor) /\ h \in ToSet(d)
        /\ ToSet(d) \subseteq ToSet(fd_table[p]) \cup {h}
        /\ ToSet(fd_table[p]) \ {None} \subseteq ToSet(d)
    BY <1>1, <2>2, ExceptElements, ZenonT(40)
  <2> HIDE DEF d
  <2> QED BY <1>1, <2>3, <2>4, ZenonT(40) DEF d
<1> QED BY <1>2, <1>3

\* find_inode_id of a name that exists gives an inode that has an entry.
LEMMA FindAllocated ==
    ASSUME OpenInv, NEW name \in Name, Exists(name)
    PROVE  /\ Find(name) \in inode_bitmap /\ Find(name) \in InodeId
           /\ Min(Places(name)) \in 1..Len(dirents)
<1>1. Places(name) \subseteq Nat /\ Places(name) # {}
  BY DEF Places, Exists
<1>2. Min(Places(name)) \in Places(name)
  BY <1>1, MinIn
<1>3. Min(Places(name)) \in 1..Len(dirents)
  BY <1>2 DEF Places
<1> QED BY <1>3 DEF Find, OpenInv, OpenTypes, ReferencesAllocated

\* What the file system part of the invariant asks of the directory.
NamesAllocated == \A k \in 1..Len(dirents) : dirents[k].inode_id \in inode_bitmap

\* And of descriptors and open files.
FilesAllocated ==
    /\ \A h \in OpenFile :
          os_inode[h] # None =>
             /\ os_inode[h].inode \in inode_bitmap
             /\ \E p \in live : h \in ToSet(fd_table[p])
    /\ \A h \in Referenced(fd_table) : os_inode[h] # None
    /\ \A p \in Proc \ live : fd_table[p] = <<>>

LEMMA InvParts ==
    /\ OpenInv <=> OpenTypes /\ NamesAllocated /\ FilesAllocated
    /\ OpenInv' <=> OpenTypes' /\ NamesAllocated' /\ FilesAllocated'
BY ZenonT(40) DEF OpenInv, ReferencesAllocated, NamesAllocated, FilesAllocated

LEMMA ReferencedIs ==
    ASSUME NEW tables
    PROVE  \A h : h \in Referenced(tables) <=>
                     h \in OpenFile /\ \E p \in Proc : h \in ToSet(tables[p])
BY DEF Referenced

\* open: the new OSInode is referenced by the new descriptor.
LEMMA OpenKeeps ==
    ASSUME OpenInv, NEW p \in live, NEW i \in inode_bitmap', NEW flags,
           FreeHandles # {}, inode_bitmap \subseteq inode_bitmap',
           inode_bitmap' \subseteq InodeId, OpenInode(p, i, flags)
    PROVE  /\ fd_table' \in [Proc -> Seq(Descriptor)]
           /\ os_inode' \in [OpenFile -> OSInode \cup {None}]
           /\ FilesAllocated'
<1> DEFINE h == Min(FreeHandles)
           r == [inode |-> i, offset |-> 0,
                 readable |-> Readable(flags), writable |-> Writable(flags)]
<1>1. OpenTypes /\ FilesAllocated /\ p \in Proc
  BY InvParts DEF OpenTypes
<1>2. h \in OpenFile /\ os_inode[h] = None
  <2>1. FreeHandles \subseteq Nat
    BY OpenFilesAssumption, ZenonT(40) DEF FreeHandles
  <2> QED BY <2>1, MinIn DEF FreeHandles
<1>3. r \in OSInode /\ r # None /\ r.inode = i
  <2>1. Readable(flags) \in BOOLEAN /\ Writable(flags) \in BOOLEAN
    BY Zenon DEF Readable, Writable
  <2>2. i \in InodeId
    OBVIOUS
  <2>3. r \in OSInode /\ r.inode = i
    BY <2>1, <2>2 DEF OSInode
  <2> QED BY <2>3, OpenFilesAssumption
<1>4. /\ os_inode' = [os_inode EXCEPT ![h] = r]
      /\ fd_table' = [fd_table EXCEPT ![p] = WithFd(p, h)] /\ live' = live
  BY DEF OpenInode
<1> HIDE DEF h, r
<1>5. /\ WithFd(p, h) \in Seq(Descriptor)
      /\ h \in ToSet(WithFd(p, h))
      /\ ToSet(WithFd(p, h)) \subseteq ToSet(fd_table[p]) \cup {h}
      /\ ToSet(fd_table[p]) \cap OpenFile \subseteq ToSet(WithFd(p, h))
  BY <1>1, <1>2, WithFdElements
<1>6. /\ fd_table' \in [Proc -> Seq(Descriptor)]
      /\ fd_table'[p] = WithFd(p, h)
      /\ \A q \in Proc \ {p} : fd_table'[q] = fd_table[q]
  BY <1>1, <1>4, <1>5 DEF OpenTypes
<1>7. /\ os_inode' \in [OpenFile -> OSInode \cup {None}]
      /\ os_inode'[h] = r
      /\ \A g \in OpenFile \ {h} : os_inode'[g] = os_inode[g]
  BY <1>1, <1>2, <1>3, <1>4, SMTT(30) DEF OpenTypes
<1>8. ASSUME NEW g \in OpenFile, os_inode'[g] # None
      PROVE  /\ os_inode'[g].inode \in inode_bitmap'
             /\ \E q \in live' : g \in ToSet(fd_table'[q])
  <2>1. CASE g = h
    BY <1>3, <1>4, <1>5, <1>6, <1>7, <2>1, SMTT(30)
  <2>2. CASE g # h
    <3>1. os_inode[g] # None /\ os_inode'[g] = os_inode[g]
      BY <1>7, <1>8, <2>2
    <3>2. PICK q \in live : g \in ToSet(fd_table[q])
      BY <1>1, <3>1 DEF FilesAllocated
    <3>3. os_inode[g].inode \in inode_bitmap
      BY <1>1, <3>1 DEF FilesAllocated
    <3>4. g \in ToSet(fd_table'[q]) /\ q \in live'
      BY <1>1, <1>4, <1>5, <1>6, <3>2, SMTT(30) DEF OpenTypes
    <3> QED BY <3>1, <3>3, <3>4
  <2> QED BY <2>1, <2>2
<1>9. ASSUME NEW g \in Referenced(fd_table')
      PROVE  os_inode'[g] # None
  <2>1. PICK q \in Proc : g \in ToSet(fd_table'[q])
    BY ReferencedIs
  <2>2. g \in OpenFile
    BY ReferencedIs
  <2>3. g = h \/ g \in ToSet(fd_table[q])
    BY <1>5, <1>6, <2>1, SMTT(30)
  <2>4. g = h \/ g \in Referenced(fd_table)
    BY <2>2, <2>3, ReferencedIs
  <2> QED BY <1>1, <1>3, <1>7, <2>2, <2>4, SMTT(30) DEF FilesAllocated
<1>10. ASSUME NEW q \in Proc \ live' PROVE fd_table'[q] = <<>>
  BY <1>1, <1>4, <1>6 DEF FilesAllocated
<1> QED BY <1>6, <1>7, <1>8, <1>9, <1>10, SMTT(30) DEF FilesAllocated

\* close and exit: what only the removed descriptors led to is dropped.
LEMMA DropKeeps ==
    ASSUME OpenInv, fd_table' \in [Proc -> Seq(Descriptor)],
           \A q \in Proc : ToSet(fd_table'[q]) \cap OpenFile \subseteq ToSet(fd_table[q]),
           os_inode' = Dropped(fd_table'), inode_bitmap' = inode_bitmap,
           \A q \in Proc \ live' : fd_table'[q] = <<>>
    PROVE  os_inode' \in [OpenFile -> OSInode \cup {None}] /\ FilesAllocated'
<1>1. OpenTypes /\ FilesAllocated
  BY InvParts
<1>2. ASSUME NEW g \in OpenFile
      PROVE  os_inode'[g] = IF g \in Referenced(fd_table') THEN os_inode[g] ELSE None
  BY DEF Dropped
<1>3. os_inode' \in [OpenFile -> OSInode \cup {None}]
  BY <1>1 DEF Dropped, OpenTypes
<1>4. ASSUME NEW g \in OpenFile, os_inode'[g] # None
      PROVE  /\ os_inode'[g].inode \in inode_bitmap'
             /\ \E q \in live' : g \in ToSet(fd_table'[q])
  <2>1. g \in Referenced(fd_table') /\ os_inode'[g] = os_inode[g]
    BY <1>2, <1>4
  <2>2. PICK q \in Proc : g \in ToSet(fd_table'[q])
    BY <2>1, ReferencedIs
  <2>3. q \in live'
    BY <2>2, EmptyElements
  <2>4. os_inode[g].inode \in inode_bitmap
    BY <1>1, <1>4, <2>1 DEF FilesAllocated
  <2> QED BY <2>1, <2>2, <2>3, <2>4, SMTT(30)
<1>5. ASSUME NEW g \in Referenced(fd_table')
      PROVE  os_inode'[g] # None
  <2>1. PICK q \in Proc : g \in ToSet(fd_table'[q])
    BY ReferencedIs
  <2>2. g \in OpenFile
    BY ReferencedIs
  <2>3. g \in Referenced(fd_table)
    BY <2>1, <2>2, ReferencedIs
  <2> QED BY <1>1, <1>2, <2>2, <2>3 DEF FilesAllocated
<1> QED BY <1>3, <1>4, <1>5 DEF FilesAllocated

\* read and write move the offset of one OSInode.
LEMMA OffsetKeeps ==
    ASSUME OpenInv, NEW h \in OpenFile, os_inode[h] # None, NEW n \in Nat,
           os_inode' = [os_inode EXCEPT ![h] = [os_inode[h] EXCEPT !.offset = n]],
           UNCHANGED <<inode_bitmap, fd_table, live>>
    PROVE  os_inode' \in [OpenFile -> OSInode \cup {None}] /\ FilesAllocated'
<1>1. OpenTypes /\ FilesAllocated
  BY InvParts
<1>2. os_inode[h] \in OSInode
  BY <1>1 DEF OpenTypes
<1> DEFINE r == [os_inode[h] EXCEPT !.offset = n]
<1>3. r \in OSInode /\ r # None /\ r.inode = os_inode[h].inode
  BY <1>2, OpenFilesAssumption DEF OSInode
<1> HIDE DEF r
<1>4. /\ os_inode' \in [OpenFile -> OSInode \cup {None}]
      /\ os_inode'[h] = r /\ \A g \in OpenFile \ {h} : os_inode'[g] = os_inode[g]
  BY <1>1, <1>3 DEF OpenTypes, r
<1>5. ASSUME NEW g \in OpenFile
      PROVE  /\ os_inode'[g] # None <=> os_inode[g] # None
             /\ os_inode'[g] # None => os_inode'[g].inode = os_inode[g].inode
  BY <1>3, <1>4
<1>6. \A g \in Referenced(fd_table) : g \in OpenFile
  BY ReferencedIs
<1> QED BY <1>1, <1>4, <1>5, <1>6, SMTT(30) DEF FilesAllocated

\* The handlers of open: a name that exists leads to an allocated inode, and
\* create allocates the inode before anything refers to it.
LEMMA OpenFoundKeeps ==
    ASSUME OpenInv, NEW p \in Proc, NEW name \in Name, NEW flags \in Flags,
           OpenFound(p, name, flags)
    PROVE  OpenInv'
<1>1. OpenTypes /\ NamesAllocated
  BY InvParts
<1>2. Find(name) \in inode_bitmap /\ Find(name) \in InodeId
  BY FindAllocated DEF OpenFound
<1>3. /\ p \in live /\ FreeHandles # {} /\ OpenInode(p, Find(name), flags)
      /\ UNCHANGED <<dirents, inode_bitmap, live>>
  BY DEF OpenFound, MayOpen, Running, OpenInode
<1>4. content' \in [InodeId -> Seq(Nat)]
  BY <1>1, <1>2, EmptyElements DEF OpenFound, OpenTypes, Cleared
<1>5. /\ fd_table' \in [Proc -> Seq(Descriptor)] /\ FilesAllocated'
      /\ os_inode' \in [OpenFile -> OSInode \cup {None}]
  <2>1. Find(name) \in inode_bitmap' /\ inode_bitmap' \subseteq InodeId
    BY <1>1, <1>2, <1>3 DEF OpenTypes
  <2> QED BY <1>3, <2>1, OpenKeeps
<1>6. OpenTypes' /\ NamesAllocated'
  BY <1>1, <1>3, <1>4, <1>5, SMTT(30) DEF OpenTypes, NamesAllocated
<1> QED BY <1>5, <1>6, InvParts

LEMMA OpenCreateKeeps ==
    ASSUME OpenInv, NEW p \in Proc, NEW name \in Name, NEW flags \in Flags,
           OpenCreate(p, name, flags), FreeInodes # {}
    PROVE  OpenInv'
<1> DEFINE i == AllocInode
           entry == [name |-> name, inode_id |-> i]
<1>1. OpenTypes /\ NamesAllocated
  BY InvParts
<1>2. i \in InodeId
  <2>1. FreeInodes \subseteq Nat
    BY DEF FreeInodes, InodeId
  <2> QED BY <2>1, MinIn DEF FreeInodes, AllocInode
<1>3. /\ p \in live /\ FreeHandles # {} /\ OpenInode(p, i, flags)
      /\ inode_bitmap' = inode_bitmap \cup {i} /\ content' = Cleared(i)
      /\ dirents' = Append(dirents, entry) /\ live' = live
  BY DEF OpenCreate, MayOpen, Running, OpenInode
<1> HIDE DEF i
<1>4. entry \in DirEntry /\ entry.inode_id = i
  BY <1>2 DEF DirEntry
<1> HIDE DEF entry
<1>5. /\ dirents' \in Seq(DirEntry) /\ Len(dirents) \in Nat
      /\ Len(dirents') = Len(dirents) + 1
      /\ \A k \in 1..Len(dirents) : dirents'[k] = dirents[k]
      /\ dirents'[Len(dirents) + 1] = entry
  BY <1>1, <1>3, <1>4, AppendIndex, SMTT(30) DEF OpenTypes
<1>6. NamesAllocated'
  <2> SUFFICES ASSUME NEW k \in 1..Len(dirents')
               PROVE  dirents'[k].inode_id \in inode_bitmap'
    BY DEF NamesAllocated
  <2>1. k \in 1..Len(dirents) \/ k = Len(dirents) + 1
    BY <1>5
  <2> QED BY <1>1, <1>3, <1>4, <1>5, <2>1, SMTT(30) DEF NamesAllocated
<1>7. content' \in [InodeId -> Seq(Nat)]
  BY <1>1, <1>2, <1>3, EmptyElements, SMTT(30) DEF OpenTypes, Cleared
<1>8. /\ fd_table' \in [Proc -> Seq(Descriptor)] /\ FilesAllocated'
      /\ os_inode' \in [OpenFile -> OSInode \cup {None}]
  <2>1. /\ i \in inode_bitmap' /\ inode_bitmap' \subseteq InodeId
        /\ inode_bitmap \subseteq inode_bitmap'
    BY <1>1, <1>2, <1>3 DEF OpenTypes
  <2> QED BY <1>3, <2>1, OpenKeeps, ZenonT(40)
<1>9. OpenTypes'
  BY <1>1, <1>2, <1>3, <1>5, <1>7, <1>8, SMTT(30) DEF OpenTypes
<1> QED BY <1>6, <1>8, <1>9, InvParts, SMTT(30)

LEMMA CloseKeeps ==
    ASSUME OpenInv, NEW p \in Proc, NEW fd, SysClose(p, fd)
    PROVE  OpenInv'
<1> DEFINE d == [fd_table[p] EXCEPT ![fd] = None]
<1>1. OpenTypes /\ NamesAllocated /\ FilesAllocated
  BY InvParts
<1>2. /\ fd \in 1..Len(fd_table[p]) /\ p \in live
      /\ fd_table' = [fd_table EXCEPT ![p] = d]
      /\ os_inode' = Dropped(fd_table') /\ UNCHANGED <<fsVars, live>>
  BY DEF SysClose, IsOpen, Running
<1>3. fd_table[p] \in Seq(Descriptor) /\ None \in Descriptor
  BY <1>1 DEF OpenTypes, Descriptor
<1>4. d \in Seq(Descriptor) /\ ToSet(d) \subseteq ToSet(fd_table[p]) \cup {None}
  BY <1>2, <1>3, ExceptElements, ZenonT(40)
<1> HIDE DEF d
<1>5. /\ fd_table' \in [Proc -> Seq(Descriptor)] /\ fd_table'[p] = d
      /\ \A q \in Proc \ {p} : fd_table'[q] = fd_table[q]
  BY <1>1, <1>2, <1>4 DEF OpenTypes
<1>6. \A q \in Proc : ToSet(fd_table'[q]) \cap OpenFile \subseteq ToSet(fd_table[q])
  BY <1>4, <1>5, OpenFilesAssumption, SMTT(30)
<1>7. \A q \in Proc \ live' : fd_table'[q] = <<>>
  BY <1>1, <1>2, <1>5, SMTT(30) DEF FilesAllocated
<1>8. os_inode' \in [OpenFile -> OSInode \cup {None}] /\ FilesAllocated'
  BY <1>2, <1>5, <1>6, <1>7, DropKeeps, ZenonT(40) DEF fsVars
<1>9. OpenTypes' /\ NamesAllocated'
  BY <1>1, <1>2, <1>5, <1>8, ZenonT(40) DEF OpenTypes, NamesAllocated, fsVars
<1> QED BY <1>8, <1>9, InvParts

LEMMA ExitKeepsFiles ==
    ASSUME OpenInv, NEW p \in Proc, Exit(p)
    PROVE  OpenInv'
<1>1. OpenTypes /\ NamesAllocated /\ FilesAllocated
  BY InvParts
<1>2. /\ fd_table' = [fd_table EXCEPT ![p] = <<>>] /\ live' = live \ {p}
      /\ os_inode' = Dropped(fd_table') /\ UNCHANGED fsVars
  BY DEF Exit, TableCleared
<1>3. /\ fd_table' \in [Proc -> Seq(Descriptor)] /\ fd_table'[p] = <<>>
      /\ \A q \in Proc \ {p} : fd_table'[q] = fd_table[q]
  BY <1>1, <1>2, EmptyElements DEF OpenTypes
<1>4. \A q \in Proc : ToSet(fd_table'[q]) \cap OpenFile \subseteq ToSet(fd_table[q])
  BY <1>3, EmptyElements
<1>5. \A q \in Proc \ live' : fd_table'[q] = <<>>
  BY <1>1, <1>2, <1>3, SMTT(30) DEF FilesAllocated
<1>6. os_inode' \in [OpenFile -> OSInode \cup {None}] /\ FilesAllocated'
  BY <1>2, <1>3, <1>4, <1>5, DropKeeps, ZenonT(40) DEF fsVars
<1>7. OpenTypes' /\ NamesAllocated'
  BY <1>1, <1>2, <1>3, <1>6, ZenonT(40) DEF OpenTypes, NamesAllocated, fsVars
<1> QED BY <1>6, <1>7, InvParts

\* fork and spawn copy the table of a process that runs.
LEMMA ForkKeeps ==
    ASSUME OpenInv, NEW p \in Proc, NEW q \in Proc, Fork(p, q)
    PROVE  OpenInv'
<1>1. OpenTypes /\ NamesAllocated /\ FilesAllocated
  BY InvParts
<1>2. /\ fd_table' = [fd_table EXCEPT ![q] = fd_table[p]] /\ live' = live \cup {q}
      /\ UNCHANGED <<fsVars, os_inode>> /\ q \notin live
  BY DEF Fork
<1>3. /\ fd_table' \in [Proc -> Seq(Descriptor)] /\ fd_table'[q] = fd_table[p]
      /\ \A u \in Proc \ {q} : fd_table'[u] = fd_table[u]
  BY <1>1, <1>2 DEF OpenTypes
<1>4. \A h \in Referenced(fd_table') : h \in Referenced(fd_table)
  BY <1>3, ReferencedIs
<1>5. ASSUME NEW h \in OpenFile, os_inode'[h] # None
      PROVE  /\ os_inode'[h].inode \in inode_bitmap'
             /\ \E u \in live' : h \in ToSet(fd_table'[u])
  <2>1. PICK u \in live : h \in ToSet(fd_table[u])
    BY <1>1, <1>2, <1>5 DEF FilesAllocated
  <2>2. u \in Proc /\ u # q
    BY <1>1, <1>2 DEF OpenTypes
  <2> QED BY <1>1, <1>2, <1>3, <1>5, <2>1, <2>2, SMTT(30) DEF FilesAllocated, fsVars
<1>6. FilesAllocated'
  BY <1>1, <1>2, <1>3, <1>4, <1>5, ZenonT(40) DEF FilesAllocated
<1>7. OpenTypes' /\ NamesAllocated'
  BY <1>1, <1>2, <1>3 DEF OpenTypes, NamesAllocated, fsVars
<1> QED BY <1>6, <1>7, InvParts

\* A descriptor of a file leads to an OSInode.
LEMMA FileOpen ==
    ASSUME OpenInv, NEW p \in Proc, NEW fd, IsFile(p, fd)
    PROVE  /\ fd_table[p][fd] \in OpenFile /\ os_inode[fd_table[p][fd]] \in OSInode
           /\ os_inode[fd_table[p][fd]] # None
<1>1. OpenTypes /\ FilesAllocated
  BY InvParts
<1>2. fd \in 1..Len(fd_table[p]) /\ fd_table[p] \in Seq(Descriptor)
  BY <1>1 DEF IsFile, IsOpen, OpenTypes
<1>3. fd_table[p][fd] \in OpenFile
  BY <1>2 DEF IsFile, IsOpen, Descriptor
<1>4. fd_table[p][fd] \in Referenced(fd_table)
  BY <1>2, <1>3, SeqElements, ReferencedIs, SMTT(30)
<1>5. os_inode[fd_table[p][fd]] # None
  BY <1>1, <1>4 DEF FilesAllocated
<1> QED BY <1>1, <1>3, <1>5 DEF OpenTypes

LEMMA ReadKeeps ==
    ASSUME OpenInv, NEW p \in Proc, NEW fd, NEW len \in ReadLens, SysRead(p, fd, len)
    PROVE  OpenInv'
<1> DEFINE h == fd_table[p][fd]
           o == os_inode[h]
           size == Len(content[o.inode])
           n == IF o.offset >= size THEN o.offset ELSE Min({o.offset + len, size})
<1>1. OpenTypes /\ NamesAllocated
  BY InvParts, SMTT(30)
<1>2. h \in OpenFile /\ o \in OSInode /\ o # None
  BY FileOpen, SMTT(30) DEF SysRead
<1>3. /\ os_inode' = [os_inode EXCEPT ![h] = [os_inode[h] EXCEPT !.offset = n]]
      /\ UNCHANGED <<fsVars, fd_table, live>>
  BY DEF SysRead
<1> HIDE DEF h
<1>4. o.inode \in InodeId /\ o.offset \in Nat
  BY <1>2 DEF OSInode
<1>5. size \in Nat /\ len \in Nat
  BY <1>1, <1>4, OpenFilesAssumption, SMTT(30) DEF OpenTypes
<1> HIDE DEF o, size
<1>6. n \in Nat
  <2>1. o.offset + len \in Nat
    BY <1>4, <1>5
  <2>2. Min({o.offset + len, size}) \in Nat
    BY <1>5, <2>1, OfTwo, ZenonT(40)
  <2> QED BY <1>4, <2>2, SMTT(30)
<1> HIDE DEF n
<1>7. os_inode' \in [OpenFile -> OSInode \cup {None}] /\ FilesAllocated'
  BY <1>2, <1>3, <1>6, OffsetKeeps, ZenonT(40) DEF fsVars, o
<1>8. OpenTypes' /\ NamesAllocated'
  BY <1>1, <1>3, <1>7 DEF OpenTypes, NamesAllocated, fsVars
<1> QED BY <1>7, <1>8, InvParts

LEMMA WriteKeeps ==
    ASSUME OpenInv, NEW p \in Proc, NEW fd, NEW buf \in Bufs, SysWrite(p, fd, buf)
    PROVE  OpenInv'
<1> DEFINE h == fd_table[p][fd]
           o == os_inode[h]
           w == Written(content[o.inode], o.offset, buf)
<1>1. OpenTypes /\ NamesAllocated
  BY InvParts
<1>2. h \in OpenFile /\ o \in OSInode /\ o # None
  BY FileOpen DEF SysWrite
<1>3. /\ os_inode' = [os_inode EXCEPT ![h] =
                         [os_inode[h] EXCEPT !.offset = o.offset + Len(buf)]]
      /\ content' = [content EXCEPT ![o.inode] = w]
      /\ UNCHANGED <<dirents, inode_bitmap, fd_table, live>>
  BY DEF SysWrite
<1> HIDE DEF h
<1>4. o.inode \in InodeId /\ o.offset \in Nat
  BY <1>2 DEF OSInode
<1> HIDE DEF o
<1>5. content[o.inode] \in Seq(Nat) /\ buf \in Seq(Nat) /\ Len(buf) \in Nat
  BY <1>1, <1>4, OpenFilesAssumption, SMTT(30) DEF OpenTypes
<1>6. w \in Seq(Nat)
  <2> DEFINE s == content[o.inode]
             end == o.offset + Len(buf)
             m == Max({end, Len(s)})
  <2>1. end \in Nat /\ Len(s) \in Nat /\ m \in Nat
    <3>1. end \in Nat /\ Len(s) \in Nat
      BY <1>4, <1>5
    <3> HIDE DEF end, s
    <3> QED BY <3>1, OfTwo, ZenonT(40) DEF m
  <2>2. w = [k \in 1..m |-> IF k > o.offset /\ k <= end THEN buf[k - o.offset]
                            ELSE IF k <= Len(s) THEN s[k] ELSE 0]
    BY DEF Written
  <2>3. ASSUME NEW k \in 1..m
        PROVE  (IF k > o.offset /\ k <= end THEN buf[k - o.offset]
                ELSE IF k <= Len(s) THEN s[k] ELSE 0) \in Nat
    <3>1. CASE k > o.offset /\ k <= end
      <4>1. k - o.offset \in 1..Len(buf)
        BY <1>4, <1>5, <2>1, <3>1, SMTT(30)
      <4> QED BY <1>5, <3>1, <4>1
    <3>2. CASE ~(k > o.offset /\ k <= end) /\ k <= Len(s)
      <4>1. k \in 1..Len(s)
        BY <2>1, <3>2
      <4> QED BY <1>5, <3>2, <4>1
    <3> QED BY <3>1, <3>2
  <2> HIDE DEF w, end, m
  <2> QED BY <2>1, <2>2, <2>3
<1> HIDE DEF w
<1>7. content' \in [InodeId -> Seq(Nat)]
  BY <1>1, <1>3, <1>4, <1>6, SMTT(30) DEF OpenTypes
<1>8. os_inode' \in [OpenFile -> OSInode \cup {None}] /\ FilesAllocated'
  <2>1. o.offset + Len(buf) \in Nat
    BY <1>4, <1>5
  <2> QED BY <1>2, <1>3, <2>1, OffsetKeeps, ZenonT(40) DEF o
<1>9. OpenTypes' /\ NamesAllocated'
  BY <1>1, <1>3, <1>7, <1>8 DEF OpenTypes, NamesAllocated
<1> QED BY <1>8, <1>9, InvParts

\* link adds an entry for an inode that has one.
LEMMA LinkKeeps ==
    ASSUME OpenInv, NEW p \in Proc, NEW old \in Name, NEW new \in Name,
           SysLinkat(p, old, new)
    PROVE  OpenInv'
<1> DEFINE entry == [name |-> new, inode_id |-> Find(old)]
<1>1. OpenTypes /\ NamesAllocated /\ FilesAllocated
  BY InvParts
<1>2. Find(old) \in inode_bitmap /\ Find(old) \in InodeId
  BY FindAllocated DEF SysLinkat
<1>3. /\ dirents' = Append(dirents, entry)
      /\ UNCHANGED <<inode_bitmap, content, fd_table, os_inode, live>>
  BY DEF SysLinkat
<1>4. entry \in DirEntry /\ entry.inode_id \in inode_bitmap
  BY <1>2, SMTT(30) DEF DirEntry
<1> HIDE DEF entry
<1>5. /\ dirents' \in Seq(DirEntry) /\ Len(dirents) \in Nat
      /\ Len(dirents') = Len(dirents) + 1
      /\ \A k \in 1..Len(dirents) : dirents'[k] = dirents[k]
      /\ dirents'[Len(dirents) + 1] = entry
  BY <1>1, <1>3, <1>4, AppendIndex, SMTT(30) DEF OpenTypes
<1>6. NamesAllocated'
  <2> SUFFICES ASSUME NEW k \in 1..Len(dirents')
               PROVE  dirents'[k].inode_id \in inode_bitmap'
    BY DEF NamesAllocated
  <2>1. k \in 1..Len(dirents) \/ k = Len(dirents) + 1
    BY <1>5
  <2> QED BY <1>1, <1>3, <1>4, <1>5, <2>1, SMTT(30) DEF NamesAllocated
<1>7. OpenTypes' /\ FilesAllocated'
  BY <1>1, <1>3, <1>5 DEF OpenTypes, FilesAllocated
<1> QED BY <1>6, <1>7, InvParts, SMTT(30)

\* unlink moves the last entry; the bitmap and the open files stay.
LEMMA UnlinkKeeps ==
    ASSUME OpenInv, NEW p \in Proc, NEW name \in Name, SysUnlinkat(p, name)
    PROVE  OpenInv'
<1> DEFINE i == Min(Places(name))
           d == [dirents EXCEPT ![i] = Last(dirents)]
<1>1. OpenTypes /\ NamesAllocated /\ FilesAllocated
  BY InvParts
<1>2. Find(name) \in InodeId /\ i \in 1..Len(dirents)
  BY FindAllocated DEF SysUnlinkat
<1>3. /\ dirents' = Front(d)
      /\ UNCHANGED <<inode_bitmap, fd_table, os_inode, live>>
  BY DEF SysUnlinkat, SwapRemove
<1>4. content' \in [InodeId -> Seq(Nat)]
  BY <1>1, <1>2, EmptyElements, SMTT(30) DEF SysUnlinkat, OpenTypes, Cleared
<1> HIDE DEF i
<1>5. /\ dirents \in Seq(DirEntry) /\ dirents # <<>> /\ Len(dirents) \in Nat
      /\ Len(dirents) >= 1
      /\ Last(dirents) = dirents[Len(dirents)] /\ Last(dirents) \in DirEntry
  <2>1. dirents \in Seq(DirEntry) /\ dirents # <<>>
    BY <1>1, <1>2 DEF OpenTypes
  <2> QED BY <2>1, FrontIndex
<1>6. /\ d \in Seq(DirEntry) /\ Len(d) = Len(dirents)
      /\ \A k \in 1..Len(dirents) : d[k] = IF k = i THEN Last(dirents) ELSE dirents[k]
  BY <1>2, <1>5
<1> HIDE DEF d
<1>7. /\ dirents' \in Seq(DirEntry) /\ Len(dirents') = Len(dirents) - 1
      /\ \A k \in 1..Len(dirents) - 1 : dirents'[k] = d[k]
  <2>1. d # <<>>
    BY <1>5, <1>6
  <2> QED BY <1>3, <1>6, <2>1, FrontIndex, SMTT(30)
<1>8. NamesAllocated'
  <2> SUFFICES ASSUME NEW k \in 1..Len(dirents')
               PROVE  dirents'[k].inode_id \in inode_bitmap'
    BY DEF NamesAllocated
  <2>1. k \in 1..Len(dirents) /\ k \in 1..Len(dirents) - 1
        /\ Len(dirents) \in 1..Len(dirents)
    BY <1>5, <1>7
  <2>2. dirents'[k] = dirents[k] \/ dirents'[k] = dirents[Len(dirents)]
    BY <1>5, <1>6, <1>7, <2>1, SMTT(30)
  <2> QED BY <1>1, <1>3, <2>1, <2>2, SMTT(30) DEF NamesAllocated
<1>9. OpenTypes' /\ FilesAllocated'
  BY <1>1, <1>3, <1>4, <1>7, SMTT(30) DEF OpenTypes, FilesAllocated
<1> QED BY <1>8, <1>9, InvParts

\* A panic changes no file.
LEMMA StillKeeps ==
    ASSUME OpenInv, UNCHANGED <<fsVars, fd_table, os_inode, live>>
    PROVE  OpenInv'
<1>1. OpenTypes /\ NamesAllocated /\ FilesAllocated
  BY InvParts
<1>2. OpenTypes' /\ NamesAllocated' /\ FilesAllocated'
  BY <1>1 DEF OpenTypes, NamesAllocated, FilesAllocated, fsVars
<1> QED BY <1>2, InvParts

LEMMA InitOpens == Init => OpenInv
<1> SUFFICES ASSUME Init PROVE OpenInv
  OBVIOUS
<1>1. InitFds \in Seq(Descriptor) /\ ToSet(InitFds) \subseteq {Std}
  BY OpenFilesAssumption, SeqElements DEF Descriptor
<1>2. OpenTypes
  BY <1>1, OpenFilesAssumption, EmptyElements, SMTT(30) DEF Init, OpenTypes
<1>3. NamesAllocated
  BY DEF Init, NamesAllocated
<1>4. \A p \in Proc : ToSet(fd_table[p]) \cap OpenFile = {}
  BY <1>1, OpenFilesAssumption, EmptyElements DEF Init
<1>5. Referenced(fd_table) = {}
  BY <1>4, ReferencedIs
<1>6. FilesAllocated
  BY <1>5 DEF Init, FilesAllocated
<1> QED BY <1>2, <1>3, <1>6, InvParts, SMTT(30)

LEMMA StepKeepsFiles ==
    ASSUME OpenInv, [Next]_vars
    PROVE  OpenInv'
<1>1. CASE Halted \/ UNCHANGED vars
  BY <1>1, StillKeeps DEF Halted, vars
<1>2. ASSUME NEW p \in Proc, Step(p)
      PROVE  OpenInv'
  <2>1. ASSUME NEW name \in Name, NEW flags \in Flags, OpenCreate(p, name, flags)
        PROVE  OpenInv'
    <3>1. CASE FreeInodes = {}
      BY <2>1, <3>1, StillKeeps, SMTT(30) DEF OpenCreate, Panic
    <3> QED BY <2>1, <3>1, OpenCreateKeeps, SMTT(30)
  <2>2. ASSUME NEW fd \in 1..MaxFds, SysFstat(p, fd)
        PROVE  OpenInv'
    BY <2>2, StillKeeps DEF SysFstat, Panic
  <2> QED BY <1>2, <2>1, <2>2, OpenFoundKeeps, CloseKeeps, ReadKeeps, WriteKeeps,
             LinkKeeps, UnlinkKeeps, ForkKeeps, ExitKeepsFiles, ZenonT(40) DEF Step
<1> QED BY <1>1, <1>2 DEF Next

(***************************************************************************)
(* No name and no descriptor ever leads to an inode that create did not    *)
(* allocate or to an OSInode that was dropped, and an OSInode lives only   *)
(* while a running process has a descriptor of it.                         *)
(***************************************************************************)
THEOREM ReferencesStayAllocated == Spec => []ReferencesAllocated
<1>1. OpenInv => ReferencesAllocated
  BY DEF OpenInv
<1> QED BY <1>1, InitOpens, StepKeepsFiles, PTL DEF Spec
=============================================================================
