------------------------------ MODULE OpenFiles ------------------------------
(***************************************************************************)
(* Names, inodes and open files: the file system calls of                  *)
(* os/src/syscall/fs.rs over open_file and OSInode (os/src/fs/inode.rs),   *)
(* the root directory (easy-fs/src/vfs.rs) and the inode bitmap (efs.rs),  *)
(* with the descriptor tables that fork and spawn copy and exit clears.    *)
(*                                                                         *)
(* The bytes of an inode and the entries of the root directory are plain   *)
(* sequences; InodeBlocks shows how they are kept in blocks.  Calls that   *)
(* only return -1 are no actions.                                          *)
(***************************************************************************)
EXTENDS Naturals, Sequences, FiniteSets, FiniteSetsExt, SequencesExt, Functions

CONSTANTS
    Proc, First,         \* processes, and the first one
    Name,
    MaxInode,            \* the inode bitmap has the bits 0..MaxInode
    InodesPerBlock, InodeAreaStart,
    OpenFile,            \* OSInodes that can exist at a time, numbers
    None, Std,           \* a free descriptor, and Stdin or Stdout
    InitFds,             \* the descriptors of the first process
    Flags,               \* sets of flags for open
    Bufs, ReadLens,      \* arguments of write and read
    MaxSize, MaxDirents, MaxFds   \* bounds of the model

InodeId == 1..MaxInode   \* 0 is the root directory

OSInode == [inode : InodeId, offset : Nat, readable : BOOLEAN, writable : BOOLEAN]

ASSUME OpenFilesAssumption ==
    /\ First \in Proc
    /\ MaxInode \in Nat /\ InodesPerBlock \in Nat \ {0} /\ InodeAreaStart \in Nat
    /\ OpenFile \subseteq Nat /\ IsFiniteSet(OpenFile)
    /\ None \notin OpenFile /\ Std \notin OpenFile /\ None # Std
    /\ InitFds \in Seq({Std})
    /\ Flags \subseteq SUBSET {"WRONLY", "RDWR", "CREATE", "TRUNC"}
    /\ ReadLens \subseteq Nat /\ Bufs \subseteq Seq(Nat)
    /\ None \notin OSInode

VARIABLES
    dirents,             \* entries of the root directory
    inode_bitmap,        \* inodes in use, without the root's
    content,             \* the bytes of each inode
    fd_table,            \* of each process; <<>> also for one that does not run
    os_inode,            \* the OSInodes, None when dropped
    live,                \* processes that run
    panicked

fsVars == <<dirents, inode_bitmap, content>>
vars == <<fsVars, fd_table, os_inode, live, panicked>>

Init ==
    /\ dirents = <<>> /\ inode_bitmap = {}
    /\ content = [i \in InodeId |-> <<>>]
    /\ fd_table = [p \in Proc |-> IF p = First THEN InitFds ELSE <<>>]
    /\ os_inode = [h \in OpenFile |-> None]
    /\ live = {First}
    /\ panicked = "no"

Running(p) == panicked = "no" /\ p \in live
Panic(why) == panicked' = why /\ UNCHANGED <<fsVars, fd_table, os_inode, live>>
-----------------------------------------------------------------------------
\* find_inode_id: the first entry with the name.
Places(name) == {i \in 1..Len(dirents) : dirents[i].name = name}
Exists(name) == Places(name) # {}
Find(name) == dirents[Min(Places(name))].inode_id

\* get_disk_inode_pos.
Pos(id) == <<InodeAreaStart + (id \div InodesPerBlock), id % InodesPerBlock>>

\* A count that compares the block and not the offset.
LinksInBlock(pos) == Cardinality({i \in 1..Len(dirents) : Pos(dirents[i].inode_id)[1] = pos[1]})

\* get_link_num.
GetLinkNum(pos) == Cardinality({i \in 1..Len(dirents) : Pos(dirents[i].inode_id) = pos})

\* alloc_inode: the lowest clear bit; inodes are never given back.
FreeInodes == InodeId \ inode_bitmap
AllocInode == Min(FreeInodes)

Cleared(i) == [content EXCEPT ![i] = <<>>]

\* OpenFlags::read_write.
Readable(flags) == "WRONLY" \notin flags
Writable(flags) == flags # {}

\* alloc_fd: the first free descriptor, or a new one (descriptors from 1).
FreeFds(p) == {fd \in 1..Len(fd_table[p]) : fd_table[p][fd] = None}
WithFd(p, h) ==
    IF FreeFds(p) # {} THEN [fd_table[p] EXCEPT ![Min(FreeFds(p))] = h]
    ELSE Append(fd_table[p], h)

\* OSInodes that nothing has a reference to are dropped (Arc).
Referenced(tables) == OpenFile \cap UNION {ToSet(tables[p]) : p \in Proc}
Dropped(tables) == [h \in OpenFile |-> IF h \in Referenced(tables) THEN os_inode[h] ELSE None]

FreeHandles == {h \in OpenFile : os_inode[h] = None}

\* OSInode::new and the new descriptor in sys_open.
OpenInode(p, i, flags) ==
    LET h == Min(FreeHandles) IN
    /\ os_inode' = [os_inode EXCEPT ![h] =
                      [inode |-> i, offset |-> 0,
                       readable |-> Readable(flags), writable |-> Writable(flags)]]
    /\ fd_table' = [fd_table EXCEPT ![p] = WithFd(p, h)]
    /\ UNCHANGED <<live, panicked>>

MayOpen(p) ==
    /\ Running(p)
    /\ FreeHandles # {}
    /\ FreeFds(p) # {} \/ Len(fd_table[p]) < MaxFds

\* sys_open of a file that exists: CREATE and TRUNC empty it.
OpenFound(p, name, flags) ==
    /\ MayOpen(p)
    /\ Exists(name)
    /\ content' = IF flags \cap {"CREATE", "TRUNC"} # {} THEN Cleared(Find(name)) ELSE content
    /\ OpenInode(p, Find(name), flags)
    /\ UNCHANGED <<dirents, inode_bitmap>>

\* sys_open that creates the file (Inode::create).
OpenCreate(p, name, flags) ==
    /\ MayOpen(p)
    /\ "CREATE" \in flags /\ ~Exists(name)
    /\ Len(dirents) < MaxDirents
    /\ \/ FreeInodes = {} /\ Panic("inodes")
       \/ /\ FreeInodes # {}
          /\ inode_bitmap' = inode_bitmap \cup {AllocInode}
          /\ content' = Cleared(AllocInode)
          /\ dirents' = Append(dirents, [name |-> name, inode_id |-> AllocInode])
          /\ OpenInode(p, AllocInode, flags)

IsOpen(p, fd) == fd \in 1..Len(fd_table[p]) /\ fd_table[p][fd] # None
IsFile(p, fd) == IsOpen(p, fd) /\ fd_table[p][fd] # Std

SysClose(p, fd) ==
    /\ Running(p)
    /\ IsOpen(p, fd)
    /\ fd_table' = [fd_table EXCEPT ![p][fd] = None]
    /\ os_inode' = Dropped(fd_table')
    /\ UNCHANGED <<fsVars, live, panicked>>

\* sys_read of a file: the bytes after the offset, as far as there are any.
SysRead(p, fd, len) ==
    /\ Running(p)
    /\ IsFile(p, fd)
    /\ LET h == fd_table[p][fd]
           o == os_inode[h]
           size == Len(content[o.inode])
       IN
       /\ o.readable
       /\ os_inode' = [os_inode EXCEPT ![h].offset =
                         IF o.offset >= size THEN @ ELSE Min({@ + len, size})]
    /\ UNCHANGED <<fsVars, fd_table, live, panicked>>

\* Inode::write_at at an offset that may lie after the end.
Written(s, offset, buf) ==
    LET end == offset + Len(buf)
    IN  [j \in 1..Max({end, Len(s)}) |->
            IF j > offset /\ j <= end THEN buf[j - offset]
            ELSE IF j <= Len(s) THEN s[j] ELSE 0]

SysWrite(p, fd, buf) ==
    /\ Running(p)
    /\ IsFile(p, fd)
    /\ LET h == fd_table[p][fd]
           o == os_inode[h]
       IN
       /\ o.writable
       /\ o.offset + Len(buf) <= MaxSize
       /\ content' = [content EXCEPT ![o.inode] = Written(@, o.offset, buf)]
       /\ os_inode' = [os_inode EXCEPT ![h].offset = @ + Len(buf)]
    /\ UNCHANGED <<dirents, inode_bitmap, fd_table, live, panicked>>

\* sys_linkat: whether the new name exists is not asked.
SysLinkat(p, old, new) ==
    /\ Running(p)
    /\ old # new /\ Exists(old)
    /\ Len(dirents) < MaxDirents
    /\ dirents' = Append(dirents, [name |-> new, inode_id |-> Find(old)])
    /\ UNCHANGED <<inode_bitmap, content, fd_table, os_inode, live, panicked>>

\* unlink: the last entry takes the place of entry i.
SwapRemove(i) == Front([dirents EXCEPT ![i] = Last(dirents)])

SysUnlinkat(p, name) ==
    /\ Running(p)
    /\ Exists(name)
    /\ content' = IF GetLinkNum(Pos(Find(name))) = 1 THEN Cleared(Find(name)) ELSE content
    /\ dirents' = SwapRemove(Min(Places(name)))
    /\ UNCHANGED <<inode_bitmap, fd_table, os_inode, live, panicked>>

\* sys_fstat changes nothing here, but of Stdin and Stdout, where the downcast
\* to OSInode fails.
SysFstat(p, fd) ==
    /\ Running(p)
    /\ IsOpen(p, fd)
    /\ fd_table[p][fd] = Std
    /\ Panic("fstat")

\* fork and spawn: the child gets the same OSInodes.
Fork(p, q) ==
    /\ Running(p)
    /\ q \notin live
    /\ live' = live \cup {q}
    /\ fd_table' = [fd_table EXCEPT ![q] = fd_table[p]]
    /\ UNCHANGED <<fsVars, os_inode, panicked>>

\* What exit leaves of the table; not: the whole table.
TableKept(p) == fd_table[p]
TableCleared(p) == <<>>

\* exit_current_and_run_next.
Exit(p) ==
    /\ Running(p)
    /\ p # First
    /\ live' = live \ {p}
    /\ fd_table' = [fd_table EXCEPT ![p] = TableCleared(p)]
    /\ os_inode' = Dropped(fd_table')
    /\ UNCHANGED <<fsVars, panicked>>

\* After a panic nothing happens any more.
Halted == panicked # "no" /\ UNCHANGED vars

Step(p) ==
    \/ \E name \in Name, flags \in Flags :
          OpenFound(p, name, flags) \/ OpenCreate(p, name, flags)
    \/ \E fd \in 1..MaxFds :
          \/ SysClose(p, fd)
          \/ \E len \in ReadLens : SysRead(p, fd, len)
          \/ \E buf \in Bufs : SysWrite(p, fd, buf)
          \/ SysFstat(p, fd)
    \/ \E old, new \in Name : SysLinkat(p, old, new)
    \/ \E name \in Name : SysUnlinkat(p, name)
    \/ \E q \in Proc : Fork(p, q)
    \/ Exit(p)

Next == (\E p \in Proc : Step(p)) \/ Halted

Spec == Init /\ [][Next]_vars
-----------------------------------------------------------------------------
\* Names and open files lead to inodes that create took from the bitmap, a
\* descriptor never leads to a dropped OSInode, and an OSInode is kept only by
\* the descriptors of processes that run, whatever was closed, forked, exited
\* or unlinked in between.
ReferencesAllocated ==
    /\ \A k \in 1..Len(dirents) : dirents[k].inode_id \in inode_bitmap
    /\ \A h \in OpenFile :
          os_inode[h] # None =>
             /\ os_inode[h].inode \in inode_bitmap
             /\ \E p \in live : h \in ToSet(fd_table[p])
    /\ \A h \in Referenced(fd_table) : os_inode[h] # None

\* Directory entries as links, the bitmap as the files ever created.
LinkView == INSTANCE Links WITH
    File <- InodeId,
    links <- [l \in Name \X InodeId |->
                Cardinality({k \in 1..Len(dirents) :
                               dirents[k].name = l[1] /\ dirents[k].inode_id = l[2]})],
    used <- inode_bitmap,
    data <- content

\* The calls keep the promises of Links: unlinkat drops the data with the last
\* of the links, the entry moved by unlink is not lost, and an inode that
\* open files still lead to is never given to a new file.
ImplementsLinks == LinkView!LinksSpec
=============================================================================
