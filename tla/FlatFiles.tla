------------------------------ MODULE FlatFiles ------------------------------
(***************************************************************************)
(* What the inodes of easy-fs promise: a file is a sequence of bytes, on   *)
(* its own; a gap that a write leaves reads as zeros.                      *)
(***************************************************************************)
EXTENDS Naturals, Sequences

CONSTANTS Inode, Offset, Buf   \* the files, and the offsets and buffers of writes

VARIABLE content

FilesInit == content = [i \in Inode |-> <<>>]

Written(s, offset, buf) ==
    LET end == offset + Len(buf)
    IN  [j \in 1..(IF end > Len(s) THEN end ELSE Len(s)) |->
            IF j > offset /\ j <= end THEN buf[j - offset]
            ELSE IF j <= Len(s) THEN s[j] ELSE 0]

Write(i) ==
    \E offset \in Offset, buf \in Buf :
        content' = [content EXCEPT ![i] = Written(@, offset, buf)]

Truncate(i) == content' = [content EXCEPT ![i] = <<>>]

\* The last entry of a directory takes the place of entry j.
RemoveSwap(i) ==
    \E j \in 1..Len(content[i]) :
        LET s == content[i]
        IN  content' = [content EXCEPT ![i] =
                          SubSeq([s EXCEPT ![j] = s[Len(s)]], 1, Len(s) - 1)]

FilesNext == \E i \in Inode : Write(i) \/ Truncate(i) \/ RemoveSwap(i)

FilesSpec == FilesInit /\ [][FilesNext]_content
=============================================================================
