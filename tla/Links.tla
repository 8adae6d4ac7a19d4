-------------------------------- MODULE Links --------------------------------
(***************************************************************************)
(* What the names of files promise: links are pairs of a name and a file,  *)
(* in no order; a file that was ever created is never taken for another    *)
(* one; its data is dropped with its last link and not before.             *)
(***************************************************************************)
EXTENDS Naturals, Sequences

CONSTANTS Name, File

VARIABLES links,    \* how often each pair of name and file is linked
          used,     \* files created so far
          data

LinksInit ==
    /\ links = [l \in Name \X File |-> 0]
    /\ used = {}
    /\ data = [f \in File |-> <<>>]

Linked(f) == \E n \in Name : links[<<n, f>>] > 0
Known(n) == \E f \in File : links[<<n, f>>] > 0

CreateFile(n, f) ==
    /\ ~Known(n) /\ f \notin used
    /\ links' = [links EXCEPT ![<<n, f>>] = 1]
    /\ used' = used \cup {f}
    /\ data' = [data EXCEPT ![f] = <<>>]

AddLink(n, f) ==
    /\ Linked(f)
    /\ links' = [links EXCEPT ![<<n, f>>] = @ + 1]
    /\ UNCHANGED <<used, data>>

RemoveLink(n, f) ==
    /\ links[<<n, f>>] > 0
    /\ links' = [links EXCEPT ![<<n, f>>] = @ - 1]
    /\ data' = IF \E m \in Name : links'[<<m, f>>] > 0 THEN data ELSE [data EXCEPT ![f] = <<>>]
    /\ UNCHANGED used

\* A write through an open file, which may have lost its links.
WriteFile(f) ==
    /\ f \in used
    /\ Len(data'[f]) >= Len(data[f])
    /\ \A g \in File \ {f} : data'[g] = data[g]
    /\ UNCHANGED <<links, used>>

TruncateFile(f) ==
    /\ Linked(f)
    /\ data' = [data EXCEPT ![f] = <<>>]
    /\ UNCHANGED <<links, used>>

LinksNext ==
    \E f \in File :
        \/ \E n \in Name : CreateFile(n, f) \/ AddLink(n, f) \/ RemoveLink(n, f)
        \/ WriteFile(f)
        \/ TruncateFile(f)

LinksSpec == LinksInit /\ [][LinksNext]_<<links, used, data>>
=============================================================================
