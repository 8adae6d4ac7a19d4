------------------------------ MODULE BlockStore ------------------------------
(***************************************************************************)
(* What the block cache promises to the file system: every access sees the *)
(* last value written to the block, and after a power failure a block has  *)
(* one of the values it has had since the last completed sync.             *)
(***************************************************************************)
EXTENDS Naturals, Sequences

CONSTANTS Block, Value

VARIABLES content,   \* the value of each block
          view,      \* the accesses in progress: <<block, what it shows>>
          pending    \* the values a power failure may leave in each block

storeVars == <<content, view, pending>>

StoreInit ==
    /\ content \in [Block -> Value]
    /\ view = <<>>
    /\ pending = [b \in Block |-> {content[b]}]

Access(b) ==
    /\ view' = Append(view, <<b, content[b]>>)
    /\ UNCHANGED <<content, pending>>

Update(v) ==
    /\ view # <<>>
    /\ LET b == view[Len(view)][1] IN
          /\ content' = [content EXCEPT ![b] = v]
          /\ pending' = [pending EXCEPT ![b] = @ \cup {v}]
          /\ view' = Append(SubSeq(view, 1, Len(view) - 1), <<b, v>>)

Close ==
    /\ view # <<>>
    /\ view' = SubSeq(view, 1, Len(view) - 1)
    /\ UNCHANGED <<content, pending>>

Sync ==
    /\ view = <<>>
    /\ pending' = [b \in Block |-> {content[b]}]
    /\ UNCHANGED <<content, view>>

PowerFailure ==
    /\ view' = <<>>
    /\ content' \in [Block -> Value]
    /\ \A b \in Block : content'[b] \in pending[b]
    /\ pending' = [b \in Block |-> {content'[b]}]

StoreNext ==
    \/ \E b \in Block : Access(b)
    \/ \E v \in Value : Update(v)
    \/ Close
    \/ Sync
    \/ PowerFailure

StoreSpec == StoreInit /\ [][StoreNext]_storeVars
=============================================================================
