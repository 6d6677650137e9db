-------------------------------- MODULE Fifo --------------------------------
(***************************************************************************)
(* What a message queue promises: an element is put at the end in one      *)
(* step, and the first one is handed to exactly one taker in one step.  A  *)
(* taker is never handed anything that is not there.                       *)
(***************************************************************************)
EXTENDS Sequences

CONSTANTS Elements, Takers, Nothing

VARIABLES
    queue,      \* the elements waiting, the oldest first
    taken       \* what each taker was handed last

Put(e) ==
    /\ queue' = Append(queue, e)
    /\ UNCHANGED taken

Take(t) ==
    /\ queue # <<>>
    /\ taken' = [taken EXCEPT ![t] = Head(queue)]
    /\ queue' = Tail(queue)

Init ==
    /\ queue = <<>>
    /\ taken = [t \in Takers |-> Nothing]

Next ==
    \/ \E e \in Elements : Put(e)
    \/ \E t \in Takers : Take(t)

Spec == Init /\ [][Next]_<<queue, taken>>
=============================================================================
