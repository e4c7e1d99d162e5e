-------------------------------- MODULE Fifo --------------------------------
(***************************************************************************)
(* What a callback queue promises to the threads that share it: data comes *)
(* out in the order it went in, each of it once, until the last one, Exit. *)
(***************************************************************************)
EXTENDS Sequences

CONSTANTS Data, Exit

VARIABLES
    items,      \* what was put in and not yet taken out
    taken       \* what was taken out last, or Nothing

Nothing == "nothing"

Init == items = <<>> /\ taken = Nothing

Put(d) == items' = Append(items, d) /\ UNCHANGED taken

Get ==
    /\ items # <<>> /\ taken # Exit
    /\ taken' = Head(items) /\ items' = Tail(items)

Next == (\E d \in Data \cup {Exit} : Put(d)) \/ Get

Spec == Init /\ [][Next]_<<items, taken>>
=============================================================================
