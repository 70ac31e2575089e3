--------------------------- MODULE MCEmployeeAdmin ---------------------------
(* Small instances of EmployeeAdmin for TLC.                               *)
EXTENDS EmployeeAdmin, TLC

CONSTANTS ann, bob, cy

At(b) == [boss |-> b, off |-> FALSE]

\* A chain of three; cy has left, and ann reported to cy; cy is not employed.
Chain == (ann :> At(bob)) @@ (bob :> At(None)) @@ (cy :> At(ann))
Left == (ann :> At(cy)) @@ (bob :> At(None)) @@ (cy :> [boss |-> None, off |-> TRUE])
Two == (ann :> At(None)) @@ (bob :> At(ann)) @@ (cy :> None)

SmallStarts ==
    {[staff |-> Two, logs |-> {}], [staff |-> Chain, logs |-> {ann}], [staff |-> Left, logs |-> {}]}

=============================================================================
