----------------------------- MODULE MCListPages -----------------------------
(* Small instances of ListPages for TLC.                                   *)
EXTENDS ListPages

\* The first employee has a department alone.
SomeEmps == {"ann", "bob", "cy"}
SomeDepts == [e \in SomeEmps |-> IF e = "ann" THEN "sales" ELSE "stores"]

=============================================================================
