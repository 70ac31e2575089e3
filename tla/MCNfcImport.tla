---------------------------- MODULE MCNfcImport ----------------------------
(* Small instances of NfcImport for TLC.                                   *)
EXTENDS NfcImport

AllButTheFirst == Emp \ {1}

\* The import as scheduled, and one that is also started by hand during the
\* day; a day that HR enters, on two nights, and one of which HR may leave an
\* entry half-written.
Nightly == [nightly |-> TRUE, nights |-> 2, cards |-> Emp, phones |-> Emp,
            overrides |-> {}, maxAborts |-> 1]
ByHand  == [nightly |-> FALSE, nights |-> 2, cards |-> {2}, phones |-> Emp,
            overrides |-> {}, maxAborts |-> 0]
Entered == [nightly |-> TRUE, nights |-> 2, cards |-> {2}, phones |-> {},
            overrides |-> {<<2, <<0, 1>>>>}, maxAborts |-> 0]
HalfEntered == [nightly |-> TRUE, nights |-> 1, cards |-> {2}, phones |-> {},
                overrides |-> {<<2, <<0, 1>>>>}, maxAborts |-> 1]
AllFour == {Nightly, ByHand, Entered, HalfEntered}

=============================================================================
