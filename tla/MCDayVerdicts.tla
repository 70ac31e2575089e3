--------------------------- MODULE MCDayVerdicts ---------------------------
(* Small instances of DayVerdicts for TLC: four ticks to the day are enough *)
(* for a grace period that ends on the same day, at midnight, or after it. *)
EXTENDS DayVerdicts

=============================================================================
