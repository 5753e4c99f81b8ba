----------------------------- MODULE MCReports ------------------------------
(* Days of three hours of two slots.                                        *)
EXTENDS Reports

CONSTANT f1

OneFacility == <<f1>>

\* As many prices as the longest day has. Quarters, whose average is above zero
\* over the first six and below zero over the last six, and hours, two of which
\* are near each other.
DayPatterns ==
  { [every |-> 1, prices |-> <<9, 2, -1, 3, -1, -4, -6, 1>>],
    [every |-> 2, prices |-> <<5, 6, 2, 2>>] }

\* A day of which an hour is left out and the summer, a day with an hour more
\* and the winter.
Changes ==
  { [day \in 0..(MaxDay + 3) |-> IF day = 0 THEN 0 ELSE 1],
    [day \in 0..(MaxDay + 3) |-> IF day = 0 THEN 1 ELSE 0] }

SomePasts ==
  { NoPast,
    [prices |-> << <<2, 1, 5, 3, 3, 1>>, <<1, 1, 1, 4, 2, 2>> >>, weights |-> <<3, 1>>],
    [prices |-> << <<>>, <<-1, -2, 1>> >>, weights |-> <<1, 2>>] }
SomeTrends == {[b \in 0..5 |-> IF b \in {3, 4} THEN 80 ELSE 10]}
SomeGarbage == {20}
=============================================================================
