---------------------- MODULE MCManagerReportScheduler ----------------------
(* Small instances of ManagerReportScheduler for TLC. *)
EXTENDS ManagerReportScheduler, TLC

\* A report every other time unit, and one every third.
TwoSchedules == {[period |-> 2, offset |-> 1], [period |-> 3, offset |-> 0]}
OneSchedule == {[period |-> 2, offset |-> 1]}

WorkerSymmetry == Permutations(Workers)
=============================================================================
