---------------------------- MODULE MCAttendance ----------------------------
(* Two handlers, a clock that passes midnight, shifts of at most two hours. *)
EXTENDS Attendance, TLC

Symmetric == Permutations(Handlers)
=============================================================================
