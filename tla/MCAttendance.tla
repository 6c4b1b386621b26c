---------------------------- MODULE MCAttendance ----------------------------
(* Instances of Attendance for TLC. *)
EXTENDS Attendance, TLC

CONSTANTS u1, u2, h1, h2

(* Everybody takes the second day off, and some come in all the same. *)
Holiday == Users \X {2}
Symmetry == Permutations(Users) \cup Permutations(Handlers)
=============================================================================
