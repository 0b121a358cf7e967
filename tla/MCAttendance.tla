---------------------------- MODULE MCAttendance ----------------------------
(* A small instance of Attendance for TLC. *)
EXTENDS Attendance

TwoSessions == 1 .. 2

\* A day that was worked, and a clock-out that was forgotten.
OneDispute == {[day |-> 0, out |-> 0, status |-> "present"]}

\* The first day was spent at site: the command marks it, HR writes it up.
FirstDay == {0}
OneAmended == {[day |-> 0, out |-> 0, status |-> "present"]}

\* The reader saw the person come and go on the first day.
InAndOut == {[kind |-> "in", at |-> 0], [kind |-> "out", at |-> 0]}
=============================================================================
