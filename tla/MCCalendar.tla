----------------------------- MODULE MCCalendar -----------------------------
(***************************************************************************)
(* The years the clock is walked through: one whole era of 400 years and   *)
(* the next, and the last years that have a four-digit number.             *)
(***************************************************************************)
EXTENDS Calendar

CheckedYears == 1970 .. 2401 \cup 9996 .. 10000
=============================================================================
