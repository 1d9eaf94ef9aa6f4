------------------------------ MODULE ABUpdate ------------------------------
(***************************************************************************)
(* What the boot chain promises, with no flash in it: one confirmed        *)
(* version that only grows, at most one candidate beside it, one trial per *)
(* candidate, and a board that runs the confirmed version or the candidate *)
(* on trial.  A reset may fall together with any of these changes.         *)
(***************************************************************************)
EXTENDS Naturals

VARIABLES
  confirmed,   \* the confirmed version, 0 on an unprovisioned board
  cand,        \* the candidate and how far it got
  running      \* the running version, 0 when no application runs

abvars == <<confirmed, cand, running>>

None == [seq |-> 0, stage |-> "none"]

Init ==
  /\ confirmed = 0
  /\ cand = None
  /\ running = 0

\* The factory image is vouched for, once.
Provision ==
  /\ running = 0 /\ confirmed = 0 /\ cand = None
  /\ confirmed' = 1
  /\ cand' = None

\* The running application offers a newer version.
Offer ==
  /\ running # 0 /\ cand.stage \in {"none", "new"}
  /\ cand'.stage = "new" /\ cand'.seq > confirmed
  /\ cand' = [seq |-> cand'.seq, stage |-> "new"]
  /\ UNCHANGED confirmed

\* Before the candidate runs, its trial is recorded as begun.
Begin ==
  /\ running = 0 /\ cand.stage = "new"
  /\ cand' = [cand EXCEPT !.stage = "trial"]
  /\ UNCHANGED confirmed

\* The version on trial, running, confirms itself.
Confirm ==
  /\ running = cand.seq /\ cand.stage = "trial"
  /\ confirmed' = cand.seq
  /\ cand' = None

\* A candidate may be lost, aborted or rejected.
Drop ==
  /\ cand # None
  /\ cand' = None
  /\ UNCHANGED confirmed

Change == Provision \/ Offer \/ Begin \/ Confirm \/ Drop

\* The candidate whose trial is begun, or the confirmed version; never a
\* candidate whose trial a reset ended.
Start ==
  /\ running = 0
  /\ \/ cand.stage = "trial" /\ running' = cand.seq
     \/ cand.stage \in {"none", "new"} /\ confirmed # 0 /\ running' = confirmed
  /\ UNCHANGED <<confirmed, cand>>

Spent(c) == IF c.stage = "trial" THEN [c EXCEPT !.stage = "spent"] ELSE c

\* A reset ends a trial, and may fall on a change as it happens.
Reset ==
  /\ running' = 0
  /\ \/ cand' = Spent(cand) /\ UNCHANGED confirmed
     \/ Provision \/ Offer \/ Confirm \/ Drop
     \/ running = 0 /\ cand.stage = "new" /\ UNCHANGED confirmed
          /\ cand' = [cand EXCEPT !.stage = "spent"]

Next == (Change /\ UNCHANGED running) \/ Start \/ Reset

Spec == Init /\ [][Next]_abvars
=============================================================================
