------------------------------- MODULE Otadata -------------------------------
(***************************************************************************)
(* What the application reads off the otadata partition                    *)
(* (adapters/ota/src/otadata.rs), and what one flash command of the entry  *)
(* protocol can leave in a sector.  Option and Result values are sets with *)
(* at most one member: empty for None and Err.                             *)
(***************************************************************************)
EXTENDS Ewbt

\* Write to the slot that runs, instead of the other one.
write_target_same_slot(od) ==
  {slot_of(od[s].seq) :
     s \in {v \in Sectors : Latest(od, In(od, {"valid", "pending_verify"}), v)}}

\* Take the first live entry instead of the highest: a stale Valid will do.
write_target_stale(od) ==
  {1 - slot_of(od[s].seq) :
     s \in {v \in Sectors : \A u \in In(od, {"valid", "pending_verify"}) :
              v \in In(od, {"valid", "pending_verify"}) /\ v <= u}}

\* write_target: the slot opposite to the highest Valid or Pending entry.
write_target(od) ==
  {1 - slot_of(od[s].seq) :
     s \in {v \in Sectors : Latest(od, In(od, {"valid", "pending_verify"}), v)}}

\* Report a standing Valid entry before an undecided trial.
image_outcome_valid_first(od) ==
  IF In(od, {"valid"}) # {} THEN "Confirmed"
  ELSE IF In(od, {"pending_verify"}) # {} THEN "PendingConfirmation"
  ELSE "Other"

image_outcome(od) ==
  IF In(od, {"pending_verify"}) # {} THEN "PendingConfirmation"
  ELSE IF In(od, {"valid"}) # {} THEN "Confirmed"
  ELSE "Other"

\* boot_entry: the entry with the highest sequence number, whatever its state.
boot_entry(od) ==
  {[slot |-> slot_of(od[s].seq), seq |-> od[s].seq, state |-> od[s].state] :
     s \in {v \in Sectors : Latest(od, Ok(od), v)}}

-----------------------------------------------------------------------------
(* The three commands that write one entry, `Write::ops'.  A command that  *)
(* fails or loses power leaves the sector as it was, as asked, or between. *)

Torn == [seq |-> 0, state |-> "torn", commit |-> "torn"]

Steps == {"erase", "body", "commit"}

\* What the sector must read back after each command, for the write e.
Wanted(step, e) ==
  CASE step = "erase"  -> BLANK
    [] step = "body"   -> body(e)
    [] step = "commit" -> encode(e)

\* NOR flash: programming only clears bits, so a body programmed over anything
\* but an erased sector is garbage, and a commit word goes over what is there.
Done(step, e, raw) ==
  CASE step = "erase"  -> BLANK
    [] step = "body"   -> IF raw = BLANK THEN body(e) ELSE Torn
    [] step = "commit" -> [raw EXCEPT !.commit = "set"]

Between(step, e, raw) ==
  CASE step = "erase"  -> Torn
    [] step = "body"   -> [seq |-> 0, state |-> "torn", commit |-> raw.commit]
    [] step = "commit" -> [raw EXCEPT !.commit = "torn"]

Outcomes(step, e, raw) == {raw, Between(step, e, raw), Done(step, e, raw)}

\* Go on without comparing what was read back.
ReadBack_unchecked(step, e, back) == TRUE

\* The comparison after each command decides whether the next one is issued.
ReadBack(step, e, back) ==
  /\ back = Wanted(step, e)
  /\ step = "commit" => decodes(back)
=============================================================================
