----------------------------- MODULE BootChainAB -----------------------------
(***************************************************************************)
(* The boot chain implements the A/B contract of ABUpdate: an entry write  *)
(* is three flash commands, any of which may fail or lose power, and still *)
(* every transition is all or nothing.                                     *)
(***************************************************************************)
EXTENDS BootChain

\* The highest Valid sequence number on flash.
Confirmed ==
  IF In(od, {"valid"}) = {} THEN 0
  ELSE CHOOSE n \in SeqNo : \E s \in Sectors : Latest(od, In(od, {"valid"}), s) /\ od[s].seq = n

Entry(s, stage) == [seq |-> od[s].seq, stage |-> stage]

\* An entry being rewritten is off the flash between its erase and its commit
\* word: it then stands for what it was.
Candidate ==
  CASE wr.step \in {"body", "commit"} /\ wr.state = "pending_verify" ->
         [seq |-> wr.seq, stage |-> "new"]
    [] wr.step \in {"body", "commit"} /\ wr.state = "valid" /\ phase = "run" ->
         [seq |-> wr.seq, stage |-> "trial"]
    [] In(od, {"pending_verify"}) # {} ->
         LET s == CHOOSE s \in Sectors : s \in In(od, {"pending_verify"})
         IN  Entry(s, IF phase \in {"exec", "run"} /\ od[s].seq = boot.seq THEN "trial" ELSE "spent")
    [] In(od, {"pending_verify"}) = {} /\ In(od, {"new"}) # {} /\ wr.step \in {"idle", "erase"} ->
         Entry(CHOOSE s \in Sectors : s \in In(od, {"new"}), "new")
    [] OTHER -> [seq |-> 0, stage |-> "none"]

Running == IF phase = "run" THEN boot.seq ELSE 0

AB == INSTANCE ABUpdate WITH confirmed <- Confirmed, cand <- Candidate, running <- Running

\* ImplementsAB: seen through the entries that decode, bootloader and adapter
\* together only ever make the A/B contract's steps, cut or failed anywhere.
ImplementsAB == AB!Spec
=============================================================================
