--------------------------- MODULE BootChainProofs ---------------------------
(***************************************************************************)
(* Theorems about BootChain, for every bound on the sequence numbers and   *)
(* every choice of faults and calls, and its refinement of ABUpdate.       *)
(***************************************************************************)
EXTENDS BootChainAB, TLAPS

\* Slots alternate with the sequence number, from slot 0 for number 1.
LEMMA SlotOf ==
  ASSUME NEW n \in Nat
  PROVE  slot_of(n) \in Slots
  BY DEF slot_of, Slots

\* A blank sector, and every body or entry of a write, is a raw sector.
LEMMA WantedTyped ==
  ASSUME NEW e, e.seq \in SeqNo, e.state \in State
  PROVE  BLANK \in Raw /\ body(e) \in Raw /\ encode(e) \in Raw /\ Torn \in Raw
  BY MaxSeqAssumption DEF BLANK, body, encode, Torn, Raw, SeqNo, State

\* A flash command, whole, cut or failed, leaves a raw sector.
LEMMA OutcomesTyped ==
  ASSUME NEW e, e.seq \in SeqNo, e.state \in State,
         NEW step \in Steps, NEW raw \in Raw
  PROVE  Outcomes(step, e, raw) \subseteq Raw /\ Done(step, e, raw) \in Raw
<1>1. Done(step, e, raw) \in Raw
  <2>1. CASE step = "erase"
    BY <2>1, WantedTyped DEF Done
  <2>2. CASE step = "body"
    BY <2>2, WantedTyped DEF Done
  <2>3. CASE step = "commit"
    BY <2>3 DEF Done, Raw
  <2> QED BY <2>1, <2>2, <2>3 DEF Steps
<1>2. Between(step, e, raw) \in Raw
  <2>1. CASE step = "erase"
    BY <2>1, WantedTyped DEF Between
  <2>2. CASE step = "body"
    <3>1. raw.commit \in {"erased", "torn", "set"}
      BY DEF Raw
    <3>2. [seq |-> 0, state |-> "torn", commit |-> raw.commit] \in Raw
      BY <3>1, MaxSeqAssumption DEF Raw, State
    <3> QED BY <2>2, <3>2 DEF Between
  <2>3. CASE step = "commit"
    BY <2>3 DEF Between, Raw
  <2> QED BY <2>1, <2>2, <2>3 DEF Steps
<1> QED BY <1>1, <1>2 DEF Outcomes

\* The writes FiBeWI returns for decodable entries are well formed.
LEMMA RewriteTyped ==
  ASSUME NEW f \in [Sectors -> Raw], NEW s \in Ok(f), NEW st \in State
  PROVE  Rewrite(f, s, st) \in Write
  BY MaxSeqAssumption DEF Rewrite, Write, Ok, In, decodes, Raw, SeqNo, Sectors

LEMMA TransitionsTyped ==
  ASSUME NEW f \in [Sectors -> Raw]
  PROVE  /\ confirm(f) \subseteq Write
         /\ reject(f) \subseteq Write
         /\ \A t \in Slots : activate(f, t) \subseteq Write
<1>1. \A S \in SUBSET State : In(f, S) \subseteq Ok(f)
  BY DEF In, Ok
<1>2. In(f, {"pending_verify"}) \subseteq Ok(f)
  BY <1>1 DEF State
<1> QED BY <1>2, RewriteTyped DEF confirm, reject, activate, State

LEMMA PlanTyped ==
  ASSUME NEW f \in [Sectors -> Raw], NEW ok \in SUBSET Slots, NEW p \in plan_boot(f, ok)
  PROVE  p \in Plan
<1>1. \A S \in SUBSET State : In(f, S) \subseteq Ok(f)
  BY DEF In, Ok
<1>2. \A why \in {"NoImage", "NoUsableEntry"} : Halt(why) \in Plan
  BY MaxSeqAssumption DEF Halt, Plan, Slots, Write
<1>3. FirstBoot(ok) \subseteq Plan
  <2>1. \A s \in Sectors : [sector |-> s, seq |-> 1, state |-> "valid"] \in Write
    BY MaxSeqAssumption DEF Write, SeqNo, State
  <2> QED BY <1>2, <2>1, MaxSeqAssumption DEF FirstBoot, Plan, Slots
<1>4. ASSUME NEW s \in Ok(f)
      PROVE  BootWrites(f, s) \in SUBSET Write
  <2>1. In(f, {"pending_verify"}) \subseteq Ok(f) /\ In(f, {"new"}) \subseteq Ok(f)
    BY <1>1 DEF State
  <2> QED BY <2>1, RewriteTyped DEF BootWrites, State
<1>5. ASSUME NEW s \in Candidates(f, ok)
      PROVE  [boot |-> "slot", slot |-> slot_of(f[s].seq), seq |-> f[s].seq,
              writes |-> BootWrites(f, s)] \in Plan
  <2>1. s \in Ok(f) /\ s \in Sectors
    BY <1>1 DEF Candidates, State, In
  <2>2. f[s].seq \in 0 .. MaxSeq
    BY <2>1 DEF Raw
  <2>3. slot_of(f[s].seq) \in Slots
    BY <2>2, SlotOf, MaxSeqAssumption
  <2> QED BY <2>1, <2>2, <2>3, <1>4 DEF Plan
<1>6. \A s \in Sectors : Latest(f, Candidates(f, ok), s) => s \in Candidates(f, ok)
  BY DEF Latest
<1> QED BY <1>2, <1>3, <1>5, <1>6 DEF plan_boot

-----------------------------------------------------------------------------
(* Type correctness.                                                       *)

LEMMA TypeInit == Init => TypeOK
  BY MaxSeqAssumption, SMT
  DEF Init, TypeOK, Idle, NoUpload, BLANK, Raw, Sectors, Slots, SeqNo, State, Content

\* The entry write fails, for either of the reasons the bootloader tells apart.
Failed == \E why \in {"OtadataWrite", "FlashRead"} : FailWrite(why)

\* Programming or erasing one sector keeps the two sectors raw sectors, and a
\* write moves on to a proper step.
LEMMA CommandTyped ==
  ASSUME TypeOK, NEW step \in Steps, Command(step)
  PROVE  TypeOK'
<1>1. wr.step \in Steps /\ wr.seq \in SeqNo /\ wr.state \in State /\ od[wr.sector] \in Raw
  BY DEF TypeOK, Command
<1>2. od' \in [Sectors -> Raw]
  BY <1>1, OutcomesTyped DEF TypeOK, Command
<1>3. Idle \in [sector : Sectors, seq : SeqNo, state : State, step : Steps \cup {"idle"}]
  BY MaxSeqAssumption DEF Idle, Sectors, SeqNo, State, Steps
<1>4. CASE PassWrite
  BY <1>2, <1>3, <1>4 DEF TypeOK, PassWrite, FollowedBy, Steps
<1>5. CASE Failed
  BY <1>2, <1>3, <1>5 DEF TypeOK, Failed, FailWrite
<1> QED BY <1>4, <1>5 DEF Command, Failed

\* An adapter call starts a well-formed write or none.
LEMMA TransitionTyped ==
  ASSUME TypeOK, NEW W \in SUBSET Write, Transition(W)
  PROVE  /\ wr' \in [sector : Sectors, seq : SeqNo, state : State, step : Steps \cup {"idle"}]
         /\ result' \in {"none", "ok", "err"}
  BY DEF TypeOK, Transition, Write, Steps

LEMMA TypeNext == TypeOK /\ [Next]_vars => TypeOK'
<1> SUFFICES ASSUME TypeOK, [Next]_vars PROVE TypeOK'
  OBVIOUS
<1>1. CASE PowerOn
  BY <1>1 DEF TypeOK, PowerOn
<1>2. CASE SetFlashSize
  BY <1>2 DEF TypeOK, SetFlashSize, Goto, HaltWith
<1>3. CASE ReadLayout
  BY <1>3 DEF TypeOK, ReadLayout, Goto, HaltWith
<1>4. CASE FlashReinit
  BY <1>4 DEF TypeOK, FlashReinit, Goto, HaltWith
<1>5. CASE PlanBoot
  <2>1. CASE ReadFaults /\ HaltWith("FlashRead")
    BY <2>1 DEF TypeOK, HaltWith
  <2>2. CASE \E ok \in ImageOk : \E plan \in plan_boot(od, ok) :
               IF plan.boot = "slot" THEN Proceed(plan) ELSE HaltWith(plan.boot)
    <3>0. PICK ok \in ImageOk : \E plan \in plan_boot(od, ok) :
            IF plan.boot = "slot" THEN Proceed(plan) ELSE HaltWith(plan.boot)
      BY <2>2
    <3>1. PICK plan \in plan_boot(od, ok) :
            IF plan.boot = "slot" THEN Proceed(plan) ELSE HaltWith(plan.boot)
      BY <3>0
    <3>2. ok \in SUBSET Slots
      BY DEF ImageOk
    <3>3. plan \in Plan
      BY <3>2, PlanTyped DEF TypeOK
    <3> QED BY <3>1, <3>3 DEF TypeOK, Plan, Proceed, HaltWith
  <2> QED BY <1>5, <2>1, <2>2 DEF PlanBoot, read_otadata
<1>6. CASE StartWrite
  BY <1>6 DEF TypeOK, StartWrite, HaltWith, Write, Steps
<1>7. CASE LoadImage
  <2>1. \A s \in {t \in In(od, {"new", "pending_verify"}) : od[t].seq = boot.seq} : boot.seq \in SeqNo
    BY DEF TypeOK, In, decodes, Raw, SeqNo
  <2> QED BY <1>7, <2>1 DEF TypeOK, LoadImage, HaltWith
<1>8. CASE WriteStep
  BY <1>8, CommandTyped DEF WriteStep, EraseSector, ProgramBody, ProgramCommit, Steps
<1>9. CASE Confirm
  <2>1. confirm(od) \in SUBSET Write
    BY TransitionsTyped DEF TypeOK
  <2>2. image' \in [Slots -> Content]
    BY <1>9 DEF Confirm, TypeOK, Content
  <2> QED BY <1>9, <2>1, <2>2, TransitionTyped DEF TypeOK, Confirm
<1>10. CASE Reject
  <2>1. reject(od) \in SUBSET Write
    BY TransitionsTyped DEF TypeOK
  <2> QED BY <1>10, <2>1, TransitionTyped DEF TypeOK, Reject
<1>11. ASSUME NEW t \in Slots, Activate(t)
       PROVE  TypeOK'
  <2>1. activate(od, t) \in SUBSET Write
    BY TransitionsTyped DEF TypeOK
  <2> QED BY <1>11, <2>1, TransitionTyped DEF TypeOK, Activate
<1>12. CASE UploadOpen
  <2>1. write_target(od) \subseteq Slots
    <3>1. \A s \in Sectors : slot_of(od[s].seq) \in Slots
      BY SlotOf, MaxSeqAssumption DEF TypeOK, Raw
    <3> QED BY <3>1 DEF write_target, Slots
  <2> QED BY <1>12, <2>1 DEF TypeOK, UploadOpen
<1>13. CASE UploadErase \/ UploadHeader \/ UploadFinish \/ UploadAbort
  BY <1>13 DEF TypeOK, UploadErase, UploadHeader, UploadFinish, UploadAbort, NoUpload, Slots, Content
<1>14. CASE PowerCut
  <2>1. od' \in [Sectors -> Raw]
    <3>1. CASE wr.step = "idle"
      BY <1>14, <3>1 DEF PowerCut, TypeOK
    <3>2. CASE wr.step # "idle"
      BY <1>14, <3>2, OutcomesTyped DEF PowerCut, TypeOK
    <3> QED BY <3>1, <3>2
  <2> QED BY <1>14, <2>1, MaxSeqAssumption
          DEF PowerCut, TypeOK, Idle, NoUpload, Slots, Sectors, SeqNo, State, Steps
<1>15. CASE UNCHANGED vars
  BY <1>15 DEF TypeOK, vars
<1> QED
  BY <1>1, <1>2, <1>3, <1>4, <1>5, <1>6, <1>7, <1>8, <1>9, <1>10, <1>11, <1>12, <1>13,
     <1>14, <1>15 DEF Next, BootStep, AppStep

\* The types of BootChain's variables hold in every reachable state.
THEOREM TypeCorrect == Spec => []TypeOK
  BY TypeInit, TypeNext, PTL DEF Spec

-----------------------------------------------------------------------------
(* The inductive invariant.                                                *)

\* Whatever a command leaves, an entry that decodes afterwards is the one that
\* was there, or the one the commit word completes.
LEMMA OutcomeShape ==
  ASSUME TypeOK, WriteShape, wr.step \in Steps,
         NEW raw \in Outcomes(wr.step, wr, od[wr.sector]), decodes(raw)
  PROVE  raw = od[wr.sector] \/ (wr.step = "commit" /\ raw = encode(wr))
<1>1. CASE wr.step = "erase"
  BY <1>1 DEF Outcomes, Between, Done, decodes, Torn, BLANK, State
<1>2. CASE wr.step = "body"
  BY <1>2 DEF Outcomes, Between, Done, decodes, BLANK, body, State, WriteShape
<1>3. CASE wr.step = "commit"
  BY <1>3 DEF Outcomes, Between, Done, decodes, body, encode, State, WriteShape
<1> QED BY <1>1, <1>2, <1>3 DEF Steps

\* One command: the sector written, and whether the write goes on.
LEMMA CommandEffect ==
  ASSUME BootInv, NEW step \in Steps, Command(step)
  PROVE  \E raw \in Raw :
           /\ od' = [od EXCEPT ![wr.sector] = raw]
           /\ decodes(raw) => raw = od[wr.sector] \/ (wr.step = "commit" /\ raw = encode(wr))
           /\ (PassWrite /\ raw = Wanted(step, wr)) \/ Failed
<1>1. wr.step = step /\ wr.seq \in SeqNo /\ wr.state \in State /\ od[wr.sector] \in Raw
  BY DEF BootInv, TypeOK, Command
<1>2. PICK raw \in Outcomes(step, wr, od[wr.sector]) :
        /\ od' = [od EXCEPT ![wr.sector] = raw]
        /\ (PassWrite /\ ReadBack(step, wr, raw)) \/ Failed
  BY DEF Command, Outcomes, Failed
<1>3. raw \in Raw
  BY <1>1, <1>2, OutcomesTyped
<1>4. decodes(raw) => raw = od[wr.sector] \/ (wr.step = "commit" /\ raw = encode(wr))
  BY <1>1, OutcomeShape DEF BootInv
<1> QED BY <1>2, <1>3, <1>4 DEF ReadBack

LEMMA CommandInv ==
  ASSUME BootInv, NEW step \in Steps, Command(step)
  PROVE  BootInv'
<1>1. PICK raw \in Raw :
        /\ od' = [od EXCEPT ![wr.sector] = raw]
        /\ decodes(raw) => raw = od[wr.sector] \/ (wr.step = "commit" /\ raw = encode(wr))
        /\ (PassWrite /\ raw = Wanted(step, wr)) \/ Failed
  BY CommandEffect
<1>2. TypeOK /\ TypeOK' /\ wr.step = step /\ wr.sector \in Sectors
  BY CommandTyped DEF BootInv, TypeOK, Command
<1>3. phase \in {"exec", "run"}
  BY <1>2 DEF BootInv, Quiet, Steps
<1>4. od'[wr.sector] = raw /\ \A s \in Sectors \ {wr.sector} : od'[s] = od[s]
  BY <1>1, <1>2 DEF TypeOK
\* Seen from a set of states, a sector that decodes now decoded before, or the
\* write in flight has just been committed.
<1>5. ASSUME NEW S, NEW s \in In(od', S)
      PROVE  \/ s \in In(od, S) /\ od'[s] = od[s]
             \/ s = wr.sector /\ wr.step = "commit" /\ wr.state \in S /\ od'[s].seq = wr.seq
  BY <1>1, <1>4 DEF In, encode
<1>6. CASE PassWrite /\ raw = Wanted(step, wr)
  <2>1. /\ wr.step = "erase" => wr' = [wr EXCEPT !.step = "body"] /\ raw = BLANK
        /\ wr.step = "body" => wr' = [wr EXCEPT !.step = "commit"] /\ raw = body(wr)
        /\ wr.step = "commit" => wr' = Idle
    BY <1>2, <1>6 DEF PassWrite, Wanted, FollowedBy
  <2>2. /\ wr.step # "commit" => wr'.sector = wr.sector /\ wr'.seq = wr.seq
                                   /\ wr'.state = wr.state /\ wr'.step # "idle" /\ ~decodes(raw)
        /\ wr.step = "commit" => wr'.step = "idle"
        /\ wr'.step # "erase"
    BY <1>2, <2>1 DEF TypeOK, Steps, Idle, decodes, BLANK, body, State
  <2>3. UNCHANGED <<image, phase, boot, todo, upl>>
    BY <1>6 DEF PassWrite
  <2>4. WriteShape'
    BY <1>2, <1>4, <2>1, <2>2 DEF WriteShape, body, TypeOK, Idle, Steps
  <2>5. Quiet'
    BY <1>3, <2>3 DEF BootInv, Quiet
  <2>6. SparesValid'
    BY <1>2, <1>4, <2>2 DEF SparesValid, Writing, In, Steps
  <2>7. PlanShape'
    <3> SUFFICES ASSUME phase = "exec" PROVE PlanShape'
      BY <2>3 DEF PlanShape
    <3>1. Writing /\ PlannedWrite(wr, todo)
      BY <1>2 DEF BootInv, PlanShape, Writing, Steps
    <3>2. todo # {} => \A s : s \in In(od', {"valid"}) => s \in In(od, {"valid"})
      BY <1>5, <3>1 DEF PlannedWrite
    <3>3. ASSUME NEW w \in todo
          PROVE  w.sector \notin In(od', {"valid"}) /\ PlannedWrite(w, todo \ {w})'
      BY <2>3, <3>2 DEF BootInv, PlanShape, PlannedWrite, In
    <3>4. Writing' => PlannedWrite(wr, todo)'
      BY <1>5, <2>2, <2>3, <3>1 DEF PlannedWrite, Writing, In
    <3>5. ASSUME NEW s \in In(od', {"pending_verify"})
          PROVE  od'[s].seq = boot.seq \/ \E w \in todo : w.sector = s
      <4>1. CASE s = wr.sector /\ wr.step = "commit" /\ wr.state = "pending_verify" /\ od'[s].seq = wr.seq
        BY <3>1, <4>1 DEF PlannedWrite
      <4>2. CASE s \in In(od, {"pending_verify"}) /\ od'[s] = od[s]
        <5>1. wr.step = "erase" => s # wr.sector
          BY <1>4, <2>2 DEF In
        <5> QED BY <4>2, <5>1 DEF BootInv, PlanShape
      <4> QED BY <1>5, <4>1, <4>2
    <3> QED BY <2>2, <2>3, <3>3, <3>4, <3>5 DEF PlanShape, PlannedWrite, Writing
  <2>8. RunShape'
    BY <1>2, <1>5, <2>2, <2>3 DEF BootInv, RunShape, Writing, Steps
  <2> QED BY <1>2, <2>4, <2>5, <2>6, <2>7, <2>8 DEF BootInv
<1>7. CASE Failed
  <2>1. wr'.step = "idle" /\ phase' \in {"halt", "run"} /\ UNCHANGED <<image, boot, upl>>
    BY <1>3, <1>7 DEF Failed, FailWrite, Idle
  <2>2. (phase' = "run" => phase = "run") /\ (phase' = "halt" => phase = "exec")
    BY <1>3, <1>7 DEF Failed, FailWrite
  <2>3. WriteShape' /\ SparesValid' /\ PlanShape'
    BY <2>1 DEF WriteShape, SparesValid, PlanShape, Writing
  <2>4. Quiet'
    BY <1>3, <2>1, <2>2 DEF BootInv, Quiet
  <2>5. RunShape'
    BY <1>2, <1>5, <2>1, <2>2 DEF BootInv, RunShape, Writing, Steps
  <2> QED BY <1>2, <2>3, <2>4, <2>5 DEF BootInv
<1> QED BY <1>1, <1>6, <1>7

\* A state with no write in flight and no plan satisfies the write and plan parts.
LEMMA NoWriteInv ==
  ASSUME wr.step = "idle", phase # "exec"
  PROVE  WriteShape /\ SparesValid /\ PlanShape
  BY DEF WriteShape, SparesValid, PlanShape, Writing

\* What plan_boot asks for satisfies PlanShape before the first write.
LEMMA PlanInv ==
  ASSUME BootInv, NEW ok \in SUBSET Slots, NEW plan \in plan_boot(od, ok),
         plan.boot = "slot", Proceed(plan), phase = "plan"
  PROVE  BootInv'
<1>1. TypeOK /\ wr.step = "idle" /\ wr' = wr /\ od' = od /\ phase' = "exec" /\ upl' = upl
      /\ boot' = [slot |-> plan.slot, seq |-> plan.seq] /\ todo' = plan.writes
  BY DEF BootInv, Quiet, Proceed
<1>2. plan \in Plan
  BY <1>1, PlanTyped DEF TypeOK
<1>3. TypeOK'
  BY <1>1, <1>2 DEF Proceed, TypeOK, Plan
<1>4. ASSUME plan \in FirstBoot(ok), Ok(od) = {}
      PROVE  PlanShape' /\ boot'.slot = slot_of(boot'.seq)
  <2>1. In(od, {"valid"}) = {} /\ In(od, {"pending_verify"}) = {}
    BY <1>4 DEF Ok, In, State
  <2>2. PICK s \in Sectors : /\ plan.slot = 0 /\ plan.seq = 1
                             /\ plan.writes = {[sector |-> s, seq |-> 1, state |-> "valid"]}
    BY <1>4 DEF FirstBoot, Halt
  <2>3. slot_of(1) = 0
    BY DEF slot_of
  <2> QED BY <1>1, <2>1, <2>2, <2>3 DEF PlanShape, PlannedWrite, Writing
<1>5. ASSUME NEW c \in Candidates(od, ok),
             plan = [boot |-> "slot", slot |-> slot_of(od[c].seq), seq |-> od[c].seq,
                     writes |-> BootWrites(od, c)]
      PROVE  PlanShape' /\ boot'.slot = slot_of(boot'.seq)
  <2>1. boot'.slot = slot_of(boot'.seq) /\ boot'.seq = od[c].seq /\ todo' = BootWrites(od, c)
    BY <1>1, <1>5
  <2>2. ASSUME NEW w \in BootWrites(od, c)
        PROVE  /\ w.sector \notin In(od, {"valid"}) /\ w.state # "valid"
               /\ w.state = "pending_verify" => w.seq = od[c].seq
    BY DEF BootWrites, Rewrite, In
  <2>3. \A s \in In(od, {"pending_verify"}) : \E w \in BootWrites(od, c) : w.sector = s
    <3> TAKE s \in In(od, {"pending_verify"})
    <3>1. Rewrite(od, s, "aborted") \in BootWrites(od, c)
      BY DEF BootWrites
    <3>2. Rewrite(od, s, "aborted").sector = s
      BY DEF Rewrite
    <3> QED BY <3>1, <3>2
  <2> QED BY <1>1, <2>1, <2>2, <2>3 DEF PlanShape, PlannedWrite, Writing
<1>6. PlanShape' /\ boot'.slot = slot_of(boot'.seq)
  <2>1. CASE Ok(od) = {}
    BY <1>4, <2>1 DEF plan_boot, Halt
  <2>2. CASE Ok(od) # {}
    <3>1. PICK c \in Sectors : /\ Latest(od, Candidates(od, ok), c)
                               /\ plan = [boot |-> "slot", slot |-> slot_of(od[c].seq),
                                          seq |-> od[c].seq, writes |-> BootWrites(od, c)]
      BY <2>2 DEF plan_boot, Halt
    <3> QED BY <1>5, <3>1 DEF Latest
  <2> QED BY <2>1, <2>2
<1>7. WriteShape' /\ SparesValid' /\ RunShape'
  BY <1>1 DEF WriteShape, SparesValid, RunShape, Writing
<1>8. Quiet'
  BY <1>1, <1>6 DEF BootInv, Quiet
<1> QED BY <1>3, <1>6, <1>7, <1>8 DEF BootInv

\* A bootloader step that only moves on, or halts, without an entry write.
LEMMA MoveInv ==
  ASSUME BootInv, TypeOK', phase \notin {"exec", "run"} \/ (phase = "exec" /\ wr.step = "idle"),
         phase' \notin {"exec", "run"}, UNCHANGED <<wr, upl>>
  PROVE  BootInv'
<1>1. wr'.step = "idle" /\ upl'.stage = "none"
  BY DEF BootInv, Quiet
<1>2. WriteShape' /\ SparesValid' /\ PlanShape'
  BY <1>1 DEF WriteShape, SparesValid, PlanShape, Writing
<1> QED BY <1>1, <1>2 DEF BootInv, Quiet, RunShape

LEMMA StartWriteInv ==
  ASSUME BootInv, TypeOK', StartWrite
  PROVE  BootInv'
<1>1. CASE HaltWith("OtadataWrite")
  BY <1>1, MoveInv DEF StartWrite, HaltWith
<1>2. CASE ~HaltWith("OtadataWrite")
  <2>1. PICK w \in todo :
          /\ todo' = todo \ {w}
          /\ wr' = [sector |-> w.sector, seq |-> w.seq, state |-> w.state, step |-> "erase"]
          /\ UNCHANGED <<od, image, phase, boot, upl>>
    BY <1>2 DEF StartWrite
  <2>2. phase = "exec" /\ phase' = "exec" /\ wr.step = "idle"
    BY <2>1 DEF StartWrite
  <2>3. w.sector \notin In(od, {"valid"}) /\ PlannedWrite(w, todo \ {w})
    BY <2>2 DEF BootInv, PlanShape
  <2>4. WriteShape' /\ SparesValid' /\ RunShape' /\ Quiet'
    BY <2>1, <2>2, <2>3 DEF BootInv, WriteShape, SparesValid, RunShape, Quiet
  <2>5. PlanShape'
    <3>1. ASSUME NEW v \in todo'
          PROVE  v.sector \notin In(od', {"valid"}) /\ PlannedWrite(v, todo \ {v})'
      BY <2>1, <2>2 DEF BootInv, PlanShape, PlannedWrite
    <3>2. PlannedWrite(wr, todo)'
      BY <2>1, <2>3 DEF PlannedWrite
    <3>3. ASSUME NEW s \in In(od', {"pending_verify"})
          PROVE  \/ od'[s].seq = boot'.seq
                 \/ \E v \in todo' : v.sector = s
                 \/ wr'.step = "erase" /\ wr'.sector = s
      BY <2>1, <2>2 DEF BootInv, PlanShape
    <3> QED BY <3>1, <3>2, <3>3 DEF PlanShape, PlannedWrite
  <2> QED BY <2>4, <2>5 DEF BootInv
<1> QED BY <1>1, <1>2

LEMMA LoadImageInv ==
  ASSUME BootInv, TypeOK', LoadImage
  PROVE  BootInv'
<1>1. CASE \E why \in {"Image", "FlashRead", "Mmu"} : HaltWith(why)
  BY <1>1, MoveInv DEF LoadImage, HaltWith
<1>2. CASE phase' = "run" /\ UNCHANGED <<od, image, boot, todo, wr, upl>>
  <2>1. phase = "exec" /\ wr.step = "idle" /\ todo = {} /\ wr' = wr
    BY <1>2 DEF LoadImage
  <2>2. WriteShape' /\ SparesValid' /\ PlanShape'
    BY <1>2, <2>1 DEF WriteShape, SparesValid, PlanShape, Writing
  <2>3. \A s \in In(od, {"pending_verify"}) : od[s].seq = boot.seq
    BY <2>1 DEF BootInv, PlanShape
  <2>4. RunShape'
    BY <1>2, <2>1, <2>3 DEF RunShape, Writing
  <2> QED BY <1>2, <2>1, <2>2, <2>4 DEF BootInv, Quiet
<1> QED BY <1>1, <1>2 DEF LoadImage

\* A call that starts no write: an error, or an upload step.
LEMMA NoCallInv ==
  ASSUME BootInv, TypeOK', AppAlive,
         UNCHANGED <<od, phase, boot, todo, wr>>
  PROVE  BootInv'
<1>1. phase = "run" /\ wr.step = "idle" /\ phase' = "run" /\ wr' = wr
  BY DEF AppAlive
<1>2. WriteShape' /\ SparesValid' /\ PlanShape'
  BY <1>1 DEF WriteShape, SparesValid, PlanShape, Writing
<1>3. RunShape'
  BY <1>1 DEF BootInv, RunShape, Writing
<1> QED BY <1>1, <1>2, <1>3 DEF BootInv, Quiet

\* A call that starts the write w.
LEMMA CallInv ==
  ASSUME BootInv, TypeOK', AppAlive, NEW w \in Write,
         wr' = [sector |-> w.sector, seq |-> w.seq, state |-> w.state, step |-> "erase"],
         UNCHANGED <<od, phase, boot, todo>>,
         w.state # "pending_verify",
         w.state = "valid" => image'[slot_of(w.seq)] = "proven",
         w.sector \in In(od, {"valid"}) =>
           1 - w.sector \in In(od, {"valid"}) /\ od[w.sector].seq <= od[1 - w.sector].seq
  PROVE  BootInv'
<1>1. phase = "run" /\ phase' = "run"
  BY DEF AppAlive
<1>2. WriteShape' /\ SparesValid' /\ PlanShape'
  BY <1>1 DEF WriteShape, SparesValid, PlanShape, Writing
<1>3. RunShape'
  BY <1>1 DEF BootInv, RunShape, Writing
<1> QED BY <1>1, <1>2, <1>3 DEF BootInv, Quiet

LEMMA InvNext == BootInv /\ [Next]_vars => BootInv'
<1> SUFFICES ASSUME BootInv, [Next]_vars PROVE BootInv'
  OBVIOUS
<1>0. TypeOK /\ TypeOK'
  BY TypeNext DEF BootInv
<1>1. CASE PowerOn \/ SetFlashSize \/ ReadLayout \/ FlashReinit
  BY <1>0, <1>1, MoveInv DEF PowerOn, SetFlashSize, ReadLayout, FlashReinit, Goto, HaltWith
<1>2. CASE PlanBoot
  <2>1. CASE ReadFaults /\ HaltWith("FlashRead")
    BY <1>0, <1>2, <2>1, MoveInv DEF PlanBoot, read_otadata, HaltWith
  <2>2. CASE \E ok \in ImageOk : \E plan \in plan_boot(od, ok) :
               IF plan.boot = "slot" THEN Proceed(plan) ELSE HaltWith(plan.boot)
    <3>1. PICK ok \in ImageOk : \E plan \in plan_boot(od, ok) :
            IF plan.boot = "slot" THEN Proceed(plan) ELSE HaltWith(plan.boot)
      BY <2>2
    <3>2. PICK plan \in plan_boot(od, ok) :
            IF plan.boot = "slot" THEN Proceed(plan) ELSE HaltWith(plan.boot)
      BY <3>1
    <3>3. ok \in SUBSET Slots /\ phase = "plan"
      BY <1>2 DEF ImageOk, PlanBoot
    <3>4. CASE plan.boot = "slot"
      BY <3>2, <3>3, <3>4, PlanInv
    <3>5. CASE plan.boot # "slot"
      BY <1>0, <3>2, <3>3, <3>5, MoveInv DEF HaltWith
    <3> QED BY <3>4, <3>5
  <2> QED BY <1>2, <2>1, <2>2 DEF PlanBoot, read_otadata
<1>3. CASE StartWrite
  BY <1>0, <1>3, StartWriteInv
<1>4. CASE LoadImage
  BY <1>0, <1>4, LoadImageInv
<1>5. CASE WriteStep
  BY <1>5, CommandInv DEF WriteStep, EraseSector, ProgramBody, ProgramCommit, Steps
<1>6. CASE Confirm
  <2>1. CASE wr' = wr
    BY <1>0, <1>6, <2>1, NoCallInv DEF Confirm
  <2>2. CASE wr' # wr
    <3>1. PICK w \in confirm(od) :
            wr' = [sector |-> w.sector, seq |-> w.seq, state |-> w.state, step |-> "erase"]
      BY <1>6, <2>2 DEF Confirm, Transition
    <3>2. PICK s \in In(od, {"pending_verify"}) : w = Rewrite(od, s, "valid")
      BY <3>1 DEF confirm
    <3>3. w.sector = s /\ w.seq = od[s].seq /\ w.state = "valid" /\ w \in Write
      BY <1>0, <3>1, <3>2, TransitionsTyped DEF Rewrite, TypeOK
    <3>4. slot_of(w.seq) = boot.slot
      BY <1>6, <3>2, <3>3 DEF BootInv, RunShape, Quiet, Confirm, AppAlive
    <3>5. image'[slot_of(w.seq)] = "proven"
      BY <1>0, <1>6, <3>1, <3>4 DEF Confirm, TypeOK
    <3>6. w.sector \notin In(od, {"valid"})
      BY <3>2, <3>3 DEF In
    <3> QED BY <1>0, <1>6, <3>1, <3>3, <3>5, <3>6, CallInv DEF Confirm
  <2> QED BY <2>1, <2>2
<1>7. CASE Reject
  <2>1. CASE wr' = wr
    BY <1>0, <1>7, <2>1, NoCallInv DEF Reject
  <2>2. CASE wr' # wr
    <3>1. PICK w \in reject(od) :
            wr' = [sector |-> w.sector, seq |-> w.seq, state |-> w.state, step |-> "erase"]
      BY <1>7, <2>2 DEF Reject, Transition
    <3>2. PICK s \in In(od, {"pending_verify"}) : w = Rewrite(od, s, "invalid")
      BY <3>1 DEF reject
    <3>3. w.sector = s /\ w.state = "invalid" /\ w \in Write
      BY <1>0, <3>1, <3>2, TransitionsTyped DEF Rewrite, TypeOK
    <3>4. w.sector \notin In(od, {"valid"})
      BY <3>2, <3>3 DEF In
    <3> QED BY <1>0, <1>7, <3>1, <3>3, <3>4, CallInv DEF Reject
  <2> QED BY <2>1, <2>2
<1>8. ASSUME NEW t \in Slots, Activate(t)
      PROVE  BootInv'
  <2>1. CASE wr' = wr
    BY <1>0, <1>8, <2>1, NoCallInv DEF Activate
  <2>2. CASE wr' # wr
    <3>1. PICK w \in activate(od, t) :
            wr' = [sector |-> w.sector, seq |-> w.seq, state |-> w.state, step |-> "erase"]
      BY <1>8, <2>2 DEF Activate, Transition
    <3>2. /\ w \in Write /\ w.state = "new"
          /\ \E v \in Sectors \ {w.sector} : Latest(od, In(od, {"valid"}), v)
      BY <3>1 DEF activate
    <3>3. Latest(od, In(od, {"valid"}), 1 - w.sector)
      BY <3>2 DEF Write, Sectors
    <3> QED BY <1>0, <1>8, <3>1, <3>2, <3>3, CallInv DEF Activate, Latest
  <2> QED BY <2>1, <2>2
<1>9. CASE UploadOpen \/ UploadErase \/ UploadHeader \/ UploadFinish \/ UploadAbort
  BY <1>0, <1>9, NoCallInv DEF UploadOpen, UploadErase, UploadHeader, UploadFinish, UploadAbort
<1>10. CASE PowerCut
  <2>1. phase' = "off" /\ wr'.step = "idle" /\ upl'.stage = "none"
    BY <1>10 DEF PowerCut, Idle, NoUpload
  <2>2. WriteShape' /\ SparesValid' /\ PlanShape'
    BY <2>1 DEF WriteShape, SparesValid, PlanShape, Writing
  <2> QED BY <1>0, <2>1, <2>2 DEF BootInv, Quiet, RunShape
<1>11. CASE UNCHANGED vars
  BY <1>0, <1>11 DEF vars, BootInv, WriteShape, Quiet, SparesValid, PlanShape, PlannedWrite,
     RunShape, Writing
<1> QED
  BY <1>1, <1>2, <1>3, <1>4, <1>5, <1>6, <1>7, <1>8, <1>9, <1>10, <1>11 DEF Next, BootStep, AppStep

LEMMA InvInit == Init => BootInv
<1> SUFFICES ASSUME Init PROVE BootInv
  OBVIOUS
<1>1. phase = "off" /\ wr.step = "idle" /\ upl.stage = "none"
  BY DEF Init, Idle, NoUpload
<1> QED BY <1>1, TypeInit, NoWriteInv DEF BootInv, Quiet, RunShape

\* The inductive invariant holds in every reachable state.
THEOREM InvCorrect == Spec => []BootInv
  BY InvInit, InvNext, PTL DEF Spec

-----------------------------------------------------------------------------
(* Action properties.                                                      *)

\* The otadata sectors change by one flash command at a time, whole or not.
LEMMA SectorStep ==
  ASSUME BootInv, [Next]_vars, od' # od
  PROVE  /\ wr.step \in Steps /\ UNCHANGED image
         /\ \E raw \in Outcomes(wr.step, wr, od[wr.sector]) : od' = [od EXCEPT ![wr.sector] = raw]
<1>1. CASE WriteStep
  <2>1. PICK step \in Steps : Command(step)
    BY <1>1 DEF WriteStep, EraseSector, ProgramBody, ProgramCommit, Steps
  <2>2. wr.step = step /\ UNCHANGED image
    BY <2>1 DEF Command, PassWrite, FailWrite
  <2> QED BY <2>1, <2>2 DEF Command, Outcomes
<1>2. CASE PowerCut
  <2>1. wr.step # "idle"
    BY <1>2 DEF PowerCut, BootInv, TypeOK
  <2> QED BY <1>2, <2>1 DEF PowerCut, BootInv, TypeOK
<1>3. CASE BootStep
  BY <1>3 DEF BootStep, PowerOn, SetFlashSize, ReadLayout, FlashReinit, PlanBoot, StartWrite,
     LoadImage, Goto, HaltWith, Proceed
<1>4. CASE AppStep
  BY <1>4 DEF AppStep, Confirm, Reject, Activate, UploadOpen, UploadErase, UploadHeader,
     UploadFinish, UploadAbort
<1> QED BY <1>1, <1>2, <1>3, <1>4 DEF Next, vars

\* A commit word is only ever programmed over a body that was read back whole.
THEOREM CommitWordVerifiedCorrect == Spec => CommitWordVerified
<1> DEFINE Verified == \A s \in Sectors :
             od[s].commit # "set" /\ od'[s].commit = "set" => od[s].state \in State
<1>1. BootInv /\ [Next]_vars => [Verified]_vars
  <2> SUFFICES ASSUME BootInv, [Next]_vars, NEW s \in Sectors,
                      od[s].commit # "set", od'[s].commit = "set"
               PROVE  od[s].state \in State
    BY DEF Verified
  <2>1. PICK raw \in Outcomes(wr.step, wr, od[wr.sector]) : od' = [od EXCEPT ![wr.sector] = raw]
    BY SectorStep
  <2>2. wr.step \in Steps
    BY SectorStep
  <2>3. s = wr.sector /\ raw.commit = "set"
    BY <2>1 DEF BootInv, TypeOK
  <2>4. wr.step = "commit"
    BY <2>1, <2>2, <2>3 DEF Outcomes, Between, Done, Torn, BLANK, body, Steps, BootInv, WriteShape
  <2> QED BY <2>3, <2>4 DEF BootInv, WriteShape, TypeOK, body
<1> QED BY <1>1, InvCorrect, PTL DEF Spec, CommitWordVerified

\* While nobody uploads during a trial, an upload keeps clear of the confirmed
\* image's slot to its end.
LEMMA UploadNext ==
  ASSUME TrialUploads = FALSE, BootInv, BootInv', UploadShape, [Next]_vars
  PROVE  UploadShape'
<1> SUFFICES ASSUME upl'.stage # "none" PROVE UploadShape'
  BY DEF UploadShape
<1>0. phase' = "run" /\ TypeOK
  BY DEF BootInv, Quiet
<1>1. CASE upl.stage = "none"
  <2>1. UploadOpen
    <3>1. ~BootStep
      BY <1>1 DEF BootStep, PowerOn, SetFlashSize, ReadLayout, FlashReinit, PlanBoot, StartWrite,
         LoadImage, Goto, HaltWith, Proceed
    <3>2. ~WriteStep
      BY <1>1 DEF WriteStep, EraseSector, ProgramBody, ProgramCommit, Command, PassWrite, FailWrite
    <3>3. ~PowerCut
      BY DEF PowerCut, NoUpload
    <3>4. ~UNCHANGED vars
      BY <1>1 DEF vars
    <3>5. ~(Confirm \/ Reject \/ \E t \in Slots : Activate(t))
      BY <1>1 DEF Confirm, Reject, Activate
    <3>6. ~(UploadErase \/ UploadHeader \/ UploadFinish \/ UploadAbort)
      BY <1>1 DEF UploadErase, UploadHeader, UploadFinish, UploadAbort, NoUpload
    <3> QED BY <3>1, <3>2, <3>3, <3>4, <3>5, <3>6 DEF Next, AppStep
  <2>2. In(od, {"pending_verify"}) = {} /\ ~Writing /\ UNCHANGED <<od, wr>>
    BY <2>1 DEF UploadOpen, image_outcome, AppAlive, Writing
  <2>3. In(od, {"valid", "pending_verify"}) = In(od, {"valid"})
    BY <2>2 DEF In
  <2>4. PICK v \in Sectors : /\ Latest(od, In(od, {"valid"}), v)
                             /\ upl'.slot = 1 - slot_of(od[v].seq)
    BY <2>1, <2>3 DEF UploadOpen, write_target
  <2>5. ASSUME NEW s \in Sectors, Latest(od, In(od, {"valid"}), s)
        PROVE  slot_of(od[s].seq) # upl'.slot
    <3>1. od[s].seq \in Nat /\ od[v].seq \in Nat
      BY <1>0, MaxSeqAssumption DEF TypeOK, Raw
    <3>2. od[s].seq = od[v].seq
      BY <2>4, <2>5, <3>1 DEF Latest
    <3>3. slot_of(od[v].seq) \in Slots
      BY <3>1, SlotOf
    <3> QED BY <2>4, <3>2, <3>3 DEF Slots
  <2> QED BY <2>2, <2>5 DEF UploadShape, Writing
<1>2. CASE upl.stage # "none"
  <2>0. phase = "run"
    BY <1>2 DEF BootInv, Quiet
  <2>1. upl'.slot = upl.slot
    <3>1. CASE WriteStep
      BY <3>1 DEF WriteStep, EraseSector, ProgramBody, ProgramCommit, Command, PassWrite, FailWrite
    <3>2. CASE Confirm \/ Reject \/ \E t \in Slots : Activate(t)
      BY <3>2 DEF Confirm, Reject, Activate
    <3>3. CASE UploadErase \/ UploadHeader
      BY <1>0, <3>3 DEF UploadErase, UploadHeader, TypeOK
    <3>4. CASE UNCHANGED vars
      BY <3>4 DEF vars
    <3>5. ~(UploadOpen \/ UploadFinish \/ UploadAbort \/ PowerCut)
      BY <1>2 DEF UploadOpen, UploadFinish, UploadAbort, PowerCut, NoUpload
    <3>6. ~BootStep
      BY <2>0 DEF BootStep, PowerOn, SetFlashSize, ReadLayout, FlashReinit, PlanBoot, StartWrite,
         LoadImage
    <3> QED BY <3>1, <3>2, <3>3, <3>4, <3>5, <3>6 DEF Next, AppStep
  <2>2. Writing' => wr'.state = "new"
    <3>1. CASE wr' = wr
      BY <1>2, <3>1 DEF UploadShape, Writing
    <3>2. CASE WriteStep
      BY <1>0, <1>2, <3>2 DEF UploadShape, Writing, WriteStep, EraseSector, ProgramBody,
         ProgramCommit, Command, PassWrite, FailWrite, Idle, TypeOK
    <3>3. CASE Confirm
      BY <1>2, <3>3 DEF UploadShape, Writing, Confirm, Transition, confirm
    <3>4. CASE Reject
      BY <1>2, <3>4 DEF UploadShape, Writing, Reject, Transition, reject
    <3>5. ASSUME NEW t \in Slots, Activate(t)
          PROVE  Writing' => wr'.state = "new"
      BY <1>2, <3>5 DEF UploadShape, Writing, Activate, Transition, activate
    <3> QED
      BY <1>0, <2>0, <3>1, <3>2, <3>3, <3>4, <3>5 DEF Next, BootStep, PowerOn, SetFlashSize,
         ReadLayout, FlashReinit, PlanBoot, StartWrite, LoadImage, AppStep, UploadOpen,
         UploadErase, UploadHeader, UploadFinish, UploadAbort, PowerCut, vars
  <2>3. CASE od' = od
    BY <1>2, <2>1, <2>2, <2>3 DEF UploadShape
  <2>4. CASE od' # od
    <3>1. wr.step \in Steps
      BY <2>4, SectorStep
    <3>2. PICK raw \in Outcomes(wr.step, wr, od[wr.sector]) : od' = [od EXCEPT ![wr.sector] = raw]
      BY <2>4, SectorStep
    <3>3. wr.state = "new" /\ Writing /\ wr.sector \in Sectors
      BY <1>0, <1>2, <3>1 DEF UploadShape, Writing, Steps, TypeOK
    <3>4. raw # od[wr.sector]
      BY <1>0, <2>4, <3>2 DEF TypeOK
    <3>5. decodes(raw) => raw.state = "new"
      BY <1>0, <3>1, <3>2, <3>3, <3>4, OutcomeShape DEF BootInv, encode
    <3>6. ASSUME NEW S, "new" \notin S, NEW s \in In(od', S)
          PROVE  s \in In(od, S) /\ od'[s] = od[s] /\ s # wr.sector
      BY <1>0, <3>2, <3>3, <3>5, <3>6 DEF In, TypeOK
    <3>7. In(od', {"pending_verify"}) = {}
      BY <1>2, <3>6 DEF UploadShape
    <3>8. ASSUME NEW s \in Sectors, Latest(od', In(od', {"valid"}), s)
          PROVE  slot_of(od'[s].seq) # upl'.slot
      <4>1. s \in In(od, {"valid"}) /\ od'[s] = od[s] /\ s # wr.sector
        BY <3>6, <3>8 DEF Latest
      <4>2. s = 1 - wr.sector
        BY <3>3, <4>1 DEF Sectors
      <4>3. ASSUME NEW t \in In(od, {"valid"})
            PROVE  od[t].seq <= od[s].seq
        <5>1. CASE t = wr.sector
          BY <3>3, <4>2, <5>1 DEF BootInv, SparesValid
        <5>2. CASE t # wr.sector
          <6>1. t = s
            BY <3>3, <4>2, <5>2 DEF In, Sectors
          <6>2. od[s].seq \in Nat
            BY <1>0, MaxSeqAssumption DEF TypeOK, Raw
          <6> QED BY <6>1, <6>2
        <5> QED BY <5>1, <5>2
      <4> QED BY <1>2, <2>1, <4>1, <4>3 DEF UploadShape, Latest
    <3> QED BY <2>2, <3>7, <3>8 DEF UploadShape
  <2> QED BY <2>3, <2>4
<1> QED BY <1>1, <1>2

\* UploadCorrect: an upload never has the slot of the confirmed image as its
\* target, whatever transitions come between write_target and its appends, if
\* callers do not upload during a trial.
THEOREM UploadCorrect ==
  ASSUME TrialUploads = FALSE
  PROVE  Spec => []UploadShape
<1>1. Init => UploadShape
  BY DEF Init, NoUpload, UploadShape
<1>2. BootInv /\ BootInv' /\ UploadShape /\ [Next]_vars => UploadShape'
  BY UploadNext
<1> QED BY <1>1, <1>2, InvCorrect, PTL DEF Spec

\* A flash command leaves a confirmed image vouched for.
LEMMA SectorKeepsAnchor ==
  ASSUME BootInv, [Next]_vars, od' # od, NEW s \in Sectors, Anchor(s)
  PROVE  \E t \in Sectors : Anchor(t)' /\ od'[t].seq >= od[s].seq
<1>1. wr.step \in Steps /\ image' = image /\ TypeOK
  BY SectorStep DEF BootInv
<1>2. PICK raw \in Outcomes(wr.step, wr, od[wr.sector]) : od' = [od EXCEPT ![wr.sector] = raw]
  BY SectorStep
<1>3. PICK w \in Sectors : w = wr.sector
  BY <1>1 DEF TypeOK
<1>4. Writing /\ phase \in {"exec", "run"} /\ wr.seq \in Nat
  BY <1>1 DEF Writing, Steps, BootInv, Quiet, TypeOK, SeqNo
<1> DEFINE u == 1 - w
<1>5. u \in Sectors /\ u # w /\ (\A t \in Sectors : t = u \/ t = w)
  BY <1>3 DEF Sectors
<1>6. \A t \in Sectors : od[t].seq \in Nat
  BY <1>1, MaxSeqAssumption DEF TypeOK, Raw
<1>7. Anchor(u) /\ od[u].seq = od[s].seq
  <2>1. CASE s = u
    BY <2>1
  <2>2. CASE s = w
    <3>1. u \in In(od, {"valid"}) /\ od[w].seq <= od[u].seq
      BY <1>3, <1>4, <2>2 DEF BootInv, SparesValid, Anchor, Latest
    <3>2. od[u].seq = od[s].seq
      BY <1>5, <1>6, <2>2, <3>1 DEF Anchor, Latest
    <3> QED BY <2>2, <3>1, <3>2 DEF Anchor, Latest
  <2> QED BY <1>5, <2>1, <2>2
<1>8. od'[u] = od[u] /\ od'[w] = raw
  BY <1>1, <1>2, <1>3, <1>5 DEF TypeOK
<1>9. raw # od[w]
  BY <1>1, <1>2, <1>3 DEF TypeOK
<1>10. u \in In(od', {"valid"})
  BY <1>7, <1>8 DEF Anchor, Latest, In
<1>11. CASE w \notin In(od', {"valid"})
  <2>1. Latest(od', In(od', {"valid"}), u)
    <3>1. \A t \in In(od', {"valid"}) : t = u
      BY <1>5, <1>11 DEF In
    <3> QED BY <1>5, <1>6, <1>8, <1>10, <3>1 DEF Latest
  <2> QED BY <1>1, <1>5, <1>6, <1>7, <1>8, <2>1 DEF Anchor
<1>12. CASE w \in In(od', {"valid"})
  <2>1. wr.state = "valid" /\ raw = encode(wr)
    <3>1. decodes(raw) /\ raw.state = "valid"
      BY <1>8, <1>12 DEF In
    <3>2. raw = encode(wr)
      BY <1>1, <1>2, <1>3, <1>9, <3>1, OutcomeShape DEF BootInv
    <3> QED BY <3>1, <3>2 DEF encode
  <2>2. od'[w].seq = wr.seq
    BY <1>8, <2>1 DEF encode
  <2>3. phase = "run"
    <3>1. In(od, {"valid"}) # {}
      BY <1>7 DEF Anchor, Latest
    <3> QED BY <1>4, <2>1, <3>1 DEF BootInv, PlanShape, PlannedWrite
  <2>4. image[slot_of(wr.seq)] = "proven"
    BY <1>4, <2>1, <2>3 DEF BootInv, RunShape
  <2>5. CASE wr.seq <= od[u].seq
    <3>1. Latest(od', In(od', {"valid"}), u)
      <4>1. \A t \in In(od', {"valid"}) : t = u \/ t = w
        BY <1>5 DEF In
      <4> QED BY <1>5, <1>6, <1>8, <1>10, <2>2, <2>5, <4>1 DEF Latest
    <3> QED BY <1>1, <1>5, <1>6, <1>7, <1>8, <3>1 DEF Anchor
  <2>6. CASE wr.seq > od[u].seq
    <3>1. Latest(od', In(od', {"valid"}), w)
      <4>1. \A t \in In(od', {"valid"}) : t = u \/ t = w
        BY <1>5 DEF In
      <4> QED BY <1>4, <1>5, <1>6, <1>8, <1>12, <2>2, <2>6, <4>1 DEF Latest
    <3> QED BY <1>1, <1>3, <1>4, <1>5, <1>6, <1>7, <2>2, <2>4, <2>6, <3>1 DEF Anchor
  <2> QED BY <1>4, <1>5, <1>6, <2>5, <2>6
<1> QED BY <1>11, <1>12

\* Only an upload takes an image's proof away, and it keeps clear of the
\* confirmed image's slot.
LEMMA ImageKeepsAnchor ==
  ASSUME BootInv, UploadShape, [Next]_vars, od' = od, NEW s \in Sectors, Anchor(s)
  PROVE  Anchor(s)'
<1>1. slot_of(od[s].seq) \in Slots /\ TypeOK
  BY SlotOf, MaxSeqAssumption DEF BootInv, TypeOK, Raw
<1>2. image'[slot_of(od[s].seq)] = "proven"
  <2>1. CASE image' = image
    BY <2>1 DEF Anchor
  <2>2. CASE Confirm
    BY <1>1, <2>2 DEF Confirm, Anchor, TypeOK
  <2>3. CASE UploadErase \/ UploadHeader \/ UploadFinish
    <3>1. slot_of(od[s].seq) # upl.slot
      BY <2>3 DEF UploadShape, Anchor, UploadErase, UploadHeader, UploadFinish
    <3> QED BY <1>1, <2>3, <3>1 DEF UploadErase, UploadHeader, UploadFinish, Anchor, TypeOK
  <2>4. CASE BootStep
    BY <2>1, <2>4 DEF BootStep, PowerOn, SetFlashSize, ReadLayout, FlashReinit, PlanBoot,
       StartWrite, LoadImage, Goto, HaltWith, Proceed
  <2>5. CASE WriteStep
    BY <2>1, <2>5 DEF WriteStep, EraseSector, ProgramBody, ProgramCommit, Command, PassWrite,
       FailWrite
  <2>6. CASE Reject \/ (\E t \in Slots : Activate(t)) \/ UploadOpen \/ UploadAbort
    BY <2>1, <2>6 DEF Reject, Activate, UploadOpen, UploadAbort
  <2>7. CASE PowerCut \/ UNCHANGED vars
    BY <2>1, <2>7 DEF PowerCut, vars
  <2> QED BY <2>2, <2>3, <2>4, <2>5, <2>6, <2>7 DEF Next, AppStep
<1> QED BY <1>2 DEF Anchor

\* No step takes the last pair of a confirmed image and its Valid entry away.
LEMMA AnchorStep ==
  ASSUME BootInv, UploadShape, [Next]_vars, NEW s \in Sectors, Anchor(s)
  PROVE  \E t \in Sectors : Anchor(t)' /\ od'[t].seq >= od[s].seq
<1>1. CASE od' = od
  <2>1. od[s].seq \in Nat
    BY MaxSeqAssumption DEF BootInv, TypeOK, Raw
  <2> QED BY <1>1, <2>1, ImageKeepsAnchor
<1>2. CASE od' # od
  BY <1>2, SectorKeepsAnchor
<1> QED BY <1>1, <1>2

\* Once a confirmed image and its Valid entry stand together, such a pair
\* stands for ever and never gets older, whatever fails and wherever the power
\* is cut, as long as nobody uploads during an undecided trial.
THEOREM AnchorKeptCorrect ==
  ASSUME TrialUploads = FALSE
  PROVE  Spec => AnchorKept
<1> DEFINE Kept == \A s \in Sectors :
             Anchor(s) => \E t \in Sectors : Anchor(t)' /\ od'[t].seq >= od[s].seq
<1>1. BootInv /\ UploadShape /\ [Next]_vars => [Kept]_vars
  BY AnchorStep DEF Kept
<1> QED BY <1>1, InvCorrect, UploadCorrect, PTL DEF Spec, AnchorKept

-----------------------------------------------------------------------------
(* Where every entry comes from.                                           *)

\* The two sectors face each other.
LEMMA Other ==
  ASSUME NEW s \in Sectors
  PROVE  1 - s \in Sectors /\ 1 - s # s /\ \A t \in Sectors : t = s \/ t = 1 - s
  BY DEF Sectors

\* While something is confirmed, the write in flight has it in the other sector.
LEMMA OtherValid ==
  ASSUME BootInv, Writing, In(od, {"valid"}) # {}
  PROVE  1 - wr.sector \in In(od, {"valid"}) /\ wr.sector \in Sectors
<1>1. wr.sector \in Sectors
  BY DEF BootInv, TypeOK
<1>2. PICK v \in In(od, {"valid"}) : TRUE
  OBVIOUS
<1>3. v \in Sectors
  BY DEF In
<1> QED BY <1>1, <1>2, <1>3, Other DEF BootInv, SparesValid

\* What a command, whole, cut or failed, leaves in the two sectors.
LEMMA SectorShape ==
  ASSUME BootInv, wr.step \in Steps,
         NEW raw \in Outcomes(wr.step, wr, od[wr.sector]),
         od' = [od EXCEPT ![wr.sector] = raw]
  PROVE  /\ wr.sector \in Sectors /\ od'[wr.sector] = raw
         /\ \A s \in Sectors : s # wr.sector => od'[s] = od[s]
         /\ decodes(raw) => raw = od[wr.sector] \/ (wr.step = "commit" /\ raw = encode(wr))
<1>1. wr.sector \in Sectors /\ od \in [Sectors -> Raw]
  BY DEF BootInv, TypeOK
<1> QED BY <1>1, OutcomeShape DEF BootInv

\* The parts of ChainShape that speak of the sectors alone, after a command.
LEMMA SectorChain ==
  ASSUME BootInv, ChainShape, wr.step \in Steps,
         NEW raw \in Outcomes(wr.step, wr, od[wr.sector]),
         od' = [od EXCEPT ![wr.sector] = raw], image' = image, tried' = tried
  PROVE  /\ \/ In(od', {"valid"}) # {}
            \/ Virgin /\ Ok(od') = {}
         /\ \A s, t \in Ok(od') : od'[s].seq = od'[t].seq => s = t
         /\ \A s \in In(od', {"new"}) : od'[s].seq \notin tried
<1>1. /\ wr.sector \in Sectors /\ od'[wr.sector] = raw
      /\ \A s \in Sectors : s # wr.sector => od'[s] = od[s]
      /\ decodes(raw) => raw = od[wr.sector] \/ (wr.step = "commit" /\ raw = encode(wr))
  BY SectorShape
<1>2. Writing
  BY DEF Writing, Steps
<1>3. encode(wr).seq = wr.seq /\ encode(wr).state = wr.state
  BY DEF encode
<1>4. \A s \in Ok(od') : (s \in Ok(od) /\ od'[s] = od[s]) \/ (s = wr.sector /\ od'[s] = encode(wr))
  BY <1>1 DEF Ok, In
<1>5. \A s, t \in Ok(od') : od'[s].seq = od'[t].seq => s = t
  BY <1>2, <1>3, <1>4 DEF ChainShape, Unique
<1>6. \A s \in In(od', {"new"}) : od'[s].seq \notin tried
  BY <1>1, <1>2, <1>3 DEF ChainShape, TriedShape, In
<1>7. CASE In(od, {"valid"}) # {}
  <2>1. 1 - wr.sector \in In(od', {"valid"})
    BY <1>1, <1>2, <1>7, OtherValid, Other DEF In
  <2> QED BY <1>5, <1>6, <2>1
<1>8. CASE Virgin
  <2>1. \A s \in Ok(od') : s \in In(od', {"valid"})
    BY <1>2, <1>3, <1>4, <1>8 DEF Virgin, Ok, In
  <2> QED BY <1>5, <1>6, <1>8, <2>1
<1> QED BY <1>7, <1>8 DEF ChainShape

\* A step that moves the board on, or stops it, and writes nothing.
LEMMA MoveChain ==
  ASSUME ChainShape, phase' \notin {"exec", "run"}, halt' # "none" => phase' = "halt",
         UNCHANGED <<od, image, boot, todo, wr, upl, tried>>
  PROVE  ChainShape'
<1>1. Virgin => Virgin'
  BY DEF Virgin, Writing
<1>2. Unique' /\ ExecShape' /\ ConfirmShape' /\ TriedShape' /\ Stopped'
  BY DEF ChainShape, Unique, ExecShape, ConfirmShape, TriedShape, Stopped, Writing
<1> QED BY <1>1, <1>2 DEF ChainShape

\* The plan of a virgin board vouches for the factory image.
LEMMA FirstChain ==
  ASSUME ChainShape, BootInv, phase = "plan", Ok(od) = {},
         NEW ok \in ImageOk, NEW plan \in FirstBoot(ok), plan.boot = "slot", Proceed(plan)
  PROVE  ChainShape'
<1>1. Virgin
  BY DEF ChainShape, Ok, In, State
<1>2. 0 \in ok
  BY DEF FirstBoot, Halt
<1>3. image[0] = "proven"
  BY <1>1, <1>2 DEF Virgin, ImageOk
<1>4. PICK s \in Sectors : /\ plan.slot = 0 /\ plan.seq = 1
                           /\ plan.writes = {[sector |-> s, seq |-> 1, state |-> "valid"]}
  BY DEF FirstBoot, Halt
<1>5. /\ phase' = "exec" /\ boot' = [slot |-> 0, seq |-> 1] /\ ~Writing /\ halt = "none"
      /\ todo' = {[sector |-> s, seq |-> 1, state |-> "valid"]}
      /\ UNCHANGED <<od, image, wr, upl, halt, tried>>
  BY <1>4 DEF Proceed, BootInv, Quiet, ChainShape, Stopped, Writing
<1>6. Virgin'
  BY <1>1, <1>3, <1>5 DEF Virgin, Writing
<1>7. Unique' /\ ConfirmShape' /\ TriedShape' /\ Stopped'
  BY <1>1, <1>5 DEF ChainShape, Virgin, Unique, ConfirmShape, TriedShape, Stopped, Writing, Ok, In, State
<1>8. ExecShape'
  BY <1>1, <1>5 DEF Virgin, ExecShape, Source, Writing, Steps
<1> QED BY <1>6, <1>7, <1>8 DEF ChainShape

\* The plan of a board that has confirmed something.
LEMMA PlanChain ==
  ASSUME ChainShape, BootInv, phase = "plan", Ok(od) # {},
         NEW c \in In(od, {"new", "valid"}), NEW plan,
         plan = [boot |-> "slot", slot |-> slot_of(od[c].seq), seq |-> od[c].seq,
                 writes |-> BootWrites(od, c)],
         Proceed(plan)
  PROVE  ChainShape'
<1>1. PICK v \in In(od, {"valid"}) : v \in Sectors
  BY DEF ChainShape, Virgin, In
<1>2. /\ phase' = "exec" /\ boot'.seq = od[c].seq /\ ~Writing /\ ~Writing' /\ halt = "none"
      /\ todo' = BootWrites(od, c) /\ UNCHANGED <<od, image, wr, upl, halt, tried>>
  BY DEF Proceed, BootInv, Quiet, ChainShape, Stopped, Writing
<1>3. ASSUME NEW w \in BootWrites(od, c)
      PROVE  \/ \E p \in In(od, {"pending_verify"}) :
                  w.sector = p /\ w.seq = od[p].seq /\ w.state = "aborted" /\ w = Rewrite(od, p, "aborted")
             \/ /\ c \in In(od, {"new"}) /\ w.sector = c /\ w.seq = od[c].seq
                /\ w.state = "pending_verify" /\ w = Rewrite(od, c, "pending_verify")
  BY DEF BootWrites, Rewrite
<1>4. \A w \in BootWrites(od, c) : /\ w.sector = 1 - v /\ w.sector \in Ok(od) /\ w.seq = od[w.sector].seq
                                   /\ w.state \in {"aborted", "pending_verify"}
  <2>1. ASSUME NEW s \in Sectors, s \in In(od, {"new", "pending_verify"})
        PROVE  s = 1 - v /\ s \in Ok(od)
    BY <1>1, <2>1, Other DEF In, Ok, State
  <2>2. In(od, {"new"}) \cup In(od, {"pending_verify"}) \subseteq In(od, {"new", "pending_verify"})
    BY DEF In
  <2>3. In(od, {"new", "pending_verify"}) \subseteq Sectors
    BY DEF In
  <2> QED BY <1>3, <2>1, <2>2, <2>3
<1>5. \A u, w \in BootWrites(od, c) : u = w
  <2>1. \A s \in Sectors : ~(s \in In(od, {"pending_verify"}) /\ s \in In(od, {"new"}))
    BY DEF In
  <2>2. \A s \in In(od, {"pending_verify"}) : s \in Sectors
    BY DEF In
  <2> QED BY <1>3, <1>4, <2>1, <2>2
<1>6. Unique' /\ ConfirmShape' /\ Stopped'
  BY <1>2 DEF ChainShape, Unique, ConfirmShape, Stopped, Writing
<1>7. TriedShape'
  <2>1. c \in In(od, {"new"}) \/ c \in In(od, {"valid"})
    BY DEF In
  <2> QED BY <1>2, <2>1 DEF ChainShape, TriedShape, Writing
<1>8. ExecShape'
  <2>1. \A w \in BootWrites(od, c) : w.state = "pending_verify" => Rewrites(w, "new")
    BY <1>3 DEF Rewrites
  <2>2. \A w \in BootWrites(od, c) : \A s \in Ok(od) \ {w.sector} : od[s].seq # w.seq
    BY <1>4 DEF ChainShape, Unique
  <2>3. Source'
    <3>1. CASE c \in In(od, {"valid"})
      <4>1. c \in In(od, {"valid", "pending_verify"}) /\ c \in Sectors
        BY <3>1 DEF In
      <4>2. \A w \in BootWrites(od, c) : w.sector # c
        BY <1>3, <3>1 DEF In
      <4> QED BY <1>2, <4>1, <4>2 DEF Source
    <3>2. CASE c \in In(od, {"new"})
      <4>1. Rewrite(od, c, "pending_verify") \in BootWrites(od, c)
        BY <3>2 DEF BootWrites
      <4>2. Rewrite(od, c, "pending_verify").seq = od[c].seq /\ Rewrite(od, c, "pending_verify").state = "pending_verify"
        BY DEF Rewrite
      <4> QED BY <1>2, <4>1, <4>2 DEF Source
    <3> QED BY <3>1, <3>2 DEF In
  <2> QED BY <1>2, <1>4, <1>5, <2>1, <2>2, <2>3 DEF ExecShape, Rewrites, Writing
<1> QED BY <1>1, <1>2, <1>6, <1>7, <1>8 DEF ChainShape

\* One of the planned writes begins.
LEMMA StartChain ==
  ASSUME ChainShape, BootInv, StartWrite
  PROVE  ChainShape'
<1>1. CASE HaltWith("OtadataWrite")
  BY <1>1, MoveChain DEF HaltWith
<1>2. CASE ~HaltWith("OtadataWrite")
  <2>1. PICK w \in todo :
          /\ todo' = todo \ {w}
          /\ wr' = [sector |-> w.sector, seq |-> w.seq, state |-> w.state, step |-> "erase"]
          /\ UNCHANGED <<od, image, phase, boot, upl, result, halt, tried>>
    BY <1>2 DEF StartWrite
  <2>2. phase = "exec" /\ ~Writing /\ Writing'
    BY <2>1 DEF StartWrite, Writing
  <2>3. todo' = {}
    BY <2>1, <2>2 DEF ChainShape, ExecShape
  <2>4. /\ w.sector \notin In(od, {"valid"})
        /\ \A s \in Ok(od) \ {w.sector} : od[s].seq # w.seq
        /\ w.state # "new"
        /\ w.state = "valid" => w.seq = boot.seq
        /\ w.state = "pending_verify" => Rewrites(w, "new")
    BY <2>2 DEF ChainShape, ExecShape, BootInv, PlanShape
  <2>5. Virgin => Virgin'
    BY <2>1, <2>2 DEF Virgin
  <2>6. Unique'
    BY <2>1, <2>4 DEF ChainShape, Unique
  <2>7. Source'
    <3>1. CASE \E s \in In(od, {"valid", "pending_verify"}) :
                 /\ od[s].seq = boot.seq
                 /\ \A u \in todo : u.sector # s
      BY <2>1, <2>3, <3>1 DEF Source
    <3>2. CASE \E u \in todo : u.state \in {"valid", "pending_verify"} /\ u.seq = boot.seq
      <4>1. w.state \in {"valid", "pending_verify"} /\ w.seq = boot.seq
        BY <2>2, <3>2 DEF ChainShape, ExecShape
      <4> QED BY <2>1, <2>2, <4>1 DEF Source
    <3> QED BY <2>2, <3>1, <3>2 DEF ChainShape, ExecShape, Source
  <2>8. ExecShape'
    BY <2>1, <2>3, <2>4, <2>7 DEF ExecShape, Rewrites
  <2>9. ConfirmShape' /\ TriedShape' /\ Stopped'
    BY <2>1, <2>2, <2>4 DEF ChainShape, ConfirmShape, TriedShape, Stopped
  <2> QED BY <2>1, <2>5, <2>6, <2>8, <2>9 DEF ChainShape
<1> QED BY <1>1, <1>2

\* What is on flash when every planned write is made.
LEMMA BootedEntry ==
  ASSUME ChainShape, phase = "exec", ~Writing, todo = {}
  PROVE  \E s \in In(od, {"valid", "pending_verify"}) : od[s].seq = boot.seq
  BY DEF ChainShape, ExecShape, Source

LEMMA LoadChain ==
  ASSUME ChainShape, BootInv, LoadImage
  PROVE  ChainShape'
<1>1. CASE \E why \in {"Image", "FlashRead", "Mmu"} : HaltWith(why)
  BY <1>1, MoveChain DEF HaltWith
<1>2. CASE ~\E why \in {"Image", "FlashRead", "Mmu"} : HaltWith(why)
  <2>1. /\ phase = "exec" /\ phase' = "run" /\ todo = {} /\ ~Writing /\ ~Writing'
        /\ UNCHANGED <<od, image, boot, todo, wr, upl, halt>>
        /\ tried' \subseteq tried \cup {boot.seq}
    BY <1>2 DEF LoadImage, Writing
  <2>2. PICK s \in In(od, {"valid", "pending_verify"}) : od[s].seq = boot.seq
    BY <2>1, BootedEntry
  <2>3. s \in Ok(od) /\ s \notin In(od, {"new"})
    BY DEF In, Ok, State
  <2>4. ~Virgin
    BY <2>3 DEF Virgin
  <2>5. \A t \in In(od, {"new"}) : od[t].seq # boot.seq
    <3>1. In(od, {"new"}) \subseteq Ok(od)
      BY DEF In, Ok, State
    <3> QED BY <2>2, <2>3, <3>1 DEF ChainShape, Unique
  <2>6. TriedShape'
    BY <2>1, <2>5 DEF ChainShape, TriedShape
  <2>7. Unique' /\ ExecShape' /\ ConfirmShape' /\ Stopped'
    BY <2>1 DEF ChainShape, Unique, ExecShape, ConfirmShape, Stopped, Writing
  <2> QED BY <2>1, <2>4, <2>6, <2>7 DEF ChainShape
<1> QED BY <1>1, <1>2

\* A step that ends the write in flight, whatever it left in the sector.
LEMMA EndChain ==
  ASSUME BootInv, ChainShape, wr.step \in Steps,
         NEW raw \in Outcomes(wr.step, wr, od[wr.sector]),
         od' = [od EXCEPT ![wr.sector] = raw],
         wr' = Idle, phase' # "exec", phase' = "run" => phase = "run",
         UNCHANGED <<image, tried>>, Stopped'
  PROVE  ChainShape'
<1>1. ~Writing' /\ wr'.step # "erase"
  BY DEF Writing, Idle
<1>2. Virgin /\ Ok(od') = {} => Virgin'
  BY <1>1 DEF Virgin
<1>3. Unique' /\ TriedShape' /\ ExecShape' /\ ConfirmShape'
  BY <1>1, SectorChain DEF Unique, TriedShape, ExecShape, ConfirmShape
<1> QED BY <1>2, <1>3, SectorChain DEF ChainShape

LEMMA PassChain ==
  ASSUME BootInv, ChainShape, NEW step \in Steps, wr.step = step, PassWrite,
         od' = [od EXCEPT ![wr.sector] = Wanted(step, wr)],
         Wanted(step, wr) \in Outcomes(wr.step, wr, od[wr.sector])
  PROVE  ChainShape'
<1> DEFINE raw == Wanted(step, wr)
<1>1. /\ wr.sector \in Sectors /\ od'[wr.sector] = raw
      /\ \A s \in Sectors : s # wr.sector => od'[s] = od[s]
      /\ decodes(raw) => raw = od[wr.sector] \/ (wr.step = "commit" /\ raw = encode(wr))
  BY SectorShape
<1>2. Writing /\ phase \in {"exec", "run"} /\ UNCHANGED <<image, phase, boot, todo, upl, halt, tried>>
  BY DEF Writing, Steps, BootInv, Quiet, PassWrite
<1>3. Stopped'
  BY <1>2 DEF ChainShape, Stopped
<1>4. CASE step # "commit"
  <2>1. /\ wr'.sector = wr.sector /\ wr'.seq = wr.seq /\ wr'.state = wr.state
        /\ wr'.step \in {"body", "commit"}
    BY <1>4 DEF PassWrite, FollowedBy, BootInv, TypeOK, Steps
  <2>2. ~decodes(raw)
    BY <1>4 DEF Wanted, decodes, BLANK, body, State, Steps
  <2>3. Writing' /\ wr'.step # "erase"
    BY <2>1 DEF Writing
  <2>4. Ok(od') = Ok(od) \ {wr.sector} /\ \A s \in Ok(od') : od'[s] = od[s]
    BY <1>1, <2>2 DEF Ok, In
  <2>5. Virgin => Virgin'
    BY <1>2, <2>1, <2>4 DEF Virgin
  <2>6. Unique'
    <3>1. \A s, t \in Ok(od') : od'[s].seq = od'[t].seq => s = t
      <4>1. \A s, t \in Ok(od) : od[s].seq = od[t].seq => s = t
        BY DEF ChainShape, Unique
      <4> QED BY <2>4, <4>1
    <3>2. \A s \in Ok(od') \ {wr'.sector} : od'[s].seq # wr'.seq
      BY <1>2, <2>1, <2>4 DEF ChainShape, Unique
    <3>3. wr'.state = "new" => \A s \in Ok(od') \ {wr'.sector} : od'[s].seq < wr'.seq
      BY <1>2, <2>1, <2>4 DEF ChainShape, Unique
    <3>4. wr'.state = "valid" => wr'.seq = boot'.seq
      BY <1>2, <2>1 DEF ChainShape, Unique
    <3> QED BY <3>1, <3>2, <3>3, <3>4 DEF Unique
  <2>7. TriedShape'
    <3>1. \A s \in In(od', {"new"}) : s \in In(od, {"new"}) /\ od'[s] = od[s]
      BY <1>1, <2>2 DEF In
    <3>2. phase = "exec" => \A s \in In(od, {"valid"}) : s # wr.sector
      BY <1>2 DEF ChainShape, ExecShape
    <3>3. phase = "exec" => \A s \in In(od, {"valid"}) : s \in In(od', {"valid"}) /\ od'[s] = od[s]
      BY <1>1, <3>2 DEF In
    <3>4. \A s \in In(od', {"new"}) : od'[s].seq \notin tried'
      BY <1>2, <3>1 DEF ChainShape, TriedShape
    <3>5. wr'.state = "new" => wr'.seq \notin tried'
      BY <1>2, <2>1 DEF ChainShape, TriedShape
    <3>6. phase' = "exec" /\ boot'.seq \in tried' => \E s \in In(od', {"valid"}) : od'[s].seq = boot'.seq
      BY <1>2, <3>3 DEF ChainShape, TriedShape
    <3> QED BY <3>4, <3>5, <3>6 DEF TriedShape
  <2>8. ExecShape'
    <3> SUFFICES ASSUME phase = "exec" PROVE ExecShape'
      BY <1>2 DEF ExecShape
    <3>1. todo' = {} /\ wr.state # "new" /\ Source
      BY <1>2 DEF ChainShape, ExecShape
    <3>2. wr'.sector \notin In(od', {"valid"})
      BY <1>1, <2>1, <2>2 DEF In
    <3>3. Source'
      <4>1. \A s \in Sectors : s # wr.sector /\ s \in In(od, {"valid", "pending_verify"})
                               => s \in In(od', {"valid", "pending_verify"}) /\ od'[s] = od[s]
        BY <1>1 DEF In
      <4>2. \A s \in In(od, {"valid", "pending_verify"}) : s \in Sectors
        BY DEF In
      <4> QED BY <1>2, <2>1, <2>3, <3>1, <4>1, <4>2 DEF Source
    <3> QED BY <2>1, <2>3, <3>1, <3>2, <3>3 DEF ExecShape
  <2>9. ConfirmShape'
    BY <2>3 DEF ConfirmShape
  <2>10. In(od, {"valid"}) # {} => In(od', {"valid"}) # {}
    <3> SUFFICES ASSUME In(od, {"valid"}) # {} PROVE In(od', {"valid"}) # {}
      OBVIOUS
    <3>1. 1 - wr.sector \in In(od, {"valid"}) /\ 1 - wr.sector # wr.sector /\ 1 - wr.sector \in Sectors
      BY <1>1, <1>2, OtherValid, Other
    <3> QED BY <1>1, <3>1 DEF In
  <2> QED BY <1>3, <2>5, <2>6, <2>7, <2>8, <2>9, <2>10 DEF ChainShape
<1>5. CASE step = "commit"
  <2>1. wr' = Idle /\ raw = encode(wr)
    BY <1>5 DEF PassWrite, Wanted
  <2>2. ~Writing' /\ wr'.step # "erase"
    BY <2>1 DEF Writing, Idle
  <2>3. CASE phase = "run"
    BY <1>2, <1>3, <2>1, <2>3, EndChain
  <2>4. CASE phase = "exec"
    <3>1. todo = {} /\ todo' = {} /\ wr.state # "new" /\ Source /\ wr.sector \notin In(od, {"valid"})
      BY <1>2, <2>4 DEF ChainShape, ExecShape
    <3>2. Source'
      <4>1. CASE wr.state \in {"valid", "pending_verify"} /\ wr.seq = boot.seq
        <5>1. decodes(raw) /\ raw.state = wr.state /\ raw.seq = wr.seq
          BY <2>1, <4>1 DEF decodes, encode, State
        <5>2. wr.sector \in In(od', {"valid", "pending_verify"}) /\ od'[wr.sector].seq = boot.seq
          BY <1>1, <4>1, <5>1 DEF In
        <5> QED BY <1>2, <2>2, <3>1, <5>2 DEF Source
      <4>2. CASE \E s \in In(od, {"valid", "pending_verify"}) : od[s].seq = boot.seq /\ wr.sector # s
        <5>1. PICK s \in In(od, {"valid", "pending_verify"}) : od[s].seq = boot.seq /\ wr.sector # s
          BY <4>2
        <5>2. s \in In(od', {"valid", "pending_verify"}) /\ od'[s] = od[s]
          BY <1>1, <5>1 DEF In
        <5> QED BY <1>2, <2>2, <3>1, <5>1, <5>2 DEF Source
      <4> QED BY <1>2, <3>1, <4>1, <4>2 DEF Source
    <3>3. ExecShape'
      BY <2>2, <3>1, <3>2 DEF ExecShape
    <3>4. Virgin /\ Ok(od') = {} => Virgin'
      BY <1>2, <2>2 DEF Virgin
    <3>5. Unique' /\ ConfirmShape'
      BY <1>2, <2>2, SectorChain DEF Unique, ConfirmShape
    <3>6. TriedShape'
      <4>1. \A s \in In(od, {"valid"}) : s \in In(od', {"valid"}) /\ od'[s] = od[s]
        BY <1>1, <3>1 DEF In
      <4>2. \A s \in In(od', {"new"}) : od'[s].seq \notin tried
        BY <1>2, SectorChain
      <4> QED BY <1>2, <2>2, <4>1, <4>2 DEF ChainShape, TriedShape
    <3>7. In(od', {"valid"}) # {} \/ (Virgin /\ Ok(od') = {})
      BY <1>2, SectorChain
    <3> QED BY <1>3, <3>3, <3>4, <3>5, <3>6, <3>7 DEF ChainShape
  <2> QED BY <1>2, <2>3, <2>4
<1> QED BY <1>4, <1>5

LEMMA CommandChain ==
  ASSUME BootInv, ChainShape, NEW step \in Steps, Command(step)
  PROVE  ChainShape'
<1>1. PICK raw \in Outcomes(step, wr, od[wr.sector]) :
        /\ od' = [od EXCEPT ![wr.sector] = raw]
        /\ (PassWrite /\ ReadBack(step, wr, raw)) \/ Failed
  BY DEF Command, Outcomes, Failed
<1>2. wr.step = step
  BY DEF Command
<1>3. CASE PassWrite /\ ReadBack(step, wr, raw)
  BY <1>1, <1>2, <1>3, PassChain DEF ReadBack
<1>4. CASE Failed
  <2>1. phase \in {"exec", "run"}
    BY <1>2 DEF BootInv, Quiet, Steps
  <2>2. /\ wr' = Idle /\ phase' # "exec" /\ (phase' = "run" => phase = "run")
        /\ UNCHANGED <<image, tried, upl>> /\ (halt' # "none" => phase' = "halt")
    BY <1>4, <2>1 DEF Failed, FailWrite, ChainShape, Stopped
  <2>3. Stopped'
    BY <2>2 DEF ChainShape, Stopped
  <2> QED BY <1>1, <1>2, <2>2, <2>3, EndChain
<1> QED BY <1>1, <1>3, <1>4

\* A call that writes nothing to the sectors.
LEMMA NoCallChain ==
  ASSUME ChainShape, AppAlive, UNCHANGED <<od, phase, boot, todo, wr, halt>>,
         tried' = tried, upl'.stage = "none" => upl' = NoUpload
  PROVE  ChainShape'
<1>1. phase = "run" /\ phase' = "run" /\ ~Writing'
  BY DEF AppAlive, Writing
<1>2. In(od', {"valid"}) # {}
  BY <1>1 DEF ChainShape, Virgin
<1>3. Unique' /\ ExecShape' /\ ConfirmShape' /\ TriedShape' /\ Stopped'
  BY <1>1 DEF AppAlive, ChainShape, Unique, ExecShape, ConfirmShape, TriedShape, Stopped
<1> QED BY <1>2, <1>3 DEF ChainShape

\* A call that begins the write w.
LEMMA CallChain ==
  ASSUME ChainShape, AppAlive, NEW w \in Write,
         wr' = [sector |-> w.sector, seq |-> w.seq, state |-> w.state, step |-> "erase"],
         UNCHANGED <<od, phase, boot, todo, upl, halt>>,
         tried' = IF w.state = "new" THEN tried \ {w.seq} ELSE tried,
         \A s \in Ok(od) \ {w.sector} : od[s].seq # w.seq,
         w.state = "new" => \A s \in Ok(od) : od[s].seq < w.seq,
         w.state = "valid" => w.seq = boot.seq /\ Rewrites(w, "pending_verify")
  PROVE  ChainShape'
<1>1. phase = "run" /\ phase' = "run" /\ Writing'
  BY DEF AppAlive, Writing
<1>2. In(od', {"valid"}) # {}
  BY <1>1 DEF ChainShape, Virgin
<1>3. Unique'
  BY <1>1 DEF ChainShape, Unique
<1>4. ExecShape' /\ ConfirmShape' /\ Stopped'
  BY <1>1 DEF ChainShape, ExecShape, ConfirmShape, Stopped, Rewrites
<1>5. TriedShape'
  BY <1>1 DEF ChainShape, TriedShape
<1> QED BY <1>2, <1>3, <1>4, <1>5 DEF ChainShape

\* What the application can ask for in one call keeps the entries apart.
LEMMA SettleWrite ==
  ASSUME BootInv, ChainShape, AppAlive, NEW s \in In(od, {"pending_verify"}),
         NEW st \in {"valid", "invalid"}, NEW w, w = Rewrite(od, s, st)
  PROVE  /\ w \in Write /\ w.state = st /\ w.seq = boot.seq /\ Rewrites(w, "pending_verify")
         /\ \A t \in Ok(od) \ {w.sector} : od[t].seq # w.seq
<1>1. w.sector = s /\ w.seq = od[s].seq /\ w.state = st /\ s \in Ok(od)
  BY DEF Rewrite, Ok, In, State
<1>2. w \in Write
  BY <1>1, RewriteTyped DEF State, BootInv, TypeOK
<1>3. w.seq = boot.seq
  BY <1>1 DEF AppAlive, BootInv, RunShape
<1> QED BY <1>1, <1>2, <1>3 DEF Rewrites, ChainShape, Unique

LEMMA ChainNext ==
  ASSUME BootInv, ChainShape, [Next]_vars
  PROVE  ChainShape'
<1>1. CASE PowerOn \/ SetFlashSize \/ ReadLayout \/ FlashReinit
  BY <1>1, MoveChain
  DEF PowerOn, SetFlashSize, ReadLayout, FlashReinit, Goto, HaltWith, ChainShape, Stopped
<1>2. CASE PlanBoot
  <2>1. CASE HaltWith("FlashRead")
    BY <2>1, MoveChain DEF HaltWith
  <2>2. CASE ~HaltWith("FlashRead")
    <3>1. PICK ok \in ImageOk : \E plan \in plan_boot(od, ok) :
            IF plan.boot = "slot" THEN Proceed(plan) ELSE HaltWith(plan.boot)
      BY <1>2, <2>2 DEF PlanBoot, read_otadata
    <3>2. PICK plan \in plan_boot(od, ok) :
            IF plan.boot = "slot" THEN Proceed(plan) ELSE HaltWith(plan.boot)
      BY <3>1
    <3>3. phase = "plan"
      BY <1>2 DEF PlanBoot
    <3>4. CASE plan.boot # "slot"
      BY <3>2, <3>4, MoveChain DEF HaltWith
    <3>5. CASE plan.boot = "slot" /\ Ok(od) = {}
      <4>1. plan \in FirstBoot(ok)
        BY <3>5 DEF plan_boot, Halt
      <4> QED BY <3>2, <3>3, <3>5, <4>1, FirstChain
    <3>6. CASE plan.boot = "slot" /\ Ok(od) # {}
      <4>1. PICK c \in Sectors : /\ Latest(od, Candidates(od, ok), c)
                                 /\ plan = [boot |-> "slot", slot |-> slot_of(od[c].seq),
                                            seq |-> od[c].seq, writes |-> BootWrites(od, c)]
        BY <3>6 DEF plan_boot, Halt
      <4>2. c \in In(od, {"new", "valid"})
        BY <4>1 DEF Latest, Candidates
      <4> QED BY <3>2, <3>3, <3>6, <4>1, <4>2, PlanChain
    <3> QED BY <3>4, <3>5, <3>6
  <2> QED BY <2>1, <2>2
<1>3. CASE StartWrite
  BY <1>3, StartChain
<1>4. CASE LoadImage
  BY <1>4, LoadChain
<1>5. CASE WriteStep
  BY <1>5, CommandChain DEF WriteStep, EraseSector, ProgramBody, ProgramCommit, Steps
<1>6. CASE Confirm
  <2>1. CASE wr' = wr
    BY <1>6, <2>1, NoCallChain DEF Confirm, ChainShape, Stopped
  <2>2. CASE wr' # wr
    <3>1. PICK w \in confirm(od) :
            wr' = [sector |-> w.sector, seq |-> w.seq, state |-> w.state, step |-> "erase"]
      BY <1>6, <2>2 DEF Confirm, Transition
    <3>2. PICK s \in In(od, {"pending_verify"}) : w = Rewrite(od, s, "valid")
      BY <3>1 DEF confirm
    <3> QED BY <1>6, <3>1, <3>2, SettleWrite, CallChain DEF Confirm
  <2> QED BY <2>1, <2>2
<1>7. CASE Reject
  <2>1. CASE wr' = wr
    BY <1>7, <2>1, NoCallChain DEF Reject, ChainShape, Stopped
  <2>2. CASE wr' # wr
    <3>1. PICK w \in reject(od) :
            wr' = [sector |-> w.sector, seq |-> w.seq, state |-> w.state, step |-> "erase"]
      BY <1>7, <2>2 DEF Reject, Transition
    <3>2. PICK s \in In(od, {"pending_verify"}) : w = Rewrite(od, s, "invalid")
      BY <3>1 DEF reject
    <3> QED BY <1>7, <3>1, <3>2, SettleWrite, CallChain DEF Reject
  <2> QED BY <2>1, <2>2
<1>8. ASSUME NEW t \in Slots, Activate(t)
      PROVE  ChainShape'
  <2>1. CASE wr' = wr
    BY <1>8, <2>1, NoCallChain DEF Activate, ChainShape, Stopped
  <2>2. CASE wr' # wr
    <3>1. PICK w \in activate(od, t) :
            wr' = [sector |-> w.sector, seq |-> w.seq, state |-> w.state, step |-> "erase"]
      BY <1>8, <2>2 DEF Activate, Transition
    <3>2. w \in Write /\ w.state = "new" /\ \A s \in Ok(od) : od[s].seq < w.seq
      BY <3>1 DEF activate
    <3>3. \A s \in Ok(od) : od[s].seq \in Nat
      BY MaxSeqAssumption DEF Ok, In, BootInv, TypeOK, Raw
    <3>4. w.seq \in Nat
      BY <3>2 DEF Write, SeqNo
    <3>5. \A s \in Ok(od) \ {w.sector} : od[s].seq # w.seq
      BY <3>2, <3>3, <3>4
    <3>6. tried' = tried \ {w.seq}
      BY <1>8, <2>2, <3>1 DEF Activate
    <3> QED BY <1>8, <3>1, <3>2, <3>5, <3>6, CallChain DEF Activate
  <2> QED BY <2>1, <2>2
<1>9. CASE UploadOpen \/ UploadErase \/ UploadHeader \/ UploadFinish \/ UploadAbort
  <2>1. upl \in [slot : Slots, stage : {"none", "open", "erased", "header"}]
    BY DEF BootInv, TypeOK
  <2> QED BY <1>9, <2>1, NoCallChain
          DEF UploadOpen, UploadErase, UploadHeader, UploadFinish, UploadAbort
<1>10. CASE PowerCut
  <2>1. Stopped' /\ wr' = Idle /\ phase' = "off" /\ UNCHANGED <<image, tried>>
    BY <1>10 DEF PowerCut, Stopped
  <2>2. CASE wr.step = "idle"
    <3>1. od' = od /\ ~Writing /\ ~Writing' /\ wr'.step # "erase"
      BY <1>10, <2>2 DEF PowerCut, BootInv, TypeOK, Writing, Idle
    <3>2. Virgin => Virgin'
      BY <2>1, <3>1 DEF Virgin
    <3>3. Unique' /\ ExecShape' /\ ConfirmShape' /\ TriedShape'
      BY <2>1, <3>1 DEF ChainShape, Unique, ExecShape, ConfirmShape, TriedShape
    <3> QED BY <2>1, <3>1, <3>2, <3>3 DEF ChainShape
  <2>3. CASE wr.step # "idle"
    <3>1. wr.step \in Steps
      BY <2>3 DEF BootInv, TypeOK
    <3>2. PICK raw \in Outcomes(wr.step, wr, od[wr.sector]) :
            od' = [od EXCEPT ![wr.sector] = raw]
      BY <1>10, <2>3 DEF PowerCut
    <3> QED BY <2>1, <3>1, <3>2, EndChain
  <2> QED BY <2>2, <2>3
<1>11. CASE UNCHANGED vars
  BY <1>11 DEF vars, ChainShape, Virgin, Unique, ExecShape, Source, Rewrites, ConfirmShape,
     TriedShape, Stopped, Writing
<1> QED
  BY <1>1, <1>2, <1>3, <1>4, <1>5, <1>6, <1>7, <1>8, <1>9, <1>10, <1>11 DEF Next, BootStep, AppStep

LEMMA ChainInit == Init => ChainShape
<1> SUFFICES ASSUME Init PROVE ChainShape
  OBVIOUS
<1>1. Ok(od) = {} /\ ~Writing /\ wr.step # "erase" /\ phase = "off" /\ tried = {}
  BY DEF Init, Ok, In, decodes, BLANK, State, Sectors, Idle, Writing
<1>2. \A S : In(od, S) = {}
  BY DEF Init, In, decodes, BLANK, State, Sectors
<1>3. Virgin
  BY <1>1 DEF Init, Virgin
<1> QED
  BY <1>1, <1>2, <1>3 DEF Init, ChainShape, Unique, ExecShape, ConfirmShape, TriedShape, Stopped, NoUpload

\* ChainCorrect: every entry on flash has a number of its own, the number that
\* is booted has an entry no write takes away, and what is still to be tried
\* has not been tried; for any mix of faults, cuts and calls.
THEOREM ChainCorrect == Spec => []ChainInv
<1>1. Init => ChainInv
  BY InvInit, ChainInit DEF ChainInv
<1>2. ChainInv /\ [Next]_vars => ChainInv'
  BY InvNext, ChainNext DEF ChainInv
<1> QED BY <1>1, <1>2, PTL DEF Spec

\* Only load starts an image.
LEMMA JumpIsLoad ==
  ASSUME BootInv, Next, Jump
  PROVE  LoadImage
<1>1. ~(PowerOn \/ SetFlashSize \/ ReadLayout \/ FlashReinit \/ StartWrite)
  BY DEF Jump, PowerOn, SetFlashSize, ReadLayout, FlashReinit, StartWrite, Goto, HaltWith
<1>2. ~PlanBoot
  BY DEF Jump, PlanBoot, Proceed, HaltWith
<1>3. ~WriteStep
  BY DEF Jump, WriteStep, EraseSector, ProgramBody, ProgramCommit, Command, PassWrite, FailWrite
<1>4. ~AppStep
  BY DEF Jump, AppStep, AppAlive, Confirm, Reject, Activate, UploadOpen, UploadErase, UploadHeader,
     UploadFinish, UploadAbort
<1>5. ~PowerCut
  BY DEF Jump, PowerCut
<1> QED BY <1>1, <1>2, <1>3, <1>4, <1>5 DEF Next, BootStep

\* TrialOnceCorrect: an image whose trial was begun and not confirmed is never
\* started again, whatever fails and wherever the writes that settle it are cut.
THEOREM TrialOnceCorrect == Spec => TrialOnce
<1> DEFINE Once == Jump /\ boot.seq \in tried => \E s \in In(od, {"valid"}) : od[s].seq = boot.seq
<1>1. ChainInv /\ [Next]_vars => [Once]_vars
  <2> SUFFICES ASSUME ChainInv, Next, Jump, boot.seq \in tried
               PROVE  \E s \in In(od, {"valid"}) : od[s].seq = boot.seq
    OBVIOUS
  <2>1. phase = "exec"
    BY JumpIsLoad DEF ChainInv, LoadImage
  <2> QED BY <2>1 DEF ChainInv, ChainShape, TriedShape
<1> QED BY <1>1, ChainCorrect, PTL DEF Spec, TrialOnce

-----------------------------------------------------------------------------
(* With reads that do not fail and no upload during a trial.               *)

\* A Valid entry appears only when the write in flight vouches for the image
\* that runs or is being booted.
LEMMA NewValid ==
  ASSUME BootInv, ChainShape, [Next]_vars, od' # od,
         NEW s \in In(od', {"valid"})
  PROVE  \/ s \in In(od, {"valid"}) /\ od'[s] = od[s]
         \/ /\ s = wr.sector /\ Writing /\ wr.state = "valid" /\ od'[s] = encode(wr)
            /\ wr.seq = boot.seq
<1>1. wr.step \in Steps
  BY SectorStep
<1>2. PICK raw \in Outcomes(wr.step, wr, od[wr.sector]) : od' = [od EXCEPT ![wr.sector] = raw]
  BY SectorStep
<1>3. /\ wr.sector \in Sectors /\ od'[wr.sector] = raw
      /\ \A t \in Sectors : t # wr.sector => od'[t] = od[t]
      /\ decodes(raw) => raw = od[wr.sector] \/ (wr.step = "commit" /\ raw = encode(wr))
  BY <1>1, <1>2, SectorShape
<1>4. s \in Sectors /\ decodes(od'[s]) /\ od'[s].state = "valid"
  BY DEF In
<1>5. Writing
  BY <1>1 DEF Writing, Steps
<1>6. CASE od'[s] = od[s]
  BY <1>4, <1>6 DEF In
<1>7. CASE od'[s] # od[s]
  <2>1. s = wr.sector /\ od'[s] = encode(wr)
    BY <1>3, <1>4, <1>7
  <2>2. wr.state = "valid"
    BY <1>4, <2>1 DEF encode
  <2> QED BY <1>5, <2>1, <2>2 DEF ChainShape, Unique
<1> QED BY <1>6, <1>7

\* What is confirmed is there: the factory image when it is vouched for, and
\* from then on what AnchorStep keeps.
LEMMA AnchoredNext ==
  ASSUME BootInv, ChainShape, UploadShape, ReliableShape, [Next]_vars,
         In(od', {"valid"}) # {}
  PROVE  \E s \in Sectors : Anchor(s)'
<1>1. CASE In(od, {"valid"}) # {}
  BY <1>1, AnchorStep DEF ReliableShape
<1>2. CASE In(od, {"valid"}) = {}
  <2>1. od' # od /\ Virgin
    BY <1>2 DEF ChainShape
  <2>2. PICK s \in In(od', {"valid"}) : s \in Sectors
    BY DEF In
  <2>3. \A t \in In(od', {"valid"}) : t = wr.sector /\ od'[t] = encode(wr) /\ Writing
    BY <1>2, <2>1, NewValid
  <2>4. image' = image
    BY <2>1, SectorStep
  <2>5. phase = "exec"
    BY <2>1, <2>2, <2>3 DEF BootInv, Quiet, Writing, Virgin
  <2>6. wr.seq = 1 /\ image[0] = "proven"
    BY <2>1, <2>2, <2>3, <2>5 DEF Virgin
  <2>7. od'[s].seq = 1 /\ slot_of(1) = 0
    BY <2>2, <2>3, <2>6 DEF encode, slot_of
  <2>8. Latest(od', In(od', {"valid"}), s)
    <3>1. \A t \in In(od', {"valid"}) : od'[t].seq = 1
      BY <2>3, <2>6 DEF encode
    <3> QED BY <2>2, <3>1 DEF Latest
  <2> QED BY <2>2, <2>4, <2>6, <2>7, <2>8 DEF Anchor
<1> QED BY <1>1, <1>2

\* The anchor may always be booted, so the plan has something to boot, and
\* nothing older.
LEMMA PlanReliable ==
  ASSUME ReadFaults = FALSE, BootInv, ReliableShape, In(od, {"valid"}) # {},
         NEW ok \in ImageOk, NEW plan \in plan_boot(od, ok)
  PROVE  /\ plan.boot = "slot" /\ plan.slot \in ok
         /\ \A s \in In(od, {"valid"}) : od[s].seq <= plan.seq
<1>1. ok = {s \in Slots : image[s] # "refused"}
  BY DEF ImageOk
<1>2. PICK a \in Sectors : Anchor(a)
  BY DEF ReliableShape
<1>3. \A s \in Sectors : od[s].seq \in Nat
  BY MaxSeqAssumption DEF BootInv, TypeOK, Raw
<1>4. a \in Candidates(od, ok)
  <2>1. slot_of(od[a].seq) \in ok
    BY <1>1, <1>2, <1>3, SlotOf DEF Anchor
  <2>2. a \in In(od, {"new", "valid"})
    BY <1>2 DEF Anchor, Latest, In
  <2> QED BY <2>1, <2>2 DEF Candidates
<1>5. Ok(od) # {}
  BY <1>4 DEF Candidates, Ok, In, State
<1>6. PICK c \in Sectors : /\ Latest(od, Candidates(od, ok), c)
                           /\ plan = [boot |-> "slot", slot |-> slot_of(od[c].seq),
                                      seq |-> od[c].seq, writes |-> BootWrites(od, c)]
  BY <1>4, <1>5 DEF plan_boot
<1>7. c \in Candidates(od, ok) /\ od[a].seq <= od[c].seq
  BY <1>4, <1>6 DEF Latest
<1>8. ASSUME NEW s \in In(od, {"valid"})
      PROVE  od[s].seq <= plan.seq
  <2>1. od[s].seq <= od[a].seq /\ s \in Sectors
    BY <1>2 DEF Anchor, Latest, In
  <2> QED BY <1>3, <1>6, <1>7, <2>1
<1> QED BY <1>6, <1>7, <1>8 DEF Candidates

\* The bootloader chooses the highest number that may be booted, so an untried
\* entry above it can only be one whose image it refused.
LEMMA PlanNothingNewer ==
  ASSUME ReadFaults = FALSE, BootInv, NEW ok \in ImageOk, NEW plan \in plan_boot(od, ok),
         plan.boot = "slot", Ok(od) # {},
         NEW s \in In(od, {"new"}), od[s].seq > plan.seq
  PROVE  image[slot_of(od[s].seq)] = "refused"
<1>1. ok = {t \in Slots : image[t] # "refused"}
  BY DEF ImageOk
<1>2. \A t \in Sectors : od[t].seq \in Nat
  BY MaxSeqAssumption DEF BootInv, TypeOK, Raw
<1>3. PICK c \in Sectors : /\ Latest(od, Candidates(od, ok), c)
                           /\ plan.seq = od[c].seq
  BY DEF plan_boot, Halt
<1>4. s \in Sectors /\ s \in In(od, {"new", "valid"})
  BY DEF In
<1>5. s \notin Candidates(od, ok)
  BY <1>2, <1>3, <1>4 DEF Latest
<1> QED BY <1>1, <1>2, <1>4, <1>5, SlotOf DEF Candidates

\* While the bootloader writes, no untried entry appears.
LEMMA NoNewWhileBooting ==
  ASSUME BootInv, ChainShape, [Next]_vars, phase = "exec", NEW s \in In(od', {"new"})
  PROVE  s \in In(od, {"new"}) /\ od'[s] = od[s]
<1>1. CASE od' = od
  BY <1>1
<1>2. CASE od' # od
  <2>1. wr.step \in Steps
    BY <1>2, SectorStep
  <2>2. PICK raw \in Outcomes(wr.step, wr, od[wr.sector]) : od' = [od EXCEPT ![wr.sector] = raw]
    BY <1>2, SectorStep
  <2>3. /\ wr.sector \in Sectors /\ od'[wr.sector] = raw
        /\ \A t \in Sectors : t # wr.sector => od'[t] = od[t]
        /\ decodes(raw) => raw = od[wr.sector] \/ (wr.step = "commit" /\ raw = encode(wr))
    BY <2>1, <2>2, SectorShape
  <2>4. wr.state # "new"
    BY <2>1 DEF ChainShape, ExecShape, Writing, Steps
  <2>5. s \in Sectors /\ decodes(od'[s]) /\ od'[s].state = "new"
    BY DEF In
  <2>6. od'[s] = od[s]
    BY <2>3, <2>4, <2>5 DEF encode
  <2> QED BY <2>5, <2>6 DEF In
<1> QED BY <1>1, <1>2

LEMMA ReliableNext ==
  ASSUME ReadFaults = FALSE, BootInv, ChainShape, UploadShape, ReliableShape, [Next]_vars
  PROVE  ReliableShape'
<1>1. In(od', {"valid"}) # {} => \E s \in Sectors : Anchor(s)'
  BY AnchoredNext
<1>2. CASE PlanBoot
  <2>1. PICK ok \in ImageOk : \E plan \in plan_boot(od, ok) :
          IF plan.boot = "slot" THEN Proceed(plan) ELSE HaltWith(plan.boot)
    BY <1>2 DEF PlanBoot, read_otadata
  <2>2. PICK plan \in plan_boot(od, ok) :
          IF plan.boot = "slot" THEN Proceed(plan) ELSE HaltWith(plan.boot)
    BY <2>1
  <2>3. od' = od /\ image' = image /\ phase = "plan" /\ halt = "none"
    BY <1>2, <2>2 DEF PlanBoot, Proceed, HaltWith, ChainShape, Stopped
  <2>4. CASE In(od, {"valid"}) # {}
    <3>1. /\ plan.boot = "slot" /\ plan.slot \in ok
          /\ \A s \in In(od, {"valid"}) : od[s].seq <= plan.seq
      BY <2>4, PlanReliable
    <3>2. boot' = [slot |-> plan.slot, seq |-> plan.seq] /\ halt' = "none"
      BY <2>2, <2>3, <3>1 DEF Proceed
    <3>3. image[plan.slot] # "refused"
      BY <3>1 DEF ImageOk
    <3>4. NothingNewer'
      <4>1. Ok(od) # {}
        BY <2>4 DEF Ok, In, State
      <4> QED BY <2>3, <3>1, <3>2, <4>1, PlanNothingNewer DEF NothingNewer
    <3> QED BY <1>1, <2>3, <3>1, <3>2, <3>3, <3>4 DEF ReliableShape, NeverBricked
  <2>5. CASE In(od, {"valid"}) = {}
    <3>1. phase' = "exec" => image'[boot'.slot] # "refused" /\ NothingNewer'
      <4> SUFFICES ASSUME phase' = "exec"
                   PROVE  image'[boot'.slot] # "refused" /\ NothingNewer'
        OBVIOUS
      <4>1. plan.boot = "slot" /\ boot'.slot = plan.slot
        BY <2>2 DEF Proceed, HaltWith
      <4>2. Ok(od) = {}
        BY <2>5 DEF ChainShape, Virgin
      <4>3. plan.slot \in ok
        BY <4>1, <4>2 DEF plan_boot, FirstBoot, Halt
      <4>4. NothingNewer'
        BY <2>3, <4>2 DEF NothingNewer, Ok, In, State
      <4> QED BY <2>3, <4>1, <4>3, <4>4 DEF ImageOk
    <3> QED BY <1>1, <2>3, <2>5, <3>1 DEF ReliableShape, NeverBricked
  <2> QED BY <2>4, <2>5
<1>3. CASE ~PlanBoot
  <2>1. phase' = "exec" => phase = "exec" /\ boot' = boot /\ image' = image
    <3>1. CASE BootStep
      BY <1>3, <3>1 DEF BootStep, PowerOn, SetFlashSize, ReadLayout, FlashReinit, StartWrite, LoadImage,
         Goto, HaltWith
    <3>2. CASE WriteStep
      BY <3>2 DEF WriteStep, EraseSector, ProgramBody, ProgramCommit, Command, PassWrite, FailWrite
    <3>3. CASE AppStep
      BY <3>3 DEF AppStep, AppAlive, Confirm, Reject, Activate, UploadOpen, UploadErase, UploadHeader,
         UploadFinish, UploadAbort
    <3>4. CASE PowerCut \/ UNCHANGED vars
      BY <3>4 DEF PowerCut, vars
    <3> QED BY <3>1, <3>2, <3>3, <3>4 DEF Next
  <2>2. phase' = "run" => phase \in {"exec", "run"} /\ boot' = boot
    <3>1. CASE BootStep
      BY <1>3, <3>1 DEF BootStep, PowerOn, SetFlashSize, ReadLayout, FlashReinit, StartWrite, LoadImage,
         Goto, HaltWith
    <3>2. CASE WriteStep
      <4>1. phase \in {"exec", "run"}
        BY <3>2 DEF WriteStep, EraseSector, ProgramBody, ProgramCommit, Command, BootInv, Quiet
      <4> QED BY <3>2, <4>1 DEF WriteStep, EraseSector, ProgramBody, ProgramCommit, Command, PassWrite, FailWrite
    <3>3. CASE AppStep
      BY <3>3 DEF AppStep, AppAlive, Confirm, Reject, Activate, UploadOpen, UploadErase, UploadHeader,
         UploadFinish, UploadAbort
    <3>4. CASE PowerCut \/ UNCHANGED vars
      BY <3>4 DEF PowerCut, vars
    <3> QED BY <3>1, <3>2, <3>3, <3>4 DEF Next
  <2>3. phase' \in {"exec", "run"} => \A s \in In(od', {"valid"}) : od'[s].seq <= boot'.seq
    <3> SUFFICES ASSUME phase' \in {"exec", "run"}, NEW s \in In(od', {"valid"})
                 PROVE  od'[s].seq <= boot'.seq
      OBVIOUS
    <3>1. boot' = boot /\ phase \in {"exec", "run"}
      BY <2>1, <2>2
    <3>2. CASE s \in In(od, {"valid"}) /\ od'[s] = od[s]
      BY <3>1, <3>2 DEF ReliableShape
    <3>3. CASE od'[s] = encode(wr) /\ wr.seq = boot.seq
      <4>1. boot.seq \in Nat
        BY MaxSeqAssumption DEF BootInv, TypeOK
      <4> QED BY <3>1, <3>3, <4>1 DEF encode
    <3> QED BY <3>2, <3>3, NewValid
  <2>4. NeverBricked'
    <3>1. CASE halt' = halt
      <4>1. CASE halt # "none"
        <5>1. wr.step = "idle"
          BY <4>1 DEF ChainShape, Stopped, BootInv, Quiet
        <5>2. od' = od
          BY <5>1, SectorStep DEF Steps
        <5> QED BY <3>1, <5>2 DEF ReliableShape, NeverBricked
      <4>2. CASE halt = "none"
        BY <3>1, <4>2 DEF NeverBricked
      <4> QED BY <4>1, <4>2
    <3>2. CASE halt' # halt
      <4>1. halt' \notin {"NoImage", "NoUsableEntry", "Image"}
        <5>1. CASE LoadImage
          <6>1. image[boot.slot] # "refused"
            BY <5>1 DEF LoadImage, ReliableShape
          <6> QED BY <3>2, <5>1, <6>1 DEF LoadImage, HaltWith
        <5>2. CASE PowerOn \/ SetFlashSize \/ ReadLayout \/ FlashReinit \/ StartWrite
          BY <3>2, <5>2 DEF PowerOn, SetFlashSize, ReadLayout, FlashReinit, StartWrite, Goto, HaltWith
        <5>3. CASE WriteStep
          BY <3>2, <5>3 DEF WriteStep, EraseSector, ProgramBody, ProgramCommit, Command, PassWrite, FailWrite
        <5>4. CASE AppStep
          BY <3>2, <5>4 DEF AppStep, Confirm, Reject, Activate, UploadOpen, UploadErase, UploadHeader,
             UploadFinish, UploadAbort
        <5>5. CASE PowerCut \/ UNCHANGED vars
          BY <3>2, <5>5 DEF PowerCut, vars
        <5> QED BY <1>3, <5>1, <5>2, <5>3, <5>4, <5>5 DEF Next, BootStep
      <4> QED BY <4>1 DEF NeverBricked
    <3> QED BY <3>1, <3>2
  <2>5. phase' = "exec" => NothingNewer'
    <3> SUFFICES ASSUME phase' = "exec", NEW s \in In(od', {"new"}), od'[s].seq > boot'.seq
                 PROVE  image'[slot_of(od'[s].seq)] = "refused"
      BY DEF NothingNewer
    <3>1. s \in In(od, {"new"}) /\ od'[s] = od[s]
      BY <2>1, NoNewWhileBooting
    <3> QED BY <2>1, <3>1 DEF ReliableShape, NothingNewer
  <2> QED BY <1>1, <2>1, <2>3, <2>4, <2>5 DEF ReliableShape
<1> QED BY <1>2, <1>3

\* ReliableCorrect: with reads that do not fail and no upload during a trial.
THEOREM ReliableCorrect ==
  ASSUME ReadFaults = FALSE, TrialUploads = FALSE
  PROVE  Spec => []ReliableShape
<1>1. Init => ReliableShape
  <2> SUFFICES ASSUME Init PROVE ReliableShape
    OBVIOUS
  <2>1. In(od, {"valid"}) = {} /\ phase = "off" /\ halt = "none"
    BY DEF Init, In, decodes, BLANK, State, Sectors
  <2> QED BY <2>1 DEF ReliableShape, NeverBricked
<1>2. ChainInv /\ UploadShape /\ ReliableShape /\ [Next]_vars => ReliableShape'
  BY ReliableNext DEF ChainInv
<1> QED BY <1>1, <1>2, ChainCorrect, UploadCorrect, PTL DEF Spec

\* NeverBrickedCorrect: a board that was ever provisioned always finds something to boot, wherever commands fail and the power is cut.
THEOREM NeverBrickedCorrect ==
  ASSUME ReadFaults = FALSE, TrialUploads = FALSE
  PROVE  Spec => []NeverBricked
<1>1. ReliableShape => NeverBricked
  BY DEF ReliableShape
<1> QED BY <1>1, ReliableCorrect, PTL

\* NoDowngradeCorrect: the application that runs is never older than one that was confirmed.
THEOREM NoDowngradeCorrect ==
  ASSUME ReadFaults = FALSE, TrialUploads = FALSE
  PROVE  Spec => []NoDowngrade
<1>1. ReliableShape => NoDowngrade
  BY DEF ReliableShape, NoDowngrade
<1> QED BY <1>1, ReliableCorrect, PTL

\* The entry of the running image, when it is Valid, is the latest Valid entry.
LEMMA RunningLatest ==
  ASSUME BootInv, ReliableShape, phase \in {"exec", "run"},
         NEW s \in In(od, {"valid"}), od[s].seq = boot.seq
  PROVE  s \in Sectors /\ Latest(od, In(od, {"valid"}), s)
  BY DEF ReliableShape, Latest, In

\* TargetSparesBootedCorrect: while the running image's entry stands, in a trial
\* too, its slot is neither the target write_target names nor an open upload's.
THEOREM TargetSparesBootedCorrect ==
  ASSUME ReadFaults = FALSE, TrialUploads = FALSE
  PROVE  Spec => []TargetSparesBooted
<1>1. ChainInv /\ UploadShape /\ ReliableShape => TargetSparesBooted
  <2> SUFFICES ASSUME BootInv, ChainShape, UploadShape, ReliableShape, phase = "run",
                      NEW s \in In(od, {"valid", "pending_verify"}), od[s].seq = boot.seq
               PROVE  /\ boot.slot \notin write_target(od)
                      /\ upl # NoUpload => upl.slot # boot.slot
    BY DEF ChainInv, TargetSparesBooted
  <2>1. boot.slot = slot_of(boot.seq) /\ boot.slot \in Slots /\ boot.seq \in Nat
    BY MaxSeqAssumption DEF BootInv, TypeOK, Quiet
  <2>2. ASSUME NEW t \in write_target(od)
        PROVE  t # boot.slot
    <3>1. PICK v \in Sectors : /\ Latest(od, In(od, {"valid", "pending_verify"}), v)
                               /\ t = 1 - slot_of(od[v].seq)
      BY DEF write_target
    <3>2. boot.seq <= od[v].seq
      BY <3>1 DEF Latest
    <3>3. od[v].seq <= boot.seq
      <4>1. CASE v \in In(od, {"valid"})
        BY <4>1 DEF ReliableShape
      <4>2. CASE v \in In(od, {"pending_verify"})
        BY <2>1, <4>2 DEF BootInv, RunShape
      <4> QED BY <3>1, <4>1, <4>2 DEF Latest, In
    <3>4. od[v].seq \in Nat
      BY <3>1, MaxSeqAssumption DEF BootInv, TypeOK, Raw
    <3>5. t = 1 - boot.slot
      BY <2>1, <3>1, <3>2, <3>3, <3>4
    <3> QED BY <2>1, <3>5 DEF Slots
  <2>3. ASSUME upl # NoUpload
        PROVE  upl.slot # boot.slot
    <3>1. upl.stage # "none"
      BY <2>3 DEF ChainShape, Stopped
    <3>2. s \in In(od, {"valid"})
      BY <3>1 DEF UploadShape, In
    <3>3. s \in Sectors /\ Latest(od, In(od, {"valid"}), s)
      BY <3>2, RunningLatest
    <3> QED BY <2>1, <3>1, <3>3 DEF UploadShape
  <2> QED BY <2>2, <2>3
<1> QED BY <1>1, ChainCorrect, UploadCorrect, ReliableCorrect, PTL

\* OutcomeTruthfulCorrect: what the agent reads of the two sectors is what runs.
THEOREM OutcomeTruthfulCorrect ==
  ASSUME ReadFaults = FALSE, TrialUploads = FALSE
  PROVE  Spec => []OutcomeTruthful
<1>1. ChainInv /\ ReliableShape => OutcomeTruthful
  <2> SUFFICES ASSUME BootInv, ChainShape, ReliableShape, phase = "run",
                      NEW s \in Ok(od), od[s].seq = boot.seq
               PROVE  /\ (image_outcome(od) = "PendingConfirmation")
                           <=> (\E t \in Ok(od) : od[t].seq = boot.seq /\ od[t].state = "pending_verify")
                      /\ \A e \in boot_entry(od) :
                           e.state \in {"valid", "pending_verify"} => e.seq = boot.seq /\ e.slot = boot.slot
    BY DEF ChainInv, OutcomeTruthful
  <2>1. \A t \in In(od, {"pending_verify"}) : od[t].seq = boot.seq
    BY DEF BootInv, RunShape
  <2>2. \A t \in Sectors : t \in In(od, {"pending_verify"}) <=> t \in Ok(od) /\ od[t].state = "pending_verify"
    BY DEF In, Ok, State
  <2>3. Ok(od) \subseteq Sectors /\ In(od, {"pending_verify"}) \subseteq Sectors
    BY DEF In, Ok
  <2>4. image_outcome(od) = "PendingConfirmation" <=> In(od, {"pending_verify"}) # {}
    BY DEF image_outcome
  <2>5. ASSUME NEW e \in boot_entry(od), e.state \in {"valid", "pending_verify"}
        PROVE  e.seq = boot.seq /\ e.slot = boot.slot
    <3>1. PICK v \in Sectors : /\ Latest(od, Ok(od), v)
                               /\ e = [slot |-> slot_of(od[v].seq), seq |-> od[v].seq, state |-> od[v].state]
      BY <2>5 DEF boot_entry
    <3>2. v \in Ok(od) /\ boot.seq <= od[v].seq
      BY <3>1 DEF Latest
    <3>3. boot.seq \in Nat /\ od[v].seq \in Nat /\ boot.slot = slot_of(boot.seq)
      BY MaxSeqAssumption DEF BootInv, TypeOK, Raw, Quiet
    <3>4. e.seq = boot.seq
      <4>1. CASE od[v].state = "pending_verify"
        BY <2>1, <2>2, <3>1, <3>2, <4>1
      <4>2. CASE od[v].state = "valid"
        <5>1. v \in In(od, {"valid"})
          BY <3>2, <4>2 DEF In, Ok
        <5>2. od[v].seq <= boot.seq
          BY <5>1 DEF ReliableShape
        <5> QED BY <3>1, <3>2, <3>3, <5>2
      <4> QED BY <2>5, <3>1, <4>1, <4>2
    <3> QED BY <3>1, <3>3, <3>4
  <2> QED BY <2>1, <2>2, <2>3, <2>4, <2>5
<1> QED BY <1>1, ChainCorrect, ReliableCorrect, PTL

\* UpdateTriedCorrect: the bootloader never starts an older image over an untried entry whose image validates.
THEOREM UpdateTriedCorrect ==
  ASSUME ReadFaults = FALSE, TrialUploads = FALSE
  PROVE  Spec => UpdateTried
<1>1. ChainInv /\ ReliableShape /\ [Next]_vars => [Jump => NothingNewer]_vars
  <2> SUFFICES ASSUME ChainInv, ReliableShape, Next, Jump
               PROVE  NothingNewer
    OBVIOUS
  <2>1. phase = "exec"
    BY JumpIsLoad DEF ChainInv, LoadImage
  <2> QED BY <2>1 DEF ReliableShape
<1> QED BY <1>1, ChainCorrect, ReliableCorrect, PTL DEF Spec, UpdateTried

\* TrustedJumpCorrect: an image is started either as a trial or because it has proven itself.
THEOREM TrustedJumpCorrect ==
  ASSUME ReadFaults = FALSE, TrialUploads = FALSE
  PROVE  Spec => TrustedJump
<1> DEFINE Trusted == Jump => \/ image[boot.slot] = "proven"
                              \/ \E s \in In(od, {"pending_verify"}) : od[s].seq = boot.seq
<1>1. ChainInv /\ ReliableShape /\ [Next]_vars => [Trusted]_vars
  <2> SUFFICES ASSUME BootInv, ChainShape, ReliableShape, Next, Jump
               PROVE  \/ image[boot.slot] = "proven"
                      \/ \E s \in In(od, {"pending_verify"}) : od[s].seq = boot.seq
    BY DEF ChainInv
  <2>1. phase = "exec" /\ todo = {} /\ ~Writing
    BY JumpIsLoad DEF LoadImage, Writing
  <2>2. PICK s \in In(od, {"valid", "pending_verify"}) : od[s].seq = boot.seq
    BY <2>1, BootedEntry
  <2>3. CASE s \in In(od, {"valid"})
    <3>1. Latest(od, In(od, {"valid"}), s)
      BY <2>1, <2>2, <2>3, RunningLatest
    <3>2. PICK a \in Sectors : Anchor(a)
      BY <2>3 DEF ReliableShape
    <3>3. od[a].seq = od[s].seq
      <4>1. \A t \in Sectors : od[t].seq \in Nat
        BY MaxSeqAssumption DEF BootInv, TypeOK, Raw
      <4> QED BY <3>1, <3>2, <4>1 DEF Anchor, Latest, In
    <3>4. boot.slot = slot_of(boot.seq)
      BY <2>1 DEF BootInv, Quiet
    <3> QED BY <2>2, <3>2, <3>3, <3>4 DEF Anchor
  <2>4. CASE s \notin In(od, {"valid"})
    BY <2>2, <2>4 DEF In
  <2> QED BY <2>3, <2>4
<1> QED BY <1>1, ChainCorrect, ReliableCorrect, PTL DEF Spec, TrustedJump

-----------------------------------------------------------------------------
(* The refinement: what the two sectors mean to the A/B contract.          *)

\* The confirmed version is the number of the latest Valid entry.
LEMMA ConfirmedIs ==
  TypeOK => /\ In(od, {"valid"}) = {} => Confirmed = 0
            /\ \A s \in Sectors : Latest(od, In(od, {"valid"}), s) => Confirmed = od[s].seq
<1> SUFFICES ASSUME TypeOK, NEW s \in Sectors, Latest(od, In(od, {"valid"}), s)
             PROVE  Confirmed = od[s].seq
  BY DEF Confirmed
<1> DEFINE Best(n) == \E t \in Sectors : Latest(od, In(od, {"valid"}), t) /\ od[t].seq = n
<1>1. \A t \in Sectors : od[t].seq \in Nat
  BY MaxSeqAssumption DEF TypeOK, Raw
<1>2. od[s].seq \in SeqNo
  BY MaxSeqAssumption DEF TypeOK, Raw, Latest, In, decodes, State, SeqNo
<1>3. \A n \in SeqNo : Best(n) => n = od[s].seq
  BY <1>1 DEF Latest, In
<1>4. Best(od[s].seq)
  OBVIOUS
<1>5. Confirmed = CHOOSE n \in SeqNo : Best(n)
  BY DEF Confirmed, Latest
<1> HIDE DEF Best
<1>6. (CHOOSE n \in SeqNo : Best(n)) = od[s].seq
  BY <1>2, <1>3, <1>4
<1> QED BY <1>5, <1>6

\* At most one sector decodes with a state other than Valid.
LEMMA OneCandidate ==
  ASSUME ChainInv, NEW s \in Ok(od), NEW t \in Ok(od),
         s \notin In(od, {"valid"}), t \notin In(od, {"valid"})
  PROVE  s = t
<1>1. PICK v \in In(od, {"valid"}) : TRUE
  BY DEF ChainInv, ChainShape, Virgin
<1>2. s \in Sectors /\ t \in Sectors /\ v \in Sectors
  BY <1>1 DEF Ok, In
<1> QED BY <1>1, <1>2 DEF Sectors

\* Between its erase and its commit word the sector in flight holds nothing,
\* and the other one holds no candidate.
LEMMA FlightEmpty ==
  ChainInv /\ wr.step \in {"body", "commit"} =>
    In(od, {"pending_verify"}) = {} /\ In(od, {"new"}) = {}
<1> SUFFICES ASSUME ChainInv, wr.step \in {"body", "commit"}, NEW s \in In(od, {"new", "pending_verify"})
             PROVE  FALSE
  BY DEF In
<1>1. Writing
  BY DEF Writing
<1>2. s \in Ok(od) /\ s \notin In(od, {"valid"}) /\ s \in Sectors
  BY DEF Ok, In, State
<1>3. 1 - wr.sector \in In(od, {"valid"}) /\ wr.sector \in Sectors
  BY <1>1, <1>2, OtherValid DEF ChainInv, ChainShape, Virgin
<1>4. s = wr.sector
  BY <1>2, <1>3, Other
<1>5. ~decodes(od[wr.sector])
  BY DEF ChainInv, BootInv, WriteShape, decodes, BLANK, body, State
<1> QED BY <1>2, <1>4, <1>5 DEF In

\* The candidate while an entry is being rewritten.
LEMMA CandidateInFlight ==
  ChainInv /\ wr.step \in {"body", "commit"} =>
    /\ wr.state = "pending_verify" => Candidate = [seq |-> wr.seq, stage |-> "new"]
    /\ wr.state = "valid" /\ phase = "run" => Candidate = [seq |-> wr.seq, stage |-> "trial"]
    /\ wr.state # "pending_verify" /\ (wr.state = "valid" => phase # "run") => Candidate = AB!None
<1> SUFFICES ASSUME ChainInv, wr.step \in {"body", "commit"}
             PROVE  /\ wr.state = "pending_verify" => Candidate = [seq |-> wr.seq, stage |-> "new"]
                    /\ wr.state = "valid" /\ phase = "run" => Candidate = [seq |-> wr.seq, stage |-> "trial"]
                    /\ wr.state # "pending_verify" /\ (wr.state = "valid" => phase # "run") => Candidate = AB!None
  OBVIOUS
<1>1. In(od, {"pending_verify"}) = {} /\ In(od, {"new"}) = {}
  BY FlightEmpty
<1> QED BY <1>1 DEF Candidate, AB!None

\* How far a pending entry got.
Stage(s) == IF phase \in {"exec", "run"} /\ od[s].seq = boot.seq THEN "trial" ELSE "spent"

\* The candidate while no entry is being rewritten.
LEMMA CandidateOnFlash ==
  ChainInv /\ wr.step \in {"idle", "erase"} =>
    /\ \A p \in In(od, {"pending_verify"}) : Candidate = Entry(p, Stage(p))
    /\ \A n \in In(od, {"new"}) : Candidate = Entry(n, "new")
    /\ In(od, {"pending_verify"}) = {} /\ In(od, {"new"}) = {} => Candidate = AB!None
<1> SUFFICES ASSUME ChainInv, wr.step \in {"idle", "erase"}
             PROVE  /\ \A p \in In(od, {"pending_verify"}) : Candidate = Entry(p, Stage(p))
                    /\ \A n \in In(od, {"new"}) : Candidate = Entry(n, "new")
                    /\ In(od, {"pending_verify"}) = {} /\ In(od, {"new"}) = {} => Candidate = AB!None
  OBVIOUS
<1>1. \A s, t \in In(od, {"pending_verify", "new"}) : s = t
  BY OneCandidate DEF In, Ok, State
<1>2. ASSUME NEW p \in In(od, {"pending_verify"}) PROVE Candidate = Entry(p, Stage(p))
  <2>1. (CHOOSE s \in Sectors : s \in In(od, {"pending_verify"})) = p
    BY <1>1 DEF In
  <2> QED BY <2>1 DEF Candidate, Stage
<1>3. ASSUME NEW n \in In(od, {"new"}) PROVE Candidate = Entry(n, "new")
  <2>1. (CHOOSE s \in Sectors : s \in In(od, {"new"})) = n
    BY <1>1 DEF In
  <2>2. In(od, {"pending_verify"}) = {}
    BY <1>1 DEF In
  <2> QED BY <2>1, <2>2 DEF Candidate
<1>4. In(od, {"pending_verify"}) = {} /\ In(od, {"new"}) = {} => Candidate = AB!None
  BY DEF Candidate, AB!None
<1> QED BY <1>2, <1>3, <1>4

\* The four facts, before and after a step.
LEMMA Seen ==
  ASSUME ChainInv, ChainInv'
  PROVE  /\ In(od', {"valid"}) = {} => Confirmed' = 0
         /\ \A s \in Sectors : Latest(od', In(od', {"valid"}), s) => Confirmed' = od'[s].seq
<1>1. TypeOK'
  BY DEF ChainInv, BootInv
<1>2. TypeOK' => (/\ In(od, {"valid"}) = {} => Confirmed = 0
            /\ \A s \in Sectors : Latest(od, In(od, {"valid"}), s) => Confirmed = od[s].seq)'
  BY ConfirmedIs, PTL
<1> QED BY <1>1, <1>2 DEF Latest, In

\* The contract's variables, as the refinement mapping computes them.
abstract == <<Confirmed, Candidate, Running>>

\* The same entries under no write: only a trial that a reset ended looks different.
LEMMA SameEntries ==
  ASSUME ChainInv, ChainInv', od' = od,
         wr.step \in {"idle", "erase"}, wr'.step \in {"idle", "erase"}
  PROVE  /\ Confirmed' = Confirmed
         /\ (\A p \in In(od, {"pending_verify"}) : Stage(p)' = Stage(p)) => Candidate' = Candidate
         /\ phase' \notin {"exec", "run"} => Candidate' = AB!Spent(Candidate)
<1>1. Confirmed' = Confirmed
  BY DEF Confirmed, Latest, In
<1> DEFINE OnFlash == /\ \A p \in In(od, {"pending_verify"}) : Candidate = Entry(p, Stage(p))
                      /\ \A n \in In(od, {"new"}) : Candidate = Entry(n, "new")
                      /\ In(od, {"pending_verify"}) = {} /\ In(od, {"new"}) = {} => Candidate = AB!None
<1>2. OnFlash
  BY CandidateOnFlash
<1>3. OnFlash'
  <2>1. (ChainInv /\ wr.step \in {"idle", "erase"} => OnFlash)'
    BY CandidateOnFlash, PTL
  <2> QED BY <2>1
<1>4. CASE In(od, {"pending_verify"}) # {}
  <2>1. PICK p \in In(od, {"pending_verify"}) : TRUE
    BY <1>4
  <2>2. Candidate = [seq |-> od[p].seq, stage |-> Stage(p)]
    BY <1>2, <2>1 DEF Entry
  <2>3. Candidate' = [seq |-> od[p].seq, stage |-> Stage(p)']
    BY <1>3, <2>1 DEF Entry, In
  <2>4. phase' \notin {"exec", "run"} => Stage(p)' = "spent"
    BY DEF Stage
  <2>5. Stage(p) \in {"trial", "spent"}
    BY DEF Stage
  <2> QED BY <1>1, <2>1, <2>2, <2>3, <2>4, <2>5 DEF AB!Spent
<1>5. CASE In(od, {"pending_verify"}) = {} /\ In(od, {"new"}) # {}
  <2>1. PICK n \in In(od, {"new"}) : TRUE
    BY <1>5
  <2>2. Candidate = [seq |-> od[n].seq, stage |-> "new"] /\ Candidate' = Candidate
    BY <1>2, <1>3, <2>1 DEF Entry, In
  <2> QED BY <1>1, <2>2 DEF AB!Spent
<1>6. CASE In(od, {"pending_verify"}) = {} /\ In(od, {"new"}) = {}
  <2>1. Candidate = AB!None /\ Candidate' = AB!None
    BY <1>2, <1>3, <1>6 DEF In, AB!None
  <2> QED BY <1>1, <2>1 DEF AB!Spent, AB!None
<1> QED BY <1>4, <1>5, <1>6

\* The board stops, or goes through a stage of the bootloader that writes nothing.
LEMMA QuitAB ==
  ASSUME ChainInv, ChainInv', od' = od, phase' \notin {"exec", "run"},
         wr.step \in {"idle", "erase"}, wr'.step \in {"idle", "erase"}
  PROVE  AB!Next
<1>1. Running' = 0
  BY DEF Running
<1> QED BY <1>1, SameEntries DEF AB!Next, AB!Reset

\* A step that leaves the contract's variables alone.
LEMMA StutterAB ==
  ASSUME ChainInv, ChainInv', od' = od, phase' = phase, boot' = boot,
         wr.step \in {"idle", "erase"}, wr'.step \in {"idle", "erase"}
  PROVE  UNCHANGED abstract
<1>1. \A p \in In(od, {"pending_verify"}) : Stage(p)' = Stage(p)
  BY DEF Stage
<1>2. Running' = Running
  BY DEF Running
<1> QED BY <1>1, <1>2, SameEntries DEF abstract

\* The plan: what it boots is not a trial that was begun before.
LEMMA PlanAB ==
  ASSUME ChainInv, ChainInv', PlanBoot
  PROVE  AB!Next \/ UNCHANGED abstract
<1>1. od' = od /\ wr' = wr /\ wr.step = "idle" /\ phase = "plan"
  BY DEF PlanBoot, Proceed, HaltWith, ChainInv, BootInv, Quiet
<1>2. CASE phase' # "exec"
  <2>1. phase' \notin {"exec", "run"}
    BY <1>2 DEF PlanBoot, Proceed, HaltWith
  <2> QED BY <1>1, <2>1, QuitAB
<1>3. CASE phase' = "exec"
  <2>1. PICK ok \in ImageOk : \E plan \in plan_boot(od, ok) :
          IF plan.boot = "slot" THEN Proceed(plan) ELSE HaltWith(plan.boot)
    BY <1>3 DEF PlanBoot, read_otadata, HaltWith
  <2>2. PICK plan \in plan_boot(od, ok) : plan.boot = "slot" /\ Proceed(plan)
    BY <1>3, <2>1 DEF HaltWith
  <2>3. ASSUME NEW p \in In(od, {"pending_verify"}) PROVE Stage(p) = "spent" /\ Stage(p)' = "spent"
    <3>1. p \in Ok(od)
      BY DEF In, Ok, State
    <3>2. PICK c \in Sectors : c \in Candidates(od, ok) /\ plan.seq = od[c].seq
      BY <2>2, <3>1 DEF plan_boot, Halt, Latest
    <3>3. c \in Ok(od) /\ c # p
      BY <3>2 DEF Candidates, In, Ok, State
    <3>4. od[c].seq # od[p].seq
      BY <3>1, <3>3 DEF ChainInv, ChainShape, Unique
    <3> QED BY <1>1, <2>2, <3>2, <3>4 DEF Proceed, Stage
  <2>4. Running = 0 /\ Running' = 0
    BY <1>1, <1>3 DEF Running
  <2> QED BY <1>1, <2>3, <2>4, SameEntries DEF abstract
<1> QED BY <1>2, <1>3

\* The jump: the candidate on trial starts, or the confirmed version.
LEMMA LoadAB ==
  ASSUME ChainInv, ChainInv', ReliableShape, LoadImage
  PROVE  AB!Next
<1>1. phase = "exec" /\ wr.step = "idle" /\ todo = {} /\ od' = od /\ wr' = wr
  BY DEF LoadImage, HaltWith
<1>2. CASE phase' # "run"
  <2>1. phase' \notin {"exec", "run"}
    BY <1>2 DEF LoadImage, HaltWith
  <2> QED BY <1>1, <2>1, QuitAB
<1>3. CASE phase' = "run"
  <2>1. boot' = boot
    BY <1>3 DEF LoadImage, HaltWith
  <2>2. Running = 0 /\ Running' = boot.seq
    BY <1>1, <1>3, <2>1 DEF Running
  <2>3. \A p \in In(od, {"pending_verify"}) : Stage(p)' = Stage(p)
    BY <1>1, <1>3, <2>1 DEF Stage
  <2>4. Confirmed' = Confirmed /\ Candidate' = Candidate
    BY <1>1, <2>3, SameEntries
  <2>5. PICK s \in In(od, {"valid", "pending_verify"}) : od[s].seq = boot.seq
    BY <1>1, BootedEntry DEF ChainInv, Writing
  <2>6. CASE s \in In(od, {"pending_verify"})
    <3>1. Candidate = [seq |-> boot.seq, stage |-> "trial"]
      BY <1>1, <2>5, <2>6, CandidateOnFlash DEF Entry, Stage
    <3> QED BY <2>2, <2>4, <3>1 DEF AB!Next, AB!Start
  <2>7. CASE s \in In(od, {"valid"})
    <3>1. In(od, {"pending_verify"}) = {}
      <4> SUFFICES ASSUME NEW p \in In(od, {"pending_verify"}) PROVE FALSE
        OBVIOUS
      <4>1. od[p].seq = boot.seq
        BY <1>1 DEF ChainInv, BootInv, PlanShape
      <4>2. p \in Ok(od) /\ s \in Ok(od) /\ p # s
        BY <2>7 DEF In, Ok, State
      <4> QED BY <2>5, <4>1, <4>2 DEF ChainInv, ChainShape, Unique
    <3>2. Candidate.stage \in {"none", "new"}
      <4>1. CASE In(od, {"new"}) = {}
        BY <1>1, <3>1, <4>1, CandidateOnFlash DEF AB!None
      <4>2. CASE In(od, {"new"}) # {}
        BY <1>1, <4>2, CandidateOnFlash DEF Entry
      <4> QED BY <4>1, <4>2
    <3>3. Confirmed = boot.seq
      BY <1>1, <2>5, <2>7, RunningLatest, ConfirmedIs DEF ChainInv, BootInv
    <3>4. boot.seq # 0
      BY <2>5, <2>7, MaxSeqAssumption DEF ChainInv, BootInv, TypeOK, Raw, In, decodes
    <3> QED BY <2>2, <2>4, <3>2, <3>3, <3>4 DEF AB!Next, AB!Start
  <2> QED BY <2>5, <2>6, <2>7 DEF In
<1> QED BY <1>2, <1>3

\* A command that completes no Valid entry leaves the confirmed version alone.
LEMMA ConfirmedKept ==
  ASSUME ChainInv, ChainInv', wr.step \in Steps,
         NEW raw \in Outcomes(wr.step, wr, od[wr.sector]),
         od' = [od EXCEPT ![wr.sector] = raw],
         decodes(raw) => raw = od[wr.sector] \/ raw.state # "valid"
  PROVE  Confirmed' = Confirmed
<1>1. /\ wr.sector \in Sectors /\ od'[wr.sector] = raw
      /\ \A s \in Sectors : s # wr.sector => od'[s] = od[s]
  BY SectorShape DEF ChainInv
<1>2. Writing
  BY DEF Writing, Steps
<1>3. CASE In(od, {"valid"}) = {}
  <2>1. In(od', {"valid"}) = {}
    BY <1>1, <1>3 DEF In
  <2> QED BY <1>3, <2>1, Seen, ConfirmedIs DEF ChainInv, BootInv
<1>4. CASE In(od, {"valid"}) # {}
  <2> DEFINE o == 1 - wr.sector
  <2>1. o \in In(od, {"valid"}) /\ o \in Sectors /\ o # wr.sector
    BY <1>1, <1>2, <1>4, OtherValid, Other DEF ChainInv
  <2>2. \A t \in In(od, {"valid"}) : t = o \/ (t = wr.sector /\ od[t].seq <= od[o].seq)
    BY <1>1, <1>2, Other DEF In, ChainInv, BootInv, SparesValid
  <2>3. \A t \in Sectors : od[t].seq \in Nat
    BY MaxSeqAssumption DEF ChainInv, BootInv, TypeOK, Raw
  <2>4. Latest(od, In(od, {"valid"}), o)
    BY <2>1, <2>2, <2>3 DEF Latest
  <2>5. \A t \in In(od', {"valid"}) : t \in In(od, {"valid"}) /\ od'[t] = od[t]
    BY <1>1 DEF In
  <2>6. o \in In(od', {"valid"}) /\ od'[o] = od[o]
    BY <1>1, <2>1 DEF In
  <2>7. Latest(od', In(od', {"valid"}), o)
    BY <2>4, <2>5, <2>6 DEF Latest
  <2> HIDE DEF o
  <2>8. Confirmed = od[o].seq
    BY <2>1, <2>4, ConfirmedIs DEF ChainInv, BootInv
  <2>9. Confirmed' = od'[o].seq
    BY <2>1, <2>7, Seen
  <2> QED BY <2>6, <2>8, <2>9
<1> QED BY <1>3, <1>4

\* Only the sector in flight can hold a candidate.
LEMMA CandidateSector ==
  ASSUME ChainInv, wr.step \in Steps,
         NEW raw \in Outcomes(wr.step, wr, od[wr.sector]),
         od' = [od EXCEPT ![wr.sector] = raw],
         NEW s \in In(od', {"new", "pending_verify"})
  PROVE  s = wr.sector /\ decodes(raw) /\ od'[s] = raw
<1>1. /\ wr.sector \in Sectors /\ od'[wr.sector] = raw
      /\ \A t \in Sectors : t # wr.sector => od'[t] = od[t]
  BY SectorShape DEF ChainInv
<1>2. Writing
  BY DEF Writing, Steps
<1>3. s = wr.sector
  <2> SUFFICES ASSUME s # wr.sector PROVE FALSE
    OBVIOUS
  <2>1. s \in Sectors /\ s = 1 - wr.sector
    BY <1>1, Other DEF In
  <2>2. s \in Ok(od) /\ s \notin In(od, {"valid"})
    BY <1>1, <2>1 DEF In, Ok, State
  <2> QED BY <1>2, <2>1, <2>2, OtherValid DEF ChainInv, ChainShape, Virgin
<1> QED BY <1>1, <1>3 DEF In

\* The two lemmas on the candidate, in the state after a step.
LEMMA SeenCandidate ==
  ASSUME ChainInv'
  PROVE  /\ wr'.step \in {"idle", "erase"} =>
              /\ \A p \in In(od', {"pending_verify"}) : Candidate' = [seq |-> od'[p].seq, stage |-> Stage(p)']
              /\ \A n \in In(od', {"new"}) : Candidate' = [seq |-> od'[n].seq, stage |-> "new"]
              /\ In(od', {"pending_verify"}) = {} /\ In(od', {"new"}) = {} => Candidate' = AB!None
         /\ wr'.step \in {"body", "commit"} =>
              /\ wr'.state = "pending_verify" => Candidate' = [seq |-> wr'.seq, stage |-> "new"]
              /\ wr'.state = "valid" /\ phase' = "run" => Candidate' = [seq |-> wr'.seq, stage |-> "trial"]
              /\ wr'.state # "pending_verify" /\ (wr'.state = "valid" => phase' # "run") => Candidate' = AB!None
<1>1. (ChainInv /\ wr.step \in {"idle", "erase"} =>
        /\ \A p \in In(od, {"pending_verify"}) : Candidate = Entry(p, Stage(p))
        /\ \A n \in In(od, {"new"}) : Candidate = Entry(n, "new")
        /\ In(od, {"pending_verify"}) = {} /\ In(od, {"new"}) = {} => Candidate = AB!None)'
  BY CandidateOnFlash, PTL
<1>2. (ChainInv /\ wr.step \in {"body", "commit"} =>
        /\ wr.state = "pending_verify" => Candidate = [seq |-> wr.seq, stage |-> "new"]
        /\ wr.state = "valid" /\ phase = "run" => Candidate = [seq |-> wr.seq, stage |-> "trial"]
        /\ wr.state # "pending_verify" /\ (wr.state = "valid" => phase # "run") => Candidate = AB!None)'
  BY CandidateInFlight, PTL
<1>3. /\ \A p \in In(od', {"pending_verify"}) : Entry(p, Stage(p))' = [seq |-> od'[p].seq, stage |-> Stage(p)']
      /\ \A n \in In(od', {"new"}) : Entry(n, "new")' = [seq |-> od'[n].seq, stage |-> "new"]
  BY DEF Entry
<1> QED BY <1>1, <1>2, <1>3 DEF In, AB!None

\* The candidate is lost, or there was none.
LEMMA NoneAB ==
  ASSUME Confirmed' = Confirmed, Candidate' = AB!None, Running' \in {0, Running}
  PROVE  [AB!Next]_abstract
  BY DEF AB!Next, AB!Change, AB!Drop, AB!Reset, AB!Spent, AB!None, abstract

\* An entry write that ends without a new entry.
LEMMA LostAB ==
  ASSUME ChainInv, ChainInv', wr.step \in Steps,
         NEW raw \in Outcomes(wr.step, wr, od[wr.sector]),
         od' = [od EXCEPT ![wr.sector] = raw], ~decodes(raw), wr'.step = "idle",
         Running' \in {0, Running}
  PROVE  [AB!Next]_abstract
<1>1. Confirmed' = Confirmed
  BY ConfirmedKept
<1>2. In(od', {"pending_verify"}) = {} /\ In(od', {"new"}) = {}
  BY CandidateSector DEF In
<1>3. Candidate' = AB!None
  BY <1>2, SeenCandidate
<1> QED BY <1>1, <1>3, NoneAB

\* The commit word of an entry: the change of the contract it stands for, in
\* the bootloader or in the application, with or without the reset that follows.
LEMMA CommitAB ==
  ASSUME ChainInv, ChainInv', ReliableShape, wr.step = "commit", wr'.step = "idle",
         od' = [od EXCEPT ![wr.sector] = encode(wr)],
         encode(wr) \in Outcomes(wr.step, wr, od[wr.sector]), decodes(encode(wr)),
         phase' \notin {"exec", "run"} \/ (phase' = phase /\ boot' = boot)
  PROVE  [AB!Next]_abstract
<1>1. wr.step \in Steps /\ Writing /\ phase \in {"exec", "run"}
  BY DEF Steps, Writing, ChainInv, BootInv, Quiet
<1>2. /\ wr.sector \in Sectors /\ od'[wr.sector] = encode(wr)
      /\ \A s \in Sectors : s # wr.sector => od'[s] = od[s]
  BY <1>1, SectorShape DEF ChainInv
<1>3. encode(wr).seq = wr.seq /\ encode(wr).state = wr.state /\ wr.state \in State
      /\ wr.seq \in Nat /\ wr.seq # 0
  BY MaxSeqAssumption DEF encode, ChainInv, BootInv, TypeOK, SeqNo
<1>4. /\ phase' \notin {"exec", "run"} => Running' = 0
      /\ phase' \in {"exec", "run"} => Running' = Running
      /\ phase = "exec" => Running = 0 /\ Running' = 0
      /\ phase = "run" => Running = boot.seq
  BY DEF Running
<1>5. wr.sector \notin Ok(od)
  BY DEF ChainInv, BootInv, WriteShape, Ok, In, decodes, body, State
<1>6. \A s \in In(od', {"new", "pending_verify"}) : s = wr.sector /\ wr.state = od'[s].state
  BY <1>1, <1>3, CandidateSector
<1>7. CASE wr.state = "pending_verify"
  <2>1. Confirmed' = Confirmed
    BY <1>1, <1>3, <1>7, ConfirmedKept
  <2>2. Candidate = [seq |-> wr.seq, stage |-> "new"]
    BY <1>7, CandidateInFlight
  <2>3. phase = "exec" /\ wr.seq = boot.seq
    BY <1>1, <1>7 DEF ChainInv, BootInv, RunShape, PlanShape, PlannedWrite
  <2>4. PICK s \in In(od', {"pending_verify"}) : s = wr.sector
    BY <1>2, <1>3, <1>7 DEF In
  <2>5. Candidate' = [seq |-> wr.seq, stage |-> Stage(s)']
    BY <1>2, <1>3, <2>4, SeenCandidate
  <2>6. CASE phase' = "exec" /\ boot' = boot
    <3>1. Stage(s)' = "trial"
      BY <1>2, <1>3, <2>3, <2>4, <2>6 DEF Stage
    <3> QED BY <1>4, <2>1, <2>2, <2>3, <2>5, <3>1 DEF AB!Next, AB!Change, AB!Begin
  <2>7. CASE phase' \notin {"exec", "run"}
    <3>1. Stage(s)' = "spent"
      BY <2>7 DEF Stage
    <3> QED BY <1>4, <2>1, <2>2, <2>3, <2>5, <3>1 DEF AB!Next, AB!Reset
  <2> QED BY <2>3, <2>6, <2>7
<1>8. CASE wr.state = "valid"
  <2>1. wr.sector \in In(od', {"valid"})
    BY <1>2, <1>3, <1>8 DEF In
  <2>2. In(od', {"pending_verify"}) = {} /\ In(od', {"new"}) = {}
    BY <1>6, <1>8 DEF In
  <2>3. Candidate' = AB!None
    BY <2>2, SeenCandidate
  <2>4. \A t \in In(od', {"valid"}) : t = wr.sector \/ (t \in In(od, {"valid"}) /\ od'[t] = od[t])
    BY <1>2 DEF In
  <2>5. CASE phase = "exec"
    <3>1. In(od, {"valid"}) = {}
      BY <1>1, <1>8, <2>5 DEF ChainInv, BootInv, PlanShape, PlannedWrite
    <3>2. wr.seq = 1
      BY <1>1, <3>1 DEF ChainInv, ChainShape, Virgin
    <3>3. Latest(od', In(od', {"valid"}), wr.sector)
      <4>1. \A t \in In(od', {"valid"}) : od'[t].seq <= od'[wr.sector].seq
        BY <1>2, <1>3, <2>4, <3>1
      <4> QED BY <2>1, <4>1 DEF Latest
    <3>4. Confirmed = 0 /\ Confirmed' = 1
      BY <1>2, <1>3, <3>1, <3>2, <3>3, Seen, ConfirmedIs DEF ChainInv, BootInv
    <3>5. Candidate = AB!None
      BY <1>8, <2>5, CandidateInFlight
    <3> QED BY <1>4, <2>3, <2>5, <3>4, <3>5 DEF AB!Next, AB!Change, AB!Provision
  <2>6. CASE phase = "run"
    <3>1. wr.seq = boot.seq
      BY <1>1, <1>8 DEF ChainInv, ChainShape, Unique
    <3>2. \A t \in In(od, {"valid"}) : od[t].seq <= boot.seq
      BY <2>6 DEF ReliableShape
    <3>3. Latest(od', In(od', {"valid"}), wr.sector)
      <4>1. \A t \in In(od', {"valid"}) : od'[t].seq <= od'[wr.sector].seq
        BY <1>2, <1>3, <2>4, <3>1, <3>2
      <4> QED BY <2>1, <4>1 DEF Latest
    <3>4. Confirmed' = wr.seq
      BY <1>2, <1>3, <3>3, Seen
    <3>5. Candidate = [seq |-> wr.seq, stage |-> "trial"]
      BY <1>8, <2>6, CandidateInFlight
    <3>6. AB!Confirm
      BY <1>4, <2>3, <2>6, <3>1, <3>4, <3>5 DEF AB!Confirm
    <3> QED BY <1>4, <3>6 DEF AB!Next, AB!Change, AB!Reset
  <2> QED BY <1>1, <2>5, <2>6
<1>9. CASE wr.state = "new"
  <2>1. Confirmed' = Confirmed
    BY <1>1, <1>3, <1>9, ConfirmedKept
  <2>2. Candidate = AB!None
    BY <1>9, CandidateInFlight
  <2>3. wr.sector \in In(od', {"new"})
    BY <1>2, <1>3, <1>9 DEF In
  <2>4. Candidate' = [seq |-> wr.seq, stage |-> "new"]
    BY <1>2, <1>3, <2>3, SeenCandidate
  <2>5. phase = "run"
    BY <1>1, <1>9 DEF ChainInv, ChainShape, ExecShape
  <2>6. PICK a \in Sectors : Latest(od, In(od, {"valid"}), a)
    BY <2>5 DEF ReliableShape, Anchor, ChainInv, ChainShape, Virgin
  <2>7. Confirmed = od[a].seq /\ a \in In(od, {"valid"})
    BY <2>6, ConfirmedIs DEF ChainInv, BootInv, Latest
  <2>8. a \in Ok(od)
    BY <2>7 DEF Ok, In, State
  <2>9. Confirmed < wr.seq
    BY <1>1, <1>5, <1>9, <2>7, <2>8 DEF ChainInv, ChainShape, Unique
  <2>10. boot.seq # 0
    <3>1. od[a].seq \in Nat /\ od[a].seq # 0 /\ boot.seq \in Nat
      BY <2>7, MaxSeqAssumption DEF ChainInv, BootInv, TypeOK, Raw, In, decodes, State
    <3>2. od[a].seq <= boot.seq
      BY <2>5, <2>7 DEF ReliableShape
    <3> QED BY <3>1, <3>2
  <2>11. AB!Offer
    BY <1>4, <2>1, <2>2, <2>4, <2>5, <2>9, <2>10 DEF AB!Offer, AB!None
  <2> QED BY <1>4, <2>11 DEF AB!Next, AB!Change, AB!Reset
<1>10. CASE wr.state \in {"invalid", "aborted"}
  <2>1. Confirmed' = Confirmed
    BY <1>1, <1>3, <1>10, ConfirmedKept
  <2>2. In(od', {"pending_verify"}) = {} /\ In(od', {"new"}) = {}
    BY <1>6, <1>10 DEF In
  <2>3. Candidate' = AB!None
    BY <2>2, SeenCandidate
  <2>4. Running' \in {0, Running}
    BY <1>4
  <2> QED BY <2>1, <2>3, <2>4, NoneAB
<1> QED BY <1>3, <1>7, <1>8, <1>9, <1>10 DEF State

\* A write that is over, whichever way: passed, failed or cut.
LEMMA EndAB ==
  ASSUME ChainInv, ChainInv', ReliableShape, wr.step \in Steps, wr'.step = "idle",
         NEW raw \in Outcomes(wr.step, wr, od[wr.sector]),
         od' = [od EXCEPT ![wr.sector] = raw],
         phase' \notin {"exec", "run"} \/ (phase' = phase /\ boot' = boot)
  PROVE  [AB!Next]_abstract
<1>1. CASE ~decodes(raw)
  <2>1. Running' \in {0, Running}
    BY DEF Running
  <2> QED BY <1>1, <2>1, LostAB
<1>2. CASE decodes(raw) /\ wr.step = "commit"
  <2>1. ~decodes(od[wr.sector])
    BY <1>2 DEF ChainInv, BootInv, WriteShape, decodes, body
  <2>2. raw = encode(wr)
    BY <1>2, <2>1, SectorShape DEF ChainInv
  <2> QED BY <1>2, <2>2, CommitAB
<1>3. CASE decodes(raw) /\ wr.step # "commit"
  <2>1. raw = od[wr.sector]
    BY <1>3, SectorShape DEF ChainInv
  <2>2. wr.step # "body"
    BY <1>3, <2>1 DEF ChainInv, BootInv, WriteShape, decodes, BLANK, State
  <2>3. wr.step = "erase"
    BY <1>3, <2>2 DEF Steps
  <2>4. od' = od
    BY <2>1 DEF ChainInv, BootInv, TypeOK
  <2>5. CASE phase' \notin {"exec", "run"}
    BY <2>3, <2>4, <2>5, QuitAB
  <2>6. CASE phase' = phase /\ boot' = boot
    BY <2>3, <2>4, <2>6, StutterAB
  <2> QED BY <2>5, <2>6
<1> QED BY <1>1, <1>2, <1>3

\* The erase passed: the entry that is rewritten stands for what it was.
LEMMA EraseAB ==
  ASSUME ChainInv, ChainInv', wr.step = "erase", wr' = [wr EXCEPT !.step = "body"],
         od' = [od EXCEPT ![wr.sector] = BLANK], UNCHANGED <<phase, boot>>
  PROVE  [AB!Next]_abstract
<1>1. wr.step \in Steps /\ Writing /\ BLANK \in Outcomes(wr.step, wr, od[wr.sector]) /\ ~decodes(BLANK)
  BY DEF Steps, Writing, Outcomes, Done, decodes, BLANK, State
<1>2. Confirmed' = Confirmed
  BY <1>1, ConfirmedKept
<1>3. wr'.step = "body" /\ wr'.seq = wr.seq /\ wr'.state = wr.state
  BY DEF ChainInv, BootInv, TypeOK
<1>4. Running' = Running
  BY DEF Running
<1>5. phase \in {"exec", "run"}
  BY <1>1 DEF ChainInv, BootInv, Quiet, Writing
<1>6. CASE wr.state = "pending_verify"
  <2>1. Rewrites(wr, "new")
    BY <1>1, <1>5, <1>6 DEF ChainInv, ChainShape, ExecShape, BootInv, RunShape
  <2>2. Candidate = [seq |-> wr.seq, stage |-> "new"]
    BY <2>1, CandidateOnFlash DEF Rewrites, Entry
  <2>3. Candidate' = [seq |-> wr.seq, stage |-> "new"]
    BY <1>3, <1>6, SeenCandidate
  <2> QED BY <1>2, <1>4, <2>2, <2>3 DEF abstract
<1>7. CASE wr.state = "valid" /\ phase = "run"
  <2>1. Rewrites(wr, "pending_verify") /\ wr.seq = boot.seq
    BY <1>1, <1>7 DEF ChainInv, ChainShape, ConfirmShape, Unique
  <2>2. Candidate = [seq |-> wr.seq, stage |-> "trial"]
    BY <1>7, <2>1, CandidateOnFlash DEF Rewrites, Entry, Stage
  <2>3. Candidate' = [seq |-> wr.seq, stage |-> "trial"]
    BY <1>3, <1>7, SeenCandidate
  <2> QED BY <1>2, <1>4, <2>2, <2>3 DEF abstract
<1>8. CASE wr.state # "pending_verify" /\ (wr.state = "valid" => phase # "run")
  <2>1. Candidate' = AB!None
    BY <1>3, <1>8, SeenCandidate
  <2> QED BY <1>2, <1>4, <2>1, NoneAB
<1> QED BY <1>6, <1>7, <1>8

\* The body passed: nothing decodes before and after.
LEMMA BodyAB ==
  ASSUME ChainInv, ChainInv', wr.step = "body", wr' = [wr EXCEPT !.step = "commit"],
         od' = [od EXCEPT ![wr.sector] = body(wr)], UNCHANGED <<phase, boot>>,
         body(wr) \in Outcomes(wr.step, wr, od[wr.sector])
  PROVE  UNCHANGED abstract
<1>1. wr.step \in Steps /\ ~decodes(body(wr))
  BY DEF Steps, decodes, body
<1>2. Confirmed' = Confirmed
  BY <1>1, ConfirmedKept
<1>3. wr'.step = "commit" /\ wr'.seq = wr.seq /\ wr'.state = wr.state
  BY DEF ChainInv, BootInv, TypeOK
<1>4. Running' = Running
  BY DEF Running
<1>5. Candidate' = Candidate
  <2>1. CASE wr.state = "pending_verify"
    BY <1>3, <2>1, CandidateInFlight, SeenCandidate
  <2>2. CASE wr.state = "valid" /\ phase = "run"
    BY <1>3, <2>2, CandidateInFlight, SeenCandidate
  <2>3. CASE wr.state # "pending_verify" /\ (wr.state = "valid" => phase # "run")
    BY <1>3, <2>3, CandidateInFlight, SeenCandidate
  <2> QED BY <2>1, <2>2, <2>3
<1> QED BY <1>2, <1>4, <1>5 DEF abstract

\* One flash command of an entry write.
LEMMA CommandAB ==
  ASSUME ChainInv, ChainInv', ReliableShape, NEW step \in Steps, Command(step)
  PROVE  [AB!Next]_abstract
<1>1. wr.step = step
  BY DEF Command
<1>2. PICK raw \in Outcomes(wr.step, wr, od[wr.sector]) :
        /\ od' = [od EXCEPT ![wr.sector] = raw]
        /\ (PassWrite /\ ReadBack(step, wr, raw)) \/ Failed
  BY DEF Command, Outcomes, Failed
<1>3. CASE Failed
  <2>1. wr'.step = "idle"
    BY <1>3 DEF Failed, FailWrite, Idle
  <2>2. phase' \notin {"exec", "run"} \/ (phase' = phase /\ boot' = boot)
    BY <1>3 DEF Failed, FailWrite
  <2> QED BY <1>1, <1>2, <2>1, <2>2, EndAB
<1>4. CASE PassWrite /\ ReadBack(step, wr, raw)
  <2>1. raw = Wanted(step, wr) /\ UNCHANGED <<phase, boot>>
    BY <1>4 DEF ReadBack, PassWrite
  <2>2. CASE step = "commit"
    <3>1. wr'.step = "idle"
      BY <1>1, <1>4, <2>2 DEF PassWrite, Idle
    <3> QED BY <1>1, <1>2, <2>1, <3>1, EndAB
  <2>3. CASE step = "erase"
    <3>1. wr' = [wr EXCEPT !.step = "body"] /\ raw = BLANK
      BY <1>1, <1>4, <2>1, <2>3 DEF PassWrite, FollowedBy, Wanted
    <3> QED BY <1>1, <1>2, <2>1, <2>3, <3>1, EraseAB
  <2>4. CASE step = "body"
    <3>1. wr' = [wr EXCEPT !.step = "commit"] /\ raw = body(wr)
      BY <1>1, <1>4, <2>1, <2>4 DEF PassWrite, FollowedBy, Wanted
    <3> QED BY <1>1, <1>2, <2>1, <2>4, <3>1, BodyAB
  <2> QED BY <2>2, <2>3, <2>4 DEF Steps
<1> QED BY <1>2, <1>3, <1>4

\* Every step of the boot chain is a step of the contract, or none.
LEMMA NextAB ==
  ASSUME ChainInv, ChainInv', ReliableShape, [Next]_vars
  PROVE  [AB!Next]_abstract
<1>1. CASE PowerOn \/ SetFlashSize \/ ReadLayout \/ FlashReinit
  <2>1. /\ od' = od /\ wr' = wr /\ phase \notin {"exec", "run"} /\ phase' \notin {"exec", "run"}
    BY <1>1 DEF PowerOn, SetFlashSize, ReadLayout, FlashReinit, Goto, HaltWith
  <2>2. wr.step = "idle"
    BY <2>1 DEF ChainInv, BootInv, Quiet
  <2> QED BY <2>1, <2>2, QuitAB
<1>2. CASE PlanBoot
  BY <1>2, PlanAB
<1>3. CASE StartWrite
  <2>1. od' = od /\ wr.step = "idle" /\ boot' = boot
    BY <1>3 DEF StartWrite, HaltWith
  <2>2. \/ phase' = phase /\ wr'.step = "erase"
        \/ phase' = "halt" /\ wr' = wr
    BY <1>3 DEF StartWrite, HaltWith
  <2> QED BY <2>1, <2>2, StutterAB, QuitAB
<1>4. CASE LoadImage
  BY <1>4, LoadAB
<1>5. CASE WriteStep
  BY <1>5, CommandAB DEF WriteStep, EraseSector, ProgramBody, ProgramCommit, Steps
<1>6. CASE AppStep
  <2>1. od' = od /\ wr.step = "idle" /\ UNCHANGED <<phase, boot>>
    BY <1>6 DEF AppStep, AppAlive, Confirm, Reject, Activate, UploadOpen, UploadErase, UploadHeader,
                UploadFinish, UploadAbort
  <2>2. wr' = wr \/ wr'.step = "erase"
    BY <1>6 DEF AppStep, Confirm, Reject, Activate, Transition, UploadOpen, UploadErase, UploadHeader,
                UploadFinish, UploadAbort
  <2> QED BY <2>1, <2>2, StutterAB
<1>7. CASE PowerCut
  <2>1. wr'.step = "idle" /\ phase' \notin {"exec", "run"}
    BY <1>7 DEF PowerCut, Idle
  <2>2. CASE wr.step = "idle"
    <3>1. od' = od
      BY <1>7, <2>2 DEF PowerCut, ChainInv, BootInv, TypeOK
    <3> QED BY <2>1, <2>2, <3>1, QuitAB
  <2>3. CASE wr.step # "idle"
    <3>1. wr.step \in Steps
      BY <2>3 DEF ChainInv, BootInv, TypeOK
    <3>2. PICK raw \in Outcomes(wr.step, wr, od[wr.sector]) : od' = [od EXCEPT ![wr.sector] = raw]
      BY <1>7, <2>3 DEF PowerCut
    <3> QED BY <2>1, <3>1, <3>2, EndAB
  <2> QED BY <2>2, <2>3
<1>8. CASE UNCHANGED vars
  <2>1. UNCHANGED <<od, wr, phase, boot>>
    BY <1>8 DEF vars
  <2>2. Confirmed' = Confirmed /\ Candidate' = Candidate /\ Running' = Running
    BY <2>1 DEF Confirmed, Candidate, Running, Latest, In, Entry
  <2> QED BY <2>2 DEF abstract
<1> QED BY <1>1, <1>2, <1>3, <1>4, <1>5, <1>6, <1>7, <1>8 DEF Next, BootStep

\* InitAB: a blank board is the contract's initial state.
LEMMA InitAB == Init => AB!Init
<1> SUFFICES ASSUME Init PROVE AB!Init
  OBVIOUS
<1>1. \A S : In(od, S) = {}
  BY DEF Init, In, decodes, BLANK, State, Sectors
<1>2. wr.step = "idle" /\ phase = "off"
  BY DEF Init, Idle
<1>3. Confirmed = 0 /\ Running = 0
  BY <1>1, <1>2 DEF Confirmed, Running
<1>4. Candidate = AB!None
  BY <1>1, <1>2 DEF Candidate, AB!None
<1> QED BY <1>3, <1>4 DEF AB!Init

\* RefinesAB: for any bound on the sequence numbers, every cut and every failed
\* command, the boot chain makes the contract's steps and no other.
THEOREM RefinesAB ==
  ASSUME ReadFaults = FALSE, TrialUploads = FALSE
  PROVE  Spec => ImplementsAB
<1>1. ChainInv /\ ChainInv' /\ ReliableShape /\ [Next]_vars => [AB!Next]_abstract
  BY NextAB
<1> QED BY <1>1, InitAB, ChainCorrect, ReliableCorrect, PTL DEF Spec, ImplementsAB, AB!Spec, abstract, AB!abvars
=============================================================================
