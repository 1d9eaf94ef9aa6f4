------------------------------ MODULE BootChain ------------------------------
(***************************************************************************)
(* The A/B boot chain of one board: the second-stage bootloader            *)
(* (bootloader/esp/src/main.rs) and the application's use of the OTA       *)
(* adapter (adapters/ota/src/otadata.rs) over the same two otadata sectors *)
(* and the same two image slots, with the power cut at any flash command.  *)
(*                                                                         *)
(* Flash survives a reset: od, image.  Everything else is RAM.             *)
(***************************************************************************)
EXTENDS Otadata

CONSTANTS
  WriteFaults,   \* an otadata command, or its read-back, may fail
  ReadFaults,    \* the bootloader's reads may fail, an image may be refused
  TrialUploads,  \* the caller uploads while a trial is undecided
  Calls          \* the adapter calls the application makes

ASSUME FaultsAssumption ==
  /\ WriteFaults \in BOOLEAN
  /\ ReadFaults \in BOOLEAN
  /\ TrialUploads \in BOOLEAN
  /\ Calls \subseteq {"confirm", "reject", "activate", "upload"}

VARIABLES
  od,       \* the two otadata sectors
  image,    \* what each slot holds
  phase,    \* where the board is: off, a stage of `boot()', or the application
  boot,     \* the plan's (slot, seq), then the running image
  todo,     \* the plan's writes still to execute
  wr,       \* the entry write in flight and its next command
  upl,      \* the target of the artifact upload in progress
  result,   \* what the last adapter call returned
  halt,     \* why the bootloader stopped (BootError)
  tried     \* history: the sequence numbers started as a trial

vars == <<od, image, phase, boot, todo, wr, upl, result, halt, tried>>

(* An image the bootloader accepts is only known to have a sound structure *)
(* (Verify::Structure).  "proven" has run and passed its self-check, or is *)
(* the factory image; "fresh" is a complete upload; "torn" is an upload    *)
(* that stopped half-way behind a sound header; "refused" does not         *)
(* validate.                                                               *)
Content == {"proven", "fresh", "torn", "refused"}

NoUpload == [slot |-> 0, stage |-> "none"]
Idle     == [sector |-> 0, seq |-> 1, state |-> "new", step |-> "idle"]

TypeOK ==
  /\ od \in [Sectors -> Raw]
  /\ image \in [Slots -> Content]
  /\ phase \in {"off", "size", "layout", "retry", "plan", "exec", "run", "halt"}
  /\ boot \in [slot : Slots, seq : 0 .. MaxSeq]
  /\ todo \in SUBSET Write
  /\ wr \in [sector : Sectors, seq : SeqNo, state : State, step : Steps \cup {"idle"}]
  /\ upl \in [slot : Slots, stage : {"none", "open", "erased", "header"}]
  /\ result \in {"none", "ok", "err"}
  /\ halt \in {"none", "FlashRead", "NoPartitionTable", "MissingPartition", "NoImage",
               "NoUsableEntry", "OtadataWrite", "Image", "Mmu"}
  /\ tried \in SUBSET SeqNo

Init ==
  /\ od = [s \in Sectors |-> BLANK]
  /\ image \in [Slots -> Content]
  /\ image[0] \in {"proven", "refused"}       \* the factory image, or none
  /\ image[1] \in {"fresh", "refused"}        \* preloaded, or empty
  /\ phase = "off"
  /\ boot = [slot |-> 0, seq |-> 0]
  /\ todo = {}
  /\ wr = Idle
  /\ upl = NoUpload
  /\ result = "none"
  /\ halt = "none"
  /\ tried = {}

-----------------------------------------------------------------------------
(* The bootloader: main(), boot() and load().                              *)
(* The table itself never changes; a bad read can make it look wrong.      *)

PowerOn ==
  /\ phase = "off"
  /\ phase' = "size"
  /\ UNCHANGED <<od, image, boot, todo, wr, upl, result, halt, tried>>

\* Err from boot(): main() reports it and spins until the board is reset.
HaltWith(why) ==
  /\ phase' = "halt"
  /\ halt' = why
  /\ UNCHANGED <<od, image, boot, todo, wr, upl, result, tried>>

Goto(next) ==
  /\ phase' = next
  /\ UNCHANGED <<od, image, boot, todo, wr, upl, result, halt, tried>>

SetFlashSize ==
  /\ phase = "size"
  /\ Goto("layout") \/ (ReadFaults /\ HaltWith("FlashRead"))

\* A first failure to read the table re-attaches the flash and tries again.
ReadLayout ==
  /\ phase = "layout"
  /\ \/ Goto("plan")
     \/ ReadFaults /\ Goto("retry")
     \/ ReadFaults /\ \E why \in {"NoPartitionTable", "MissingPartition"} : HaltWith(why)

FlashReinit ==
  /\ phase = "retry"
  /\ \/ Goto("plan")
     \/ \E why \in {"FlashRead", "NoPartitionTable", "MissingPartition"} : HaltWith(why)

\* Validate the partition of the other slot.
ImageOk_other == {{s \in Slots : image[1 - s] # "refused"}}

\* The slots whose image may pass image::validate(.., Verify::Structure).
ImageOk ==
  LET sound == {s \in Slots : image[s] # "refused"}
  IN  IF ReadFaults THEN SUBSET sound ELSE {sound}

\* Leave out the write that aborts an unconfirmed trial.
Proceed_noabort(plan) ==
  /\ phase' = "exec"
  /\ boot' = [slot |-> plan.slot, seq |-> plan.seq]
  /\ todo' = {w \in plan.writes : w.state # "aborted"}
  /\ UNCHANGED <<od, image, wr, upl, result, halt, tried>>

\* Leave out the write that records a trial as begun.
Proceed_notrial(plan) ==
  /\ phase' = "exec"
  /\ boot' = [slot |-> plan.slot, seq |-> plan.seq]
  /\ todo' = {w \in plan.writes : w.state # "pending_verify"}
  /\ UNCHANGED <<od, image, wr, upl, result, halt, tried>>

Proceed(plan) ==
  /\ phase' = "exec"
  /\ boot' = [slot |-> plan.slot, seq |-> plan.seq]
  /\ todo' = plan.writes
  /\ UNCHANGED <<od, image, wr, upl, result, halt, tried>>

\* Read the first sector twice.
read_otadata_sector0 == [s \in Sectors |-> od[0]]

read_otadata == od

\* read_otadata, plan_boot, and the match on its answer: Halt returns before
\* any write is made.
PlanBoot ==
  /\ phase = "plan"
  /\ \/ \E ok \in ImageOk : \E plan \in plan_boot(read_otadata, ok) :
          IF plan.boot = "slot" THEN Proceed(plan) ELSE HaltWith(plan.boot)
     \/ ReadFaults /\ HaltWith("FlashRead")

\* Make the same write over and over.
StartWrite_again ==
  /\ phase = "exec" /\ wr.step = "idle"
  /\ \E w \in todo :
       wr' = [sector |-> w.sector, seq |-> w.seq, state |-> w.state, step |-> "erase"]
  /\ UNCHANGED <<od, image, phase, boot, todo, upl, result, halt, tried>>

\* `for write in plan.writes()': flash_unlock, then the three commands below.
StartWrite ==
  /\ phase = "exec"
  /\ wr.step = "idle"
  /\ \E w \in todo :
       \/ /\ todo' = todo \ {w}
          /\ wr' = [sector |-> w.sector, seq |-> w.seq, state |-> w.state, step |-> "erase"]
          /\ UNCHANGED <<od, image, phase, boot, upl, result, halt, tried>>
       \/ WriteFaults /\ HaltWith("OtadataWrite")

\* load: every write is made and the image is validated again before the jump;
\* a segment the flash MMU refuses to map stops it with a sound image too.
LoadImage ==
  /\ phase = "exec"
  /\ wr.step = "idle"
  /\ todo = {}
  /\ \/ /\ image[boot.slot] # "refused"
        /\ phase' = "run"
        /\ result' = "none"
        /\ tried' = tried \cup
             {boot.seq : s \in {t \in In(od, {"new", "pending_verify"}) : od[t].seq = boot.seq}}
        /\ UNCHANGED <<od, image, boot, todo, wr, upl, halt>>
     \/ image[boot.slot] = "refused" /\ HaltWith("Image")
     \/ image[boot.slot] # "refused" /\ HaltWith("Mmu")
     \/ ReadFaults /\ \E why \in {"Image", "FlashRead"} : HaltWith(why)

-----------------------------------------------------------------------------
(* One entry write, the same protocol in the bootloader and the adapter.   *)

FollowedBy(step) == IF step = "erase" THEN "body" ELSE "commit"

\* A failed step halts the bootloader; the adapter returns Err(Verify).
FailWrite(why) ==
  /\ wr' = Idle
  /\ IF phase = "exec"
       THEN phase' = "halt" /\ halt' = why /\ UNCHANGED result
       ELSE result' = "err" /\ UNCHANGED <<phase, halt>>
  /\ UNCHANGED <<image, boot, todo, upl, tried>>

PassWrite ==
  /\ wr' = IF wr.step = "commit" THEN Idle ELSE [wr EXCEPT !.step = FollowedBy(wr.step)]
  /\ result' = IF phase = "run" /\ wr.step = "commit" THEN "ok" ELSE result
  /\ UNCHANGED <<image, phase, boot, todo, upl, halt, tried>>

\* One flash command and its read-back.
Command(step) ==
  /\ wr.step = step
  /\ \E raw \in (IF WriteFaults THEN Outcomes(step, wr, od[wr.sector])
                                ELSE {Done(step, wr, od[wr.sector])}) :
       /\ od' = [od EXCEPT ![wr.sector] = raw]
       /\ \/ ReadBack(step, wr, raw) /\ PassWrite
          \/ ~ReadBack(step, wr, raw) /\ FailWrite("OtadataWrite")
          \/ WriteFaults /\ \E why \in {"OtadataWrite", "FlashRead"} : FailWrite(why)

EraseSector   == Command("erase")
ProgramBody   == Command("body")
ProgramCommit == Command("commit")

-----------------------------------------------------------------------------
(* The application.  A torn image was booted and hangs: it makes no call.  *)
(* One flash mutex: no call starts while an entry write is in flight.      *)

AppAlive ==
  /\ phase = "run"
  /\ image[boot.slot] \in {"proven", "fresh"}
  /\ wr.step = "idle"

\* read_entries, the transition FiBeWI returns, then execute; None and Err are
\* Err(NoTransition), a failed read is Err(Unavailable).
Transition(writes) ==
  \/ /\ \E w \in writes :
          wr' = [sector |-> w.sector, seq |-> w.seq, state |-> w.state, step |-> "erase"]
     /\ result' = "none"
  \/ /\ writes = {} \/ WriteFaults
     /\ result' = "err"
     /\ wr' = wr

\* The running image passed its self-check: that is what the call says.
Confirm ==
  /\ AppAlive /\ "confirm" \in Calls
  /\ Transition(confirm(od))
  /\ image' = IF confirm(od) = {} THEN image ELSE [image EXCEPT ![boot.slot] = "proven"]
  /\ UNCHANGED <<od, phase, boot, todo, upl, halt, tried>>

Reject ==
  /\ AppAlive /\ "reject" \in Calls
  /\ Transition(reject(od))
  /\ UNCHANGED <<od, image, phase, boot, todo, upl, halt, tried>>

\* The new entry is numbered afresh, so its number has not been tried.
Activate(target) ==
  /\ AppAlive /\ "activate" \in Calls
  /\ Transition(activate(od, target))
  /\ tried' = IF wr' = wr THEN tried ELSE tried \ {wr'.seq}
  /\ UNCHANGED <<od, image, phase, boot, todo, upl, halt>>

\* write_target under the lock, which is released before the first append.
UploadOpen ==
  /\ AppAlive /\ "upload" \in Calls
  /\ upl = NoUpload
  /\ TrialUploads \/ image_outcome(od) # "PendingConfirmation"
  /\ \E t \in write_target(od) : upl' = [slot |-> t, stage |-> "open"]
  /\ UNCHANGED <<od, image, phase, boot, todo, wr, result, halt, tried>>

\* The first append erases a batch of sectors, the header's among them; an
\* erase that fails or is cut may leave the header behind.
UploadErase ==
  /\ AppAlive /\ upl.stage = "open"
  /\ upl' = [upl EXCEPT !.stage = "erased"]
  /\ \E c \in {"refused", "torn"} : image' = [image EXCEPT ![upl.slot] = c]
  /\ UNCHANGED <<od, phase, boot, todo, wr, result, halt, tried>>

\* The header block is on flash, the rest is not.
UploadHeader ==
  /\ AppAlive /\ upl.stage = "erased"
  /\ upl' = [upl EXCEPT !.stage = "header"]
  /\ image' = [image EXCEPT ![upl.slot] = "torn"]
  /\ UNCHANGED <<od, phase, boot, todo, wr, result, halt, tried>>

UploadFinish ==
  /\ AppAlive /\ upl.stage = "header"
  /\ upl' = NoUpload
  /\ image' = [image EXCEPT ![upl.slot] = "fresh"]
  /\ UNCHANGED <<od, phase, boot, todo, wr, result, halt, tried>>

UploadAbort ==
  /\ AppAlive /\ upl # NoUpload
  /\ upl' = NoUpload
  /\ UNCHANGED <<od, image, phase, boot, todo, wr, result, halt, tried>>

-----------------------------------------------------------------------------
(* A power cut, a watchdog or a software reset, at any point.  The command *)
(* in flight leaves any of its outcomes.                                   *)

PowerCut ==
  /\ phase # "off"
  /\ \E raw \in (IF wr.step = "idle" THEN {od[wr.sector]}
                                     ELSE Outcomes(wr.step, wr, od[wr.sector])) :
       od' = [od EXCEPT ![wr.sector] = raw]
  /\ phase' = "off"
  /\ boot' = [slot |-> 0, seq |-> 0]
  /\ todo' = {}
  /\ wr' = Idle
  /\ upl' = NoUpload
  /\ result' = "none"
  /\ halt' = "none"
  /\ UNCHANGED <<image, tried>>

BootStep ==
  \/ PowerOn \/ SetFlashSize \/ ReadLayout \/ FlashReinit
  \/ PlanBoot \/ StartWrite \/ LoadImage

WriteStep == EraseSector \/ ProgramBody \/ ProgramCommit

AppStep ==
  \/ Confirm \/ Reject \/ (\E t \in Slots : Activate(t))
  \/ UploadOpen \/ UploadErase \/ UploadHeader \/ UploadFinish \/ UploadAbort

Next == BootStep \/ WriteStep \/ AppStep \/ PowerCut

Spec == Init /\ [][Next]_vars

\* The bootloader and an entry write are straight-line code, and somebody
\* switches the board on.  Nothing is assumed of the application.
FairSpec == Spec /\ WF_vars(BootStep) /\ WF_vars(WriteStep)

-----------------------------------------------------------------------------
(* Properties.                                                             *)

\* Sector s vouches for the confirmed image, and the image is there.
Anchor(s) ==
  /\ Latest(od, In(od, {"valid"}), s)
  /\ image[slot_of(od[s].seq)] = "proven"

Jump == phase # "run" /\ phase' = "run"

\* CommitWordVerified: a commit word is only ever programmed over a body that
\* was read back whole ("The commit word therefore means `I checked this exact
\* body'", main.rs:31), in the bootloader and in the adapter, faults and cuts
\* included.
CommitWordVerified ==
  [][\A s \in Sectors :
       od[s].commit # "set" /\ od'[s].commit = "set" => od[s].state \in State]_vars

\* AnchorKept: once a confirmed image and its Valid entry stand together, some
\* such pair stands for ever, and it never gets older: no interrupted or failed
\* entry write, activation or upload takes the last one away.
AnchorKept ==
  [][\A s \in Sectors :
       Anchor(s) => \E t \in Sectors : Anchor(t)' /\ od'[t].seq >= od[s].seq]_vars

\* TrialOnce: an image whose trial was begun and not confirmed is never started
\* again, however many cuts hit the writes that settle it.
TrialOnce ==
  [][Jump /\ boot.seq \in tried
       => \E s \in In(od, {"valid"}) : od[s].seq = boot.seq]_vars

\* No untried entry waits above the number being booted, unless its image does
\* not validate.
NothingNewer ==
  \A s \in In(od, {"new"}) :
    od[s].seq > boot.seq => image[slot_of(od[s].seq)] = "refused"

\* UpdateTried: an update that was activated is what runs next if its image
\* validates: whatever cuts and failed writes left beside it, the bootloader never
\* starts an older image while the newer, untried entry is on flash.
UpdateTried == [][Jump => NothingNewer]_vars

\* NeverBricked: the bootloader finds nothing to boot only on a board that was
\* never provisioned.
NeverBricked ==
  halt \in {"NoImage", "NoUsableEntry", "Image"} => In(od, {"valid"}) = {}

\* TrustedJump: an image is started either as a trial or because it has proven
\* itself; a Valid entry never vouches for a slot written since.
TrustedJump ==
  [][Jump => \/ image[boot.slot] = "proven"
            \/ \E s \in In(od, {"pending_verify"}) : od[s].seq = boot.seq]_vars

\* NoDowngrade: the running image is never older than a confirmed one.
NoDowngrade ==
  phase = "run" => \A s \in In(od, {"valid"}) : od[s].seq <= boot.seq

\* TargetSparesBooted: while the entry the board booted from stands, the slot
\* that is executing is neither what write_target answers nor what an open upload
\* writes: in an undecided trial too, whose own entry must then count before the
\* stale Valid entry in the other sector, and beside an activation in flight.
TargetSparesBooted ==
  phase = "run" /\ (\E s \in In(od, {"valid", "pending_verify"}) : od[s].seq = boot.seq)
    => /\ boot.slot \notin write_target(od)
       /\ upl # NoUpload => upl.slot # boot.slot

\* OutcomeTruthful: what the agent reads between two calls is what runs:
\* PendingConfirmation during the caller's own trial and only then, and the
\* reported boot entry, when it is live, is the caller's - as long as the
\* caller's entry is there, which a confirm or reject that failed may have erased.
OutcomeTruthful ==
  phase = "run" /\ wr.step = "idle" /\ (\E s \in Ok(od) : od[s].seq = boot.seq) =>
    /\ (image_outcome(od) = "PendingConfirmation")
         <=> (\E s \in Ok(od) : od[s].seq = boot.seq /\ od[s].state = "pending_verify")
    /\ \A e \in boot_entry(od) :
         e.state \in {"valid", "pending_verify"} => e.seq = boot.seq /\ e.slot = boot.slot

(* The inductive invariant behind the theorems of BootChainProofs.        *)

Writing == wr.step # "idle"

\* Between two commands the sector is exactly what the last read-back showed.
WriteShape ==
  /\ wr.step = "body" => od[wr.sector] = BLANK
  /\ wr.step = "commit" => od[wr.sector] = body(wr)

\* Only the bootloader's loop and a running application write.
Quiet ==
  /\ phase \notin {"exec", "run"} => wr.step = "idle"
  /\ phase # "run" => upl.stage = "none"
  /\ phase \in {"exec", "run"} => boot.slot = slot_of(boot.seq)

\* An entry write never goes to the sector that vouches for the confirmed
\* image: a Valid entry there is outlived by one in the other sector.
SparesValid ==
  Writing /\ wr.sector \in In(od, {"valid"}) =>
    1 - wr.sector \in In(od, {"valid"}) /\ od[wr.sector].seq <= od[1 - wr.sector].seq

\* What the bootloader may still write, w being in the plan or in flight.
PlannedWrite(w, rest) ==
  /\ w.state = "valid" => In(od, {"valid"}) = {} /\ rest = {}
  /\ w.state = "pending_verify" => w.seq = boot.seq

PlanShape ==
  phase = "exec" =>
    /\ \A w \in todo : w.sector \notin In(od, {"valid"}) /\ PlannedWrite(w, todo \ {w})
    /\ Writing => PlannedWrite(wr, todo)
    /\ \A s \in In(od, {"pending_verify"}) :
         \/ od[s].seq = boot.seq
         \/ \E w \in todo : w.sector = s
         \/ wr.step = "erase" /\ wr.sector = s

\* The application never starts a trial, and what it confirms is the image
\* that runs.
RunShape ==
  phase = "run" =>
    /\ \A s \in In(od, {"pending_verify"}) : od[s].seq = boot.seq
    /\ Writing => wr.state # "pending_verify"
    /\ Writing /\ wr.state = "valid" => image[slot_of(wr.seq)] = "proven"

\* Inductive invariant of the specification.
BootInv == TypeOK /\ WriteShape /\ Quiet /\ SparesValid /\ PlanShape /\ RunShape

(* What the deeper theorems need beside BootInv.                           *)

\* Never provisioned: nothing decodes, and the only entry the bootloader may
\* write is the one that vouches for the factory image.
Virgin ==
  /\ Ok(od) = {} /\ tried = {} /\ phase # "run"
  /\ image[0] \in {"proven", "refused"}
  /\ phase = "exec" => /\ boot.seq = 1 /\ image[0] = "proven"
                       /\ \A w \in todo : w.state = "valid" /\ w.seq = 1
  /\ Writing => wr.state = "valid" /\ wr.seq = 1

\* No two entries share a number; an entry in flight has none of the other
\* sector's, a fresh one a higher number, and a confirmation the running one's.
Unique ==
  /\ \A s, t \in Ok(od) : od[s].seq = od[t].seq => s = t
  /\ Writing => \A s \in Ok(od) \ {wr.sector} : od[s].seq # wr.seq
  /\ Writing /\ wr.state = "new" => \A s \in Ok(od) \ {wr.sector} : od[s].seq < wr.seq
  /\ Writing /\ wr.state = "valid" => wr.seq = boot.seq

\* A write that settles the entry in its sector has not touched it yet.
Rewrites(w, from) == w.sector \in In(od, {from}) /\ od[w.sector].seq = w.seq

\* Where the number that is being booted comes from: an entry no write is
\* going to touch, or the write that completes it.
Source ==
  \/ \E s \in In(od, {"valid", "pending_verify"}) :
       /\ od[s].seq = boot.seq
       /\ Writing => wr.sector # s
       /\ \A w \in todo : w.sector # s
  \/ \E w \in todo : w.state \in {"valid", "pending_verify"} /\ w.seq = boot.seq
  \/ Writing /\ wr.state \in {"valid", "pending_verify"} /\ wr.seq = boot.seq

\* The bootloader has one entry to write at most, and it is never a fresh one.
ExecShape ==
  phase = "exec" =>
    /\ \A v, w \in todo : v = w
    /\ \A w \in todo :
         /\ \A s \in Ok(od) \ {w.sector} : od[s].seq # w.seq
         /\ w.state # "new"
         /\ w.state = "valid" => w.seq = boot.seq
         /\ w.state = "pending_verify" => Rewrites(w, "new")
    /\ Writing => todo = {} /\ wr.sector \notin In(od, {"valid"}) /\ wr.state # "new"
    /\ wr.step = "erase" /\ wr.state = "pending_verify" => Rewrites(wr, "new")
    /\ Source

ConfirmShape ==
  phase = "run" /\ wr.step = "erase" /\ wr.state = "valid" => Rewrites(wr, "pending_verify")

\* What is still to be tried has not been tried.
TriedShape ==
  /\ \A s \in In(od, {"new"}) : od[s].seq \notin tried
  /\ Writing /\ wr.state = "new" => wr.seq \notin tried
  /\ phase = "exec" /\ boot.seq \in tried => \E s \in In(od, {"valid"}) : od[s].seq = boot.seq

Stopped ==
  /\ halt # "none" => phase = "halt"
  /\ upl.stage = "none" => upl = NoUpload

ChainShape ==
  /\ In(od, {"valid"}) # {} \/ Virgin
  /\ Unique /\ ExecShape /\ ConfirmShape /\ TriedShape /\ Stopped

\* Inductive invariant of the specification, with the origin of every entry.
ChainInv == BootInv /\ ChainShape

\* With reads that do not fail: what is confirmed is there, what is booted is no
\* older and validates, nothing newer waits for its trial, and only a virgin
\* board has nothing to boot.
ReliableShape ==
  /\ In(od, {"valid"}) # {} => \E s \in Sectors : Anchor(s)
  /\ phase \in {"exec", "run"} => \A s \in In(od, {"valid"}) : od[s].seq <= boot.seq
  /\ phase = "exec" => image[boot.slot] # "refused" /\ NothingNewer
  /\ NeverBricked

\* An upload under way is in the slot the confirmed image is not in, no trial
\* is undecided, and only an activation can be in flight beside it.
UploadShape ==
  upl.stage # "none" =>
    /\ In(od, {"pending_verify"}) = {}
    /\ Writing => wr.state = "new"
    /\ \A s \in Sectors : Latest(od, In(od, {"valid"}), s) => slot_of(od[s].seq) # upl.slot

\* Recovers: a provisioned board whose power stays on, and whose flash and MMU
\* fail the bootloader no more, ends up in the application and stays there,
\* wherever the last cut or failure fell.
Recovers ==
  <>[][~PowerCut]_vars /\ <>[](halt \notin {"OtadataWrite", "FlashRead", "Mmu"})
    => ((\E s \in Sectors : Anchor(s)) ~> [](phase = "run"))

\* InactiveTarget: what otadata.rs:66 and shared_flash.rs:80 say of the upload
\* target, "the other slot" and "the inactive slot".
InactiveTarget == upl # NoUpload => upl.slot # boot.slot
=============================================================================
