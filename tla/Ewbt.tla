-------------------------------- MODULE Ewbt --------------------------------
(***************************************************************************)
(* The EWBT boot entries and the decisions of `fibewi::boot', as the       *)
(* bootloader (bootloader/esp/src/main.rs) and the OTA adapter             *)
(* (adapters/ota/src/otadata.rs) use them.  FiBeWI is another repository:  *)
(* everything in this module is EXTERNAL, a contract read off its uses.    *)
(*                                                                         *)
(* The otadata partition has two sectors, each holding one entry.  A raw   *)
(* sector is abstracted to the sequence number and state its body spells   *)
(* and to its commit word.  A body that is half programmed or half erased  *)
(* spells nothing ("torn"); no entry decodes from it.                      *)
(***************************************************************************)
EXTENDS Naturals

CONSTANT MaxSeq              \* bound on the sequence numbers (u32 in the code)

ASSUME MaxSeqAssumption == MaxSeq \in Nat \ {0}

Sectors == 0 .. 1
Slots   == 0 .. 1            \* SLOT_COUNT = 2: ota_0 and ota_1
SeqNo   == 1 .. MaxSeq

State == {"new", "pending_verify", "valid", "invalid", "aborted"}

\* A body that spells an entry spells its number, which is never 0.
Raw == {r \in [seq    : 0 .. MaxSeq,
               state  : State \cup {"erased", "torn"},
               commit : {"erased", "torn", "set"}] : r.state \in State => r.seq # 0}

Write == [sector : Sectors, seq : SeqNo, state : State]

BLANK     == [seq |-> 0, state |-> "erased", commit |-> "erased"]
body(e)   == [seq |-> e.seq, state |-> e.state, commit |-> "erased"]
encode(e) == [seq |-> e.seq, state |-> e.state, commit |-> "set"]

\* decode(raw) = Decoded::Ok(..): an exact body under a complete commit word.
decodes(raw) == raw.state \in State /\ raw.commit = "set"

\* Odd sequence numbers belong to slot 0: the first boot writes seq 1 for it.
slot_of(seq) == (seq + 1) % 2

\* The sectors whose entry decodes with a state in S.
In(od, S) == {s \in Sectors : decodes(od[s]) /\ od[s].state \in S}

Ok(od) == In(od, State)

\* Sector s holds the highest sequence number among the sectors of S.
Latest(od, S, s) == s \in S /\ \A t \in S : od[t].seq <= od[s].seq

Rewrite(od, s, st) == [sector |-> s, seq |-> od[s].seq, state |-> st]

-----------------------------------------------------------------------------
(* Transitions the application asks for.  The Option / Result the code     *)
(* gets is the set of writes it may hold: empty for None and Err.          *)

\* A trial is settled where it stands; the other sector is left alone, which
\* is why "a stale Valid entry may remain in the other sector".
confirm(od) == {Rewrite(od, s, "valid")   : s \in In(od, {"pending_verify"})}
reject(od)  == {Rewrite(od, s, "invalid") : s \in In(od, {"pending_verify"})}

\* A new entry for `target', numbered above every entry, in a sector that is
\* not the one vouching for the confirmed image.  Refused during a trial.
activate(od, target) ==
  {w \in Write :
     /\ In(od, {"pending_verify"}) = {}
     /\ \E v \in Sectors \ {w.sector} : Latest(od, In(od, {"valid"}), v)
     /\ w.state = "new"
     /\ slot_of(w.seq) = target
     /\ \A s \in Ok(od) : od[s].seq < w.seq
     /\ \E s \in Ok(od) : w.seq <= od[s].seq + 2}

-----------------------------------------------------------------------------
(* plan_boot(entries, SLOT_COUNT, image_ok): what to boot and the entries  *)
(* to write before.  `ok' is the set of slots whose image validates.       *)

Plan == [boot   : {"slot", "NoImage", "NoUsableEntry"},
         slot   : Slots,
         seq    : 0 .. MaxSeq,
         writes : SUBSET Write]

Halt(why) == [boot |-> why, slot |-> 0, seq |-> 0, writes |-> {}]

\* Nothing decodes: slot 0 is validated and vouched for with Valid(1).
FirstBoot(ok) ==
  IF 0 \in ok
    THEN {[boot |-> "slot", slot |-> 0, seq |-> 1,
           writes |-> {[sector |-> s, seq |-> 1, state |-> "valid"]}] : s \in Sectors}
    ELSE {Halt("NoImage")}

\* Entries that may still be booted: a trial already begun is not one.
Candidates(od, ok) ==
  {s \in In(od, {"new", "valid"}) : slot_of(od[s].seq) \in ok}

\* An unconfirmed trial is aborted; a new entry starts its trial.
BootWrites(od, s) ==
  {Rewrite(od, p, "aborted") : p \in In(od, {"pending_verify"})}
    \cup {Rewrite(od, n, "pending_verify") : n \in {s} \cap In(od, {"new"})}

\* An entry whose image is refused is passed over and not rewritten.
plan_boot(od, ok) ==
  IF Ok(od) = {}
    THEN FirstBoot(ok) \cup
         (IF \E s \in Sectors : od[s] # BLANK THEN {Halt("NoUsableEntry")} ELSE {})
    ELSE IF Candidates(od, ok) = {}
      THEN {Halt("NoUsableEntry")}
      ELSE {[boot |-> "slot", slot |-> slot_of(od[s].seq), seq |-> od[s].seq,
             writes |-> BootWrites(od, s)] :
              s \in {c \in Sectors : Latest(od, Candidates(od, ok), c)}}
=============================================================================
