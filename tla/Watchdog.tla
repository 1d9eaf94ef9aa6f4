------------------------------ MODULE Watchdog ------------------------------
(***************************************************************************)
(* The watchdogs from reset to a supervised application: the bootloader    *)
(* takes the ROM's flash-boot watchdogs off (hardware/boot,                *)
(* clear_flashboot_watchdogs) and either halts or jumps; the application   *)
(* guards its boot check with TIMG0's watchdog (hardware/watchdog).        *)
(*                                                                         *)
(* A register is abstracted to the set of its bits that matter.  What      *)
(* esp_hal and the timer hardware do is external; the registers' places    *)
(* are those the comment above esp32s3::hw gives.                          *)
(***************************************************************************)
EXTENDS Integers, Sequences

CONSTANTS
  Chips,       \* the chips to consider
  TimeoutsMs   \* limits the application gives arm_ms

ASSUME WatchdogAssumption ==
  Chips \subseteq {"esp32c3", "esp32s3"} /\ TimeoutsMs \subseteq Nat

VARIABLES
  chip,
  pc,          \* the bootloader, or how far the application is
  nth, step,   \* clear_flashboot_watchdogs: which clear_bit, and where in it
  before,      \* what clear_bit read
  reg,         \* WDTCONFIG0 of each block
  open,        \* the blocks whose write protection is lifted
  timeout,     \* limit of TIMG0's first stage
  elapsed,     \* its counter
  guarded      \* the application has armed the watchdog and not disabled it

vars == <<chip, pc, nth, step, before, reg, open, timeout, elapsed, guarded>>
regs == <<nth, step, before, open>>

EN == 31                                   \* WDT_EN
FLASHBOOT == [tg0 |-> 14, rtc |-> 12]      \* WDT_FLASHBOOT_MOD_EN

\* Where the chips have the registers.
Layout(c) == [tg0 |-> [config |-> \h48, protect |-> \h64],
              rtc |-> IF c = "esp32c3" THEN [config |-> \h90, protect |-> \hA8]
                                       ELSE [config |-> \h98, protect |-> \hB0]]

Running == {"start", "hal", "timers"}      \* an application that does not hang

\* The ROM starts the bootloader with both flash-boot watchdogs ticking.
AtReset ==
  /\ pc' = "rom" /\ nth' = 1 /\ step' = "read" /\ before' = {} /\ open' = {}
  /\ reg' = [b \in {"tg0", "rtc"} |-> {FLASHBOOT[b]}]
  /\ timeout' = 0 /\ elapsed' = 0 /\ guarded' = FALSE
  /\ UNCHANGED chip

Init ==
  /\ chip \in Chips /\ pc = "rom" /\ nth = 1 /\ step = "read"
  /\ before = {} /\ open = {}
  /\ reg = [b \in {"tg0", "rtc"} |-> {FLASHBOOT[b]}]
  /\ timeout = 0 /\ elapsed = 0 /\ guarded = FALSE

-----------------------------------------------------------------------------
(* clear_flashboot_watchdogs                                               *)

\* One chip's offsets for both.
clears_c3(c) ==
  <<[block |-> "tg0", config |-> \h48, protect |-> \h64, bit |-> 14],
    [block |-> "rtc", config |-> \h90, protect |-> \hA8, bit |-> 12]>>

\* The arguments of the two calls of clear_bit.
clears(c) == LET rtc == IF c = "esp32c3" THEN <<\h90, \hA8>> ELSE <<\h98, \hB0>> IN
  <<[block |-> "tg0", config |-> \h48, protect |-> \h64, bit |-> 14],
    [block |-> "rtc", config |-> rtc[1], protect |-> rtc[2], bit |-> 12]>>

\* The accesses of one clear_bit, which miss when the offset is not the
\* register's, and are ignored by a register that is protected.
ClearBit ==
  /\ pc = "rom" /\ nth <= 2
  /\ LET c == clears(chip)[nth]
         at == Layout(chip)[c.block]
         hitsConfig  == c.config = at.config
         hitsProtect == c.protect = at.protect
     IN  \/ /\ step = "read" /\ step' = "unlock"
            /\ before' = IF hitsConfig THEN reg[c.block] ELSE {}
            /\ UNCHANGED <<reg, open, nth>>
         \/ /\ step = "unlock" /\ step' = "write"
            /\ open' = IF hitsProtect THEN open \cup {c.block} ELSE open
            /\ UNCHANGED <<reg, before, nth>>
         \/ /\ step = "write" /\ step' = "lock"
            /\ reg' = IF hitsConfig /\ c.block \in open
                      THEN [reg EXCEPT ![c.block] = before \ {c.bit}] ELSE reg
            /\ UNCHANGED <<open, before, nth>>
         \/ /\ step = "lock" /\ step' = "read" /\ nth' = nth + 1
            /\ open' = IF hitsProtect THEN open \ {c.block} ELSE open
            /\ UNCHANGED <<reg, before>>
  /\ UNCHANGED <<chip, pc, timeout, elapsed, guarded>>

\* esp_hal::init disables the watchdogs (external); flash-boot mode is no
\* part of that.
Disabled(r) == [b \in DOMAIN r |-> r[b] \ {EN}]

BootInit ==
  /\ pc = "rom" /\ nth = 3
  /\ pc' = "boot" /\ reg' = Disabled(reg)
  /\ UNCHANGED <<chip, regs, timeout, elapsed, guarded>>

\* boot() ends in a jump, or in the loop that stays put.
BootEnds ==
  /\ pc = "boot" /\ pc' \in {"start", "halted"}
  /\ UNCHANGED <<chip, regs, reg, timeout, elapsed, guarded>>

-----------------------------------------------------------------------------
(* The application                                                         *)

AppInit ==
  /\ pc = "start" /\ pc' = "hal" /\ reg' = Disabled(reg)
  /\ UNCHANGED <<chip, regs, timeout, elapsed, guarded>>

\* Constructing the timer group resets TIMG0, watchdog included (external).
TimerGroup ==
  /\ pc = "hal" /\ pc' = "timers"
  /\ reg' = [reg EXCEPT !["tg0"] = {}] /\ timeout' = 0 /\ elapsed' = 0
  /\ UNCHANGED <<chip, regs, guarded>>

\* Arm before the timer group is constructed.
arm_ms_early(t) ==
  /\ pc \in {"hal", "timers"}
  /\ timeout' = t /\ elapsed' \in {0, elapsed} /\ guarded' = TRUE
  /\ reg' = [reg EXCEPT !["tg0"] = @ \cup {EN}]
  /\ UNCHANGED <<chip, pc, regs>>

\* The documented order: TIMG0 belongs to esp_rtos first.  Whether arming
\* again restarts the counter is the hardware's affair.
arm_ms(t) ==
  /\ pc = "timers"
  /\ timeout' = t /\ elapsed' \in {0, elapsed} /\ guarded' = TRUE
  /\ reg' = [reg EXCEPT !["tg0"] = @ \cup {EN}]
  /\ UNCHANGED <<chip, pc, regs>>

feed ==
  /\ pc = "timers" /\ elapsed' = 0
  /\ UNCHANGED <<chip, pc, regs, reg, timeout, guarded>>

disable ==
  /\ pc = "timers" /\ guarded' = FALSE
  /\ reg' = [reg EXCEPT !["tg0"] = @ \ {EN}]
  /\ UNCHANGED <<chip, pc, regs, timeout, elapsed>>

Hang ==
  /\ pc \in Running /\ pc' = "hung"
  /\ UNCHANGED <<chip, regs, reg, timeout, elapsed, guarded>>

-----------------------------------------------------------------------------
(* The hardware                                                            *)

Tick ==
  /\ EN \in reg["tg0"] /\ elapsed < timeout /\ elapsed' = elapsed + 1
  /\ UNCHANGED <<chip, pc, regs, reg, timeout, guarded>>

Expired == EN \in reg["tg0"] /\ elapsed >= timeout

Fire ==
  /\ \/ \E b \in {"tg0", "rtc"} : FLASHBOOT[b] \in reg[b]
     \/ Expired
  /\ AtReset

Next ==
  \/ ClearBit \/ BootInit \/ BootEnds \/ AppInit \/ TimerGroup
  \/ (\E t \in TimeoutsMs : arm_ms(t)) \/ feed \/ disable \/ Hang
  \/ Tick \/ Fire

Spec == Init /\ [][Next]_vars

\* The counter runs and the hardware resets.
FairSpec == Spec /\ WF_vars(Tick) /\ WF_vars(Fire)

-----------------------------------------------------------------------------
\* No watchdog resets a bootloader that has halted ("stay put so the message
\* can be read") or an application that is not inside its own boot window:
\* both of the ROM's watchdogs are off before the jump, on either chip.
OnlyGuardedReset ==
  [][(pc \in Running \cup {"halted", "hung"} /\ ~guarded) => pc' # "rom"]_vars

\* An application that hangs inside its boot window is reset: the bootloader
\* runs again and can abort the trial.
Supervised == (pc = "hung" /\ guarded) ~> (pc = "rom")
=============================================================================
