--------------------------- MODULE WatchdogProofs ---------------------------
(***************************************************************************)
(* No watchdog resets a halted bootloader, or an application outside its   *)
(* boot window, for every limit the application may arm.                   *)
(***************************************************************************)
EXTENDS Watchdog, TLAPS

Blocks == {"tg0", "rtc"}

\* The block of each call of clear_bit, and the bit it clears.
Block(n) == IF n = 1 THEN "tg0" ELSE "rtc"

\* What clear_bit has done by each of its steps.
Clearing ==
  /\ step \in {"unlock", "write"} => before = reg[Block(nth)]
  /\ step = "write" => Block(nth) \in open
  /\ step = "lock" => FLASHBOOT[Block(nth)] \notin reg[Block(nth)]

\* The bits that the bootloader has cleared so far stay cleared, and TIMG0 is
\* enabled only inside the boot window.
Inv ==
  /\ nth \in 1 .. 3 /\ step \in {"read", "unlock", "write", "lock"}
  /\ chip \in {"esp32c3", "esp32s3"}
  /\ reg \in [Blocks -> SUBSET Int]
  /\ pc # "rom" => nth = 3
  /\ pc = "rom" /\ nth <= 2 => Clearing
  /\ nth >= 2 => 14 \notin reg["tg0"]
  /\ nth = 3 => 12 \notin reg["rtc"]
  /\ EN \in reg["tg0"] => guarded

LEMMA InitInv == Init => Inv
  BY WatchdogAssumption DEF Init, Inv, Blocks, Clearing, FLASHBOOT, EN

LEMMA ClearInv == Inv /\ ClearBit => Inv'
<1> SUFFICES ASSUME Inv, ClearBit PROVE Inv'
  OBVIOUS
<1>1. nth \in {1, 2}
  BY DEF Inv, ClearBit
<1>2. clears(chip)[nth].block = Block(nth)
      /\ clears(chip)[nth].bit = FLASHBOOT[Block(nth)]
      /\ clears(chip)[nth].config = Layout(chip)[Block(nth)].config
      /\ clears(chip)[nth].protect = Layout(chip)[Block(nth)].protect
  BY <1>1 DEF clears, Layout, Block, FLASHBOOT, Inv
<1> HIDE DEF clears, Layout
<1> QED BY <1>1, <1>2 DEF Inv, ClearBit, Clearing, Block, FLASHBOOT, Blocks, EN

LEMMA ResetInv == Inv /\ AtReset => Inv'
  BY DEF Inv, AtReset, Blocks, Clearing, FLASHBOOT, EN

LEMMA NextInv == Inv /\ [Next]_vars => Inv'
<1> SUFFICES ASSUME Inv, [Next]_vars PROVE Inv'
  OBVIOUS
<1>1. CASE ClearBit BY <1>1, ClearInv
<1>2. CASE BootInit
  BY <1>2 DEF Inv, BootInit, Disabled, regs, Blocks, EN
<1>3. CASE BootEnds
  BY <1>3 DEF Inv, BootEnds, regs, Blocks, EN
<1>4. CASE AppInit
  BY <1>4 DEF Inv, AppInit, Disabled, regs, Blocks, EN
<1>5. CASE TimerGroup
  BY <1>5 DEF Inv, TimerGroup, regs, Blocks, EN
<1>6. CASE \E t \in TimeoutsMs : arm_ms(t)
  BY <1>6 DEF Inv, arm_ms, regs, Blocks, EN
<1>7. CASE feed
  BY <1>7 DEF Inv, feed, regs, Blocks, EN
<1>8. CASE disable
  BY <1>8 DEF Inv, disable, regs, Blocks, EN
<1>9. CASE Hang
  BY <1>9 DEF Inv, Hang, regs, Running, Blocks, EN
<1>10. CASE Tick
  BY <1>10 DEF Inv, Tick, Clearing, Block, regs, Blocks, EN
<1>11. CASE Fire
  BY <1>11, ResetInv DEF Fire
<1>12. CASE UNCHANGED vars
  BY <1>12 DEF Inv, Clearing, Block, vars, Blocks, EN
<1> QED BY <1>1, <1>2, <1>3, <1>4, <1>5, <1>6, <1>7, <1>8, <1>9, <1>10, <1>11,
           <1>12 DEF Next

\* OnlyGuardedResetCorrect: on both chips and for every limit, after the
\* bootloader has cleared the flash-boot bits the only watchdog that fires is
\* the one the application has armed and not disabled.
THEOREM OnlyGuardedResetCorrect == Spec => OnlyGuardedReset
<1>1. Inv /\ [Next]_vars
      => [(pc \in Running \cup {"halted", "hung"} /\ ~guarded) => pc' # "rom"]_vars
  <2> SUFFICES ASSUME Inv, Next, pc \in Running \cup {"halted", "hung"}, ~guarded
               PROVE  pc' # "rom"
    BY DEF vars
  <2>1. ~Fire
    BY DEF Inv, Fire, Expired, FLASHBOOT, Running, EN
  <2> QED
    BY <2>1 DEF Next, ClearBit, BootInit, BootEnds, AppInit, TimerGroup, arm_ms,
                feed, disable, Hang, Tick, Running
<1> QED BY <1>1, InitInv, NextInv, PTL DEF Spec, OnlyGuardedReset
=============================================================================
