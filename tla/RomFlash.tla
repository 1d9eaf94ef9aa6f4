------------------------------ MODULE RomFlash ------------------------------
(***************************************************************************)
(* flash_read and flash_program of the boot hardware                       *)
(* (hardware/boot/src/lib.rs; the two chips' versions are the same code):  *)
(* the ROM moves whole words through a window of 64 of them, and these     *)
(* loops cut a transfer of any length, a read at any address, into         *)
(* windows.  The image validator, the loader, the partition table and every*)
(* otadata read-back go through them.                                      *)
(*                                                                         *)
(* Bytes are abstracted to where they come from: moved[i] is the address   *)
(* that byte i of the buffer was read from, or was programmed at.          *)
(***************************************************************************)
EXTENDS Integers

CONSTANTS
  Addresses,   \* flash addresses to consider
  Lengths,     \* buffer lengths to consider
  Faults       \* the ROM may return an error

ASSUME RomAssumption ==
  Addresses \subseteq Nat /\ Lengths \subseteq Nat /\ Faults \in BOOLEAN

VARIABLES
  op,          \* the function called
  at, len,     \* its address, and the length of its buffer
  done,        \* its loop variable
  moved,       \* what became of each byte of the buffer
  words,       \* how much of the window the last transfer used
  pc           \* whether it has returned, and what

vars == <<op, at, len, done, moved, words, pc>>

WINDOW == 64                 \* `[0u32; 64]'

Untouched == -1
Zero      == -2              \* a byte of the window that was never filled

TypeOK ==
  /\ op \in {"read", "program"}
  /\ at \in Addresses /\ len \in Lengths
  /\ done \in 0 .. len
  /\ moved \in [0 .. len - 1 -> Nat \cup {Untouched, Zero}]
  /\ words \in Nat
  /\ pc \in {"run", "ok", "err"}

Init ==
  /\ op \in {"read", "program"}
  /\ at \in Addresses /\ len \in Lengths
  /\ done = 0 /\ words = 0
  /\ moved = [i \in 0 .. len - 1 |-> Untouched]
  /\ pc = "run"

min(a, b) == IF a < b THEN a ELSE b

-----------------------------------------------------------------------------
(* flash_read                                                              *)

\* Fill the window although the read may start inside a word.
want_window == min(len - done, 256)

want  == min(len - done, 252)

pos   == at + done
start == pos - (pos % 4)       \* pos & !3

skip  == pos - start

\* The bytes of the window: those the ROM read at `start'.
window(n, j) == IF j < 4 * n THEN start + j ELSE Zero

ReadWindow ==
  /\ op = "read" /\ pc = "run" /\ done < len
  /\ words' = (skip + want + 3) \div 4
  /\ \/ /\ moved' = [i \in 0 .. len - 1 |->
                       IF done <= i /\ i < done + want
                         THEN window(words', skip + i - done) ELSE moved[i]]
        /\ done' = done + want
        /\ pc' = "run"
     \/ Faults /\ pc' = "err" /\ UNCHANGED <<moved, done>>
  /\ UNCHANGED <<op, at, len>>

-----------------------------------------------------------------------------
(* flash_program                                                           *)

\* Leave the length unchecked.
aligned_at == at % 4 = 0

aligned == at % 4 = 0 /\ len % 4 = 0

Refuse ==
  /\ op = "program" /\ pc = "run" /\ done = 0 /\ ~aligned
  /\ pc' = "err"
  /\ UNCHANGED <<op, at, len, done, moved, words>>

\* `zip(data.chunks_exact(4))' fills whole words only.  A ROM write that fails
\* has programmed some of its bytes.
ProgramWindow ==
  /\ op = "program" /\ pc = "run" /\ aligned /\ done < len
  /\ LET n     == min(len - done, 256)
         whole == n - (n % 4)
         After(k) == [i \in 0 .. len - 1 |->
                        IF done <= i /\ i < done + k
                          THEN IF i < done + whole THEN at + i ELSE Zero
                          ELSE moved[i]]
     IN /\ words' = n \div 4
        /\ \/ moved' = After(n) /\ done' = done + n /\ pc' = "run"
           \/ Faults /\ (\E k \in {0, n \div 2, n} : moved' = After(k))
                     /\ pc' = "err" /\ UNCHANGED done
  /\ UNCHANGED <<op, at, len>>

Done ==
  /\ pc = "run" /\ done = len
  /\ op = "program" => aligned
  /\ pc' = "ok"
  /\ UNCHANGED <<op, at, len, done, moved, words>>

Next == ReadWindow \/ Refuse \/ ProgramWindow \/ Done

Spec == Init /\ [][Next]_vars

-----------------------------------------------------------------------------
\* WindowFits: no transfer is longer than the window on the stack, a read that
\* starts inside a word included ("accepting arbitrary byte alignment",
\* lib.rs:65): the limit of 252 bytes leaves the word it needs.
WindowFits == words <= WINDOW

\* MovedExact: every byte moved so far is the one at its own address, none is
\* skipped at the seam between two windows, and a byte not yet moved was
\* touched only by a program command that failed.
MovedExact ==
  /\ \A i \in 0 .. len - 1 :
       /\ moved[i] \in {Untouched, at + i}
       /\ moved[i] = Untouched => done <= i
       /\ done <= i /\ pc # "err" => moved[i] = Untouched
  /\ pc = "ok" => done = len
=============================================================================
