--------------------------- MODULE ArtifactUpload ---------------------------
(***************************************************************************)
(* One artifact upload into an OTA slot: ArtifactWriter's erase-ahead      *)
(* (adapters/ota/src/shared_flash.rs), EspArtifactStorage's sector         *)
(* buffering (adapters/ota/src/lib.rs) and the raw partition erase         *)
(* (hardware/partitions/src/lib.rs), under FiBeWI's WriteSession, which is *)
(* external: it counts received and durable bytes and buffers the rest.    *)
(*                                                                         *)
(* Flash is an array of byte cells; past the slot's end it belongs to the  *)
(* next partition.  A cell holds what the byte is, not its value.          *)
(***************************************************************************)
EXTENDS Integers, FiniteSetsExt

CONSTANTS
  EraseSize,   \* NorFlash::ERASE_SIZE  (0x1000)
  WriteSize,   \* NorFlash::WRITE_SIZE  (4)
  BatchSize,   \* erase_batch_size()    (64 KiB)
  PartSizes,   \* partition sizes to consider
  Sizes,       \* declared artifact sizes to consider
  Chunks,      \* how many bytes one append brings
  MaxFailures  \* bound on the failed calls of one session

ASSUME GeometryAssumption ==
  /\ {EraseSize, WriteSize, BatchSize} \subseteq Nat \ {0}
  /\ EraseSize % WriteSize = 0 /\ BatchSize % EraseSize = 0
  /\ PartSizes \subseteq Nat \ {0} /\ Sizes \subseteq Nat \ {0} /\ Chunks \subseteq Nat \ {0}
  /\ MaxFailures \in Nat

VARIABLES
  part,             \* partition.size
  ahead,            \* new_pre_erased, through ArtifactWriter; else new
  size,             \* the size the session was opened for
  faulty,           \* commands may fail part-way, the caller may give up early
  flash,            \* the cells of the slot and of what follows it
  received,         \* WriteSession::received
  durable,          \* WriteSession::durable
  erased_through,   \* ArtifactWriter, as the next two
  sectors_flushed,
  erase_batches,
  pc,               \* the call in progress, or where it ended
  len,              \* the bytes the call in progress brought
  consumed,         \* EspArtifactStorage::write's loop variable
  failures          \* how many calls failed

session == <<part, ahead, size, faulty>>
vars == <<session, flash, received, durable, erased_through, sectors_flushed,
          erase_batches, pc, len, consumed, failures>>

Cell == {"old", "erased", "data", "pad", "torn", "mixed", "next_partition"}

Cells == 0 .. Max(PartSizes) + Max(Sizes) + BatchSize

div_ceil(a, b) == (a + b - 1) \div b

-----------------------------------------------------------------------------
(* NOR flash (external): programming clears bits of an erased byte.        *)

Programmed(cell, v) ==
  IF cell \in {"erased", "torn", v} THEN v ELSE "mixed"

\* The cells [from, to) erased, each as much as k bytes of progress allow.
Erased(from, to, k) ==
  [i \in Cells |-> IF from <= i /\ i < to /\ i < from + k THEN "erased" ELSE flash[i]]

\* n data bytes and their padding at `from', cut after k bytes.
Written(cells, from, n, padded, k) ==
  [i \in Cells |->
     CASE from <= i /\ i < from + n /\ i < from + k -> Programmed(cells[i], "data")
       [] from + n <= i /\ i < from + padded /\ i < from + k -> Programmed(cells[i], "pad")
       [] i = from + k /\ k < padded /\ cells[i] = "erased" -> "torn"
       [] OTHER -> cells[i]]

-----------------------------------------------------------------------------
Init ==
  /\ part \in PartSizes /\ ahead \in BOOLEAN /\ size \in Sizes /\ faulty \in BOOLEAN
  /\ flash = [i \in Cells |-> IF i < part THEN "old" ELSE "next_partition"]
  /\ received = 0 /\ durable = 0
  /\ erased_through = 0 /\ sectors_flushed = 0 /\ erase_batches = 0
  /\ pc = "idle" /\ len = 0 /\ consumed = 0 /\ failures = 0

\* WriteSession::can_append (external).
can_append(n) == received + n <= size

\* A call that returns false or Err; the caller may try again.
Fail ==
  /\ failures < MaxFailures
  /\ failures' = failures + 1
  /\ pc' = "idle" /\ len' = 0 /\ consumed' = 0

\* How far ArtifactWriter::append erases ahead.
desired_erased(end_received) ==
  Min({div_ceil(end_received, BatchSize) * BatchSize, part})

\* Take bytes the session has no room for.
Append_unchecked(n) ==
  /\ pc = "idle"
  /\ len' = n
  /\ pc' = IF ahead /\ desired_erased(received + n) > erased_through THEN "erase" ELSE "write"
  /\ UNCHANGED <<session, flash, received, durable, erased_through, sectors_flushed,
                 erase_batches, consumed, failures>>

Append(n) ==
  /\ pc = "idle"
  /\ can_append(n)
  /\ len' = n
  /\ pc' = IF ahead /\ desired_erased(received + n) > erased_through THEN "erase" ELSE "write"
  /\ UNCHANGED <<session, flash, received, durable, erased_through, sectors_flushed,
                 erase_batches, consumed, failures>>

\* espbewi_partitions::erase_range: its refusals, before the flash is touched.
erase_range_ok(from, to) ==
  /\ from <= to
  /\ from % EraseSize = 0 /\ to % EraseSize = 0
  /\ to <= part

\* Advance erased_through before the erase is known to have worked.
EraseAhead_early ==
  /\ pc = "erase"
  /\ LET to == desired_erased(received + len) IN
       /\ erased_through' = to
       /\ \E k \in {0, EraseSize, to - erased_through} : flash' = Erased(erased_through, to, k)
  /\ pc' = "write"
  /\ UNCHANGED <<session, received, durable, sectors_flushed, erase_batches, len, consumed, failures>>

EraseAhead ==
  /\ pc = "erase"
  /\ LET to == desired_erased(received + len) IN
       \/ /\ erase_range_ok(erased_through, to)
          /\ flash' = Erased(erased_through, to, to - erased_through)
          /\ erase_batches' = erase_batches + (to - erased_through) \div BatchSize
          /\ erased_through' = to
          /\ pc' = "write"
          /\ UNCHANGED <<len, consumed, failures>>
       \/ /\ ~erase_range_ok(erased_through, to)
          /\ Fail
          /\ UNCHANGED <<flash, erase_batches, erased_through>>
       \/ /\ faulty /\ erase_range_ok(erased_through, to)
          /\ \E k \in {0, EraseSize} : flash' = Erased(erased_through, to, k)
          /\ Fail
          /\ UNCHANGED <<erase_batches, erased_through>>
  /\ UNCHANGED <<session, received, durable, sectors_flushed>>

-----------------------------------------------------------------------------
(* EspArtifactStorage.                                                     *)

\* Leave out the check that the block lies inside the partition.
flush_block_unbounded(at, n) ==
  /\ n <= EraseSize
  /\ at % EraseSize = 0
  /\ div_ceil(n, WriteSize) * WriteSize <= EraseSize

\* flush_block's checks on the block of n bytes at logical offset `at'.
flush_block_ok(at, n) ==
  /\ n <= EraseSize
  /\ at % EraseSize = 0
  /\ at + EraseSize <= part
  /\ div_ceil(n, WriteSize) * WriteSize <= EraseSize

\* What the erase (when it is not done ahead) and the program leave.
Flushed(at, n, k) ==
  Written(IF ahead THEN flash ELSE Erased(at, at + EraseSize, EraseSize),
          at, n, div_ceil(n, WriteSize) * WriteSize, k)

\* A program command that stops half-way.
Broken(at, n) ==
  \/ \E k \in 0 .. n : flash' = Flushed(at, n, k)
  \/ ~ahead /\ \E k \in {0, EraseSize} : flash' = Erased(at, at + EraseSize, k)

\* The bytes WriteSession hands over: what it buffered and what arrived.
pending == received + len - durable

\* WriteSession::append on Err (external): the bytes may be kept or given up.
FailAppend ==
  /\ Fail
  /\ received' \in {received, received + len}
  /\ UNCHANGED <<session, durable, erased_through, sectors_flushed, erase_batches>>

\* One turn of write's loop: a whole erase block is flushed.
FlushBlock ==
  /\ pc = "write"
  /\ pending - consumed >= EraseSize
  /\ \/ /\ flush_block_ok(durable + consumed, EraseSize)
        /\ flash' = Flushed(durable + consumed, EraseSize, EraseSize)
        /\ consumed' = consumed + EraseSize
        /\ UNCHANGED <<session, received, durable, erased_through, sectors_flushed,
                       erase_batches, pc, len, failures>>
     \/ ~flush_block_ok(durable + consumed, EraseSize) /\ FailAppend /\ UNCHANGED flash
     \/ /\ faulty /\ flush_block_ok(durable + consumed, EraseSize)
        /\ Broken(durable + consumed, EraseSize)
        /\ FailAppend

\* Advance durable by what was received, the unflushed tail included.
AppendDone_tail ==
  /\ pc = "write"
  /\ pending - consumed < EraseSize
  /\ received' = received + len
  /\ durable' = durable + pending
  /\ sectors_flushed' = sectors_flushed + div_ceil(pending, EraseSize)
  /\ pc' = "idle" /\ len' = 0 /\ consumed' = 0
  /\ UNCHANGED <<session, flash, erased_through, erase_batches, failures>>

\* The loop ends, WriteSession advances its watermarks, append its counter.
AppendDone ==
  /\ pc = "write"
  /\ pending - consumed < EraseSize
  /\ received' = received + len
  /\ durable' = durable + consumed
  /\ sectors_flushed' = sectors_flushed + div_ceil(consumed, EraseSize)
  /\ pc' = "idle" /\ len' = 0 /\ consumed' = 0
  /\ UNCHANGED <<session, flash, erased_through, erase_batches, failures>>

\* Ask for one erased byte more than was received.
finish_ok_strict == received = size /\ (ahead => received < erased_through)

\* finish goes on once every received byte lies in the erased range and none
\* is missing (WriteSession::finish, external, for the latter).
finish_ok == received = size /\ (ahead => received <= erased_through)

Finish ==
  /\ pc = "idle"
  /\ finish_ok
  /\ pc' = "finish"
  /\ UNCHANGED <<session, flash, received, durable, erased_through, sectors_flushed,
                 erase_batches, len, consumed, failures>>

\* Err(Incomplete) consumes the session; a caller that gives up early gets it.
FinishRefused ==
  /\ pc = "idle"
  /\ ~finish_ok
  /\ received = size \/ faulty
  /\ pc' = "abandoned"
  /\ UNCHANGED <<session, flash, received, durable, erased_through, sectors_flushed,
                 erase_batches, len, consumed, failures>>

\* Count the whole sectors only.
Commit_floor ==
  /\ durable' = received
  /\ sectors_flushed' = sectors_flushed + (received - durable) \div EraseSize
  /\ pc' = "committed"
  /\ UNCHANGED <<len, consumed, failures>>

Commit ==
  /\ durable' = received
  /\ sectors_flushed' = sectors_flushed + div_ceil(received - durable, EraseSize)
  /\ pc' = "committed"
  /\ UNCHANGED <<len, consumed, failures>>

\* ArtifactWriter::finish consumes the session: an Err ends the upload.
Abandon ==
  /\ pc' = "abandoned"
  /\ UNCHANGED <<durable, sectors_flushed, len, consumed, failures>>

\* The final partial block, padded with zeros; a whole block here is an error.
FlushTail ==
  /\ pc = "finish"
  /\ LET tail == received - durable IN
       \/ tail = 0 /\ Commit /\ UNCHANGED flash
       \/ /\ tail \in 1 .. EraseSize - 1 /\ flush_block_ok(durable, tail)
          /\ flash' = Flushed(durable, tail, EraseSize)
          /\ Commit
       \/ /\ tail >= EraseSize \/ (tail > 0 /\ ~flush_block_ok(durable, tail))
          /\ Abandon /\ UNCHANGED flash
       \/ /\ faulty /\ tail \in 1 .. EraseSize - 1 /\ flush_block_ok(durable, tail)
          /\ Broken(durable, tail)
          /\ Abandon
  /\ UNCHANGED <<session, received, erased_through, erase_batches>>

Next ==
  \/ (\E n \in Chunks : Append(n))
  \/ EraseAhead \/ FlushBlock \/ AppendDone
  \/ Finish \/ FinishRefused \/ FlushTail

Spec == Init /\ [][Next]_vars

\* The code of a call runs to its end; the caller keeps sending and finishes.
FairSpec == Spec /\ WF_vars(Next)

-----------------------------------------------------------------------------
\* DurableStored: every byte the session calls durable is on flash as sent,
\* through failed erases, half-programmed blocks and repeated calls.
DurableStored == \A i \in Cells : i < durable => flash[i] = "data"

\* ProgramsErasedOnly: no byte is ever programmed over old content.
ProgramsErasedOnly == \A i \in Cells : flash[i] # "mixed"

\* NeighbourUntouched: nothing past the slot's end is erased or programmed,
\* whatever size was declared.
NeighbourUntouched == \A i \in Cells : i >= part => flash[i] = "next_partition"

\* CommittedExact: a committed upload is whole, and the sectors reported
\* flushed are the sectors the artifact occupies.
CommittedExact ==
  pc = "committed" =>
    /\ \A i \in Cells : i < size => flash[i] = "data"
    /\ sectors_flushed = div_ceil(size, EraseSize)

(* The inductive invariant behind the theorems of ArtifactUploadProofs.    *)

TypeOK ==
  /\ part \in PartSizes /\ ahead \in BOOLEAN /\ size \in Sizes /\ faulty \in BOOLEAN
  /\ flash \in [Cells -> Cell]
  /\ {received, durable, erased_through, sectors_flushed, erase_batches} \subseteq Nat
  /\ {len, consumed, failures} \subseteq Nat
  /\ pc \in {"idle", "erase", "write", "finish", "committed", "abandoned"}

WholeSectors(n) == n % EraseSize = 0

\* Where the session stands: durable bytes are whole sectors, each counted once,
\* and the call in progress brings no more than was declared.
Watermarks ==
  /\ received + len <= size /\ durable <= received /\ durable + consumed <= received + len
  /\ durable + consumed <= part
  /\ WholeSectors(consumed)
  /\ pc = "erase" => ahead
  /\ pc # "write" => consumed = 0
  /\ pc \notin {"erase", "write"} => len = 0
  /\ pc = "finish" => received = size
  /\ pc # "committed" => durable = sectors_flushed * EraseSize
  /\ pc = "committed" => durable = size /\ sectors_flushed = div_ceil(size, EraseSize)

\* The erase runs ahead of every byte that is about to be programmed.
RunsAhead ==
  ahead =>
    /\ WholeSectors(erased_through) /\ erased_through <= part
    /\ pc # "committed" => durable + consumed <= erased_through
    /\ pc = "write" => desired_erased(received + len) <= erased_through
    /\ pc = "finish" => received <= erased_through

\* What a cell may hold: padding only at the very end, data only where the
\* artifact is, nothing old where the erase has been.
Contents ==
  \A i \in Cells :
    /\ i >= part => flash[i] = "next_partition"
    /\ i < durable + consumed => flash[i] = "data"
    /\ flash[i] # "mixed"
    /\ flash[i] = "data" => i < size
    /\ pc # "committed" => flash[i] # "pad"
    /\ ahead /\ i < erased_through => flash[i] \notin {"old", "next_partition"}

UploadInv == TypeOK /\ Watermarks /\ RunsAhead /\ Contents

\* Completes: when nothing fails, an artifact that fits is committed; the
\* sector, batch and padding arithmetic never leaves a session stuck.
Completes ==
  ~faulty /\ size <= part /\ part % EraseSize = 0 => <>(pc = "committed")
=============================================================================
