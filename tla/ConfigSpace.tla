----------------------------- MODULE ConfigSpace -----------------------------
(***************************************************************************)
(* The NVS backend of the configuration spaces                             *)
(* (adapters/config-space/src/lib.rs): one framed record per space, a      *)
(* generation that grows with every commit and clear, a capacity computed  *)
(* from the NVS statistics at start-up, and one static health flag shared  *)
(* by the tasks.  A payload is abstracted to its length.                   *)
(*                                                                         *)
(* Every operation runs under the flash mutex in one go (with_nvs), except *)
(* that new and self_check publish their verdict after releasing it.  The  *)
(* NVS library is external: a set is atomic under a power cut.  So is the  *)
(* manager of the spaces: it lets a space be used once its budget has been *)
(* claimed and the claims fit the capacity, and the firmware claims every  *)
(* space it has stored, with a budget that covers what is stored.          *)
(*                                                                         *)
(* Spaces are those whose name is valid.  For any other name key() returns *)
(* InvalidSpace before with_nvs, which touches neither NVS nor HEALTHY: a  *)
(* stuttering step here.                                                   *)
(***************************************************************************)
EXTENDS Integers, FiniteSets, Functions

CONSTANTS
  Tasks, Spaces,
  Payloads,          \* lengths of the payloads committed
  MaxGeneration,     \* stands for u64::MAX
  Total,             \* entries of the NVS partition
  ENTRIES_PER_PAGE, ITEM_SIZE, MAX_BLOB_DATA_PER_PAGE, HEADER_LEN,
  Faults             \* NVS calls may fail, records may rot

\* The chunks of a blob are filled with whole items (32 and 4000 bytes), and
\* the partition has more than the page that NVS keeps free.
ASSUME ConfigAssumption ==
  /\ IsFiniteSet(Spaces) /\ Payloads \subseteq Nat
  /\ {MaxGeneration, Total, ENTRIES_PER_PAGE, ITEM_SIZE, MAX_BLOB_DATA_PER_PAGE, HEADER_LEN}
       \subseteq Nat \ {0}
  /\ MAX_BLOB_DATA_PER_PAGE % ITEM_SIZE = 0
  /\ ENTRIES_PER_PAGE < Total
  /\ Faults \in BOOLEAN

VARIABLES
  rec,        \* flash: the record of each space
  canary,     \* flash: the self-check's entry is there
  HEALTHY,    \* RAM: the static flag
  capacity,   \* RAM: capacity_units, -1 before new succeeds
  claims,     \* RAM: the budget claimed for each space, -1 for none
  pc,         \* RAM: what each task still has to do
  seen        \* history: the snapshots commit, clear and load handed out

vars == <<rec, canary, HEALTHY, capacity, claims, pc, seen>>

\* kind "none": no such key; "corrupt": decode_record refuses what is there.
Record == [kind : {"none", "corrupt", "absent", "present"},
           generation : 0 .. MaxGeneration, len : Payloads \cup {0}]

NoRecord == [kind |-> "none", generation |-> 0, len |-> 0]

Init ==
  /\ rec = [s \in Spaces |-> NoRecord]
  /\ canary = FALSE /\ HEALTHY = TRUE
  /\ capacity = -1 /\ claims = [s \in Spaces |-> -1]
  /\ pc = [t \in Tasks |-> "idle"]
  /\ seen = {}

-----------------------------------------------------------------------------
(* Entry arithmetic.                                                       *)

div_ceil(a, b) == (a + b - 1) \div b

entries_for_blob(encoded_size) ==
  div_ceil(encoded_size, ITEM_SIZE) + div_ceil(encoded_size, MAX_BLOB_DATA_PER_PAGE) + 1

\* What NVS writes for a blob (external): an index entry and, for each chunk of
\* at most a page, a header entry and the chunk's items.
BlobEntries(size) ==
  LET chunks   == div_ceil(size, MAX_BLOB_DATA_PER_PAGE)
      chunk(i) == IF i < chunks THEN MAX_BLOB_DATA_PER_PAGE
                  ELSE size - (chunks - 1) * MAX_BLOB_DATA_PER_PAGE
  IN  1 + SumFunction([i \in 1 .. chunks |-> 1 + div_ceil(chunk(i), ITEM_SIZE)])

Stored == {s \in Spaces : rec[s].kind # "none"}

\* Entries in use that belong to no space (those of the namespaces themselves
\* are taken to be there from the start).
Foreign == IF canary THEN 1 ELSE 0

\* statistics(): entries neither empty nor erased.
Used == Foreign + SumFunction([s \in Stored |-> BlobEntries(HEADER_LEN + rec[s].len)])

owned_entries == SumFunction([s \in Stored |-> entries_for_blob(HEADER_LEN + rec[s].len)])

saturating_sub(a, b) == IF a < b THEN 0 ELSE a - b

\* Do not add back the entries this backend's own records occupy.
capacity_units_noowned == saturating_sub(Total - Used, ENTRIES_PER_PAGE)

capacity_units == saturating_sub(Total - Used + owned_entries, ENTRIES_PER_PAGE)

-----------------------------------------------------------------------------
(* Operations.  The mutex is free unless a self-check is between its set   *)
(* and its delete.                                                         *)

Unlocked == \A t \in Tasks : pc[t] # "check_delete"

Ready(t) == pc[t] = "idle" /\ capacity # -1 /\ Unlocked

\* Reserve room for one version.
reservation_units_one(budget) == entries_for_blob(HEADER_LEN + budget)

\* Room for the stored version and the one that replaces it.
reservation_units(budget) == 2 * entries_for_blob(HEADER_LEN + budget)

\* What a budget for each claimed space reserves altogether.
Reserved(budgets) ==
  SumFunction([x \in {y \in Spaces : budgets[y] # -1} |-> reservation_units(budgets[x])])

\* The manager accepts a claim while all of them fit the capacity (external).
Claim(s, b) ==
  /\ capacity # -1 /\ claims[s] = -1 /\ b >= rec[s].len
  /\ claims' = [claims EXCEPT ![s] = b]
  /\ Reserved(claims') <= capacity
  /\ UNCHANGED <<rec, canary, HEALTHY, capacity, pc, seen>>

\* Every stored space is claimed: the firmware has started.
Started == \A s \in Stored : claims[s] # -1

\* new: open, statistics, owned_entries.  A failure in the last one leaves the
\* flag as it was.
New(t) ==
  /\ pc[t] = "idle" /\ Unlocked
  /\ \/ /\ capacity' = capacity_units
        /\ pc' = [pc EXCEPT ![t] = "new_store"]
        /\ UNCHANGED HEALTHY
     \/ /\ Faults
        /\ HEALTHY' \in {FALSE, HEALTHY}
        /\ UNCHANGED <<capacity, pc>>
  /\ UNCHANGED <<rec, canary, claims, seen>>

\* The store after the guard is dropped.
NewStore(t) ==
  /\ pc[t] = "new_store"
  /\ HEALTHY' = TRUE
  /\ pc' = [pc EXCEPT ![t] = "idle"]
  /\ UNCHANGED <<rec, canary, capacity, claims, seen>>

\* self_check, first half: open and set the canary.
CheckSet(t) ==
  /\ Ready(t)
  /\ \/ /\ canary' = TRUE
        /\ pc' = [pc EXCEPT ![t] = "check_delete"]
        /\ UNCHANGED HEALTHY
     \/ /\ Faults
        /\ HEALTHY' = FALSE
        /\ pc' = [pc EXCEPT ![t] = "check_fail"]
        /\ UNCHANGED canary
  /\ UNCHANGED <<rec, capacity, claims, seen>>

\* self_check, second half: read it back and delete it; a value read wrong is
\* no error of with_nvs.
CheckDelete(t) ==
  /\ pc[t] = "check_delete"
  /\ \/ /\ canary' = FALSE
        /\ \/ pc' = [pc EXCEPT ![t] = "check_pass"]
           \/ Faults /\ pc' = [pc EXCEPT ![t] = "check_fail"]
        /\ UNCHANGED HEALTHY
     \/ /\ Faults
        /\ HEALTHY' = FALSE
        /\ pc' = [pc EXCEPT ![t] = "check_fail"]
        /\ UNCHANGED canary
  /\ UNCHANGED <<rec, capacity, claims, seen>>

CheckStore(t) ==
  /\ pc[t] \in {"check_pass", "check_fail"}
  /\ HEALTHY' = (pc[t] = "check_pass")
  /\ pc' = [pc EXCEPT ![t] = "idle"]
  /\ UNCHANGED <<rec, canary, capacity, claims, seen>>

\* An error anywhere in the closure of with_nvs.
OpFails ==
  /\ HEALTHY' = FALSE
  /\ UNCHANGED <<rec, canary, capacity, claims, pc, seen>>

Snapshot(s, r) == [space |-> s, kind |-> r.kind, generation |-> r.generation, len |-> r.len]

\* Delete the record instead of keeping its generation.
SetRecord_deleted(s, r) ==
  /\ rec' = [rec EXCEPT ![s] = IF r.kind = "absent" THEN NoRecord ELSE r]
  /\ seen' = seen \cup {Snapshot(s, r)}

\* nvs.set returned Ok: the record replaces the old one.
SetRecord(s, r) ==
  /\ rec' = [rec EXCEPT ![s] = r]
  /\ seen' = seen \cup {Snapshot(s, r)}

\* Room for the new version beside the old one (external).
Fits(r) == Used + BlobEntries(HEADER_LEN + r.len) <= Total - ENTRIES_PER_PAGE

\* CorruptRecord and GenerationOverflow.
Refused(r) == r.kind = "corrupt" \/ r.generation = MaxGeneration

\* replace(space, present, payload).
Replace(t, s, kind, n) ==
  /\ Ready(t)
  /\ LET r == [kind |-> kind, generation |-> rec[s].generation + 1, len |-> n]
     IN \/ /\ ~Refused(rec[s]) /\ Fits(r)
           /\ SetRecord(s, r)
           /\ UNCHANGED <<canary, HEALTHY, capacity, claims, pc>>
        \/ (Refused(rec[s]) \/ ~Fits(r) \/ Faults) /\ OpFails
        \/ /\ Faults /\ ~Refused(rec[s]) /\ Fits(r)    \* set failed after it took effect
           /\ rec' = [rec EXCEPT ![s] = r]
           /\ HEALTHY' = FALSE
           /\ UNCHANGED <<canary, capacity, claims, pc, seen>>

\* The backend checks no budget; the manager does.
Commit(t, s, n) == Started /\ n <= claims[s] /\ Replace(t, s, "present", n)

Clear(t, s) == Started /\ claims[s] # -1 /\ Replace(t, s, "absent", 0)

\* An absent record is None to the caller.
Load(t, s) ==
  /\ Ready(t)
  /\ \/ /\ rec[s].kind # "corrupt"
        /\ seen' = IF rec[s].kind = "present" THEN seen \cup {Snapshot(s, rec[s])} ELSE seen
        /\ UNCHANGED <<rec, canary, HEALTHY, capacity, claims, pc>>
     \/ (rec[s].kind = "corrupt" \/ Faults) /\ OpFails

\* A power cut: flash stays, a self-check's canary included.
PowerCut ==
  /\ HEALTHY' = TRUE
  /\ capacity' = -1 /\ claims' = [s \in Spaces |-> -1]
  /\ pc' = [t \in Tasks |-> "idle"]
  /\ UNCHANGED <<rec, canary, seen>>

\* A record rots: its frame no longer decodes.
Rot(s) ==
  /\ Faults /\ rec[s].kind \in {"absent", "present"}
  /\ rec' = [rec EXCEPT ![s].kind = "corrupt"]
  /\ UNCHANGED <<canary, HEALTHY, capacity, claims, pc, seen>>

Next ==
  \/ \E t \in Tasks :
       \/ New(t) \/ NewStore(t) \/ CheckSet(t) \/ CheckDelete(t) \/ CheckStore(t)
       \/ \E s \in Spaces : Load(t, s) \/ Clear(t, s) \/ \E n \in Payloads : Commit(t, s, n)
  \/ PowerCut
  \/ \E s \in Spaces : Rot(s) \/ \E b \in Payloads : Claim(s, b)

Spec == Init /\ [][Next]_vars

-----------------------------------------------------------------------------
\* GenerationNames: a generation, once handed out for a space, names one
\* snapshot for ever, through clears, failed sets and power cuts.
GenerationNames ==
  \A a, b \in seen : a.space = b.space /\ a.generation = b.generation => a = b

\* CapacityKept: the capacity found at start-up does not depend on what the
\* spaces hold ("capacity would shrink with every value persisted, until the
\* next boot's claims fail", lib.rs:74); a canary left by a cut costs one entry
\* and no more, however many checks were cut.
CapacityKept == capacity # -1 => capacity \in Total - ENTRIES_PER_PAGE - 1 .. Total - ENTRIES_PER_PAGE

\* The one claimed space reserves the whole partition, and a self-check that
\* could not read its canary back has left it behind: lib.rs:93 returns before
\* the delete, and no reservation covers the entry.
CanaryInTheWay(s) ==
  /\ canary
  /\ \A x \in Spaces : claims[x] # -1 => x = s
  /\ Reserved(claims) = Total - ENTRIES_PER_PAGE

\* RoomForReplace: once the claims are accepted no commit within its budget
\* is refused for want of room, whatever the spaces hold and whatever was
\* left in flash by a power cut: both versions of a record always fit beside
\* those of all other spaces and beside a self-check's entry, but for that
\* entry and a space that claims everything.
RoomForReplace ==
  capacity # -1 /\ Started /\ Unlocked =>
    \A s \in Spaces, n \in Payloads : n <= claims[s] =>
      \/ Fits([kind |-> "present", generation |-> 1, len |-> n])
      \/ CanaryInTheWay(s)

-----------------------------------------------------------------------------
\* A claim covers what its space stores, and the claims fit the partition.
RoomInv ==
  /\ rec \in [Spaces -> Record]
  /\ claims \in [Spaces -> Payloads \cup {-1}]
  /\ \A s \in Spaces : claims[s] # -1 => rec[s].len <= claims[s]
  /\ Reserved(claims) <= Total - ENTRIES_PER_PAGE
  /\ CapacityKept
=============================================================================
