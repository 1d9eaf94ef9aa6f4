# espbewi: TLA+ models, checks and proofs

espbewi is the ESP layer under FiBeWI (firmware updates) and the configuration
spaces: a second-stage bootloader, adapters from the FiBeWI and
config-space-manager engines to ESP flash, hardware crates, and two services
(Wi-Fi, TLS). This directory models the parts that decide and persist, checks
them with TLC, and proves the central safety results with TLAPS.

## 1. Inventory

| Component | State it keeps | Operations | What is hard |
|---|---|---|---|
| Bootloader `bootloader/esp/src/main.rs` | none of its own; reads and writes the two `otadata` sectors | `boot` = `set_flash_size`, `read_layout` (one retry after `flash_reinit`), `read_otadata`, `plan_boot`, `execute` per write, `load` | power cut between any two flash commands; any read or command failing; copying into the SRAM it runs from; MMU pages |
| FiBeWI `fibewi::boot` (other repository) | - | `plan_boot`, `confirm`, `reject`, `activate`, `decode`, `slot_of` | external contract |
| OTA adapter `adapters/ota/src/otadata.rs` | the same two sectors, from the application | `write_target`, `image_outcome`, `boot_entry`, `booted_slot`, `confirm`, `reject`, `activate` | shares sectors and slots with the bootloader across resets; stale entries |
| Shared-flash OTA `shared_flash.rs` | `erased_through`, `sectors_flushed`, `erase_batches` per upload | `ArtifactWriter::{append, finish}`, `hash_preloaded`, locked wrappers | lock released between calls; failed erase and retry; 64 KiB rounding |
| `EspArtifactStorage` `adapters/ota/src/lib.rs` | a borrowed partition and scratch sector | `write`, `finish`, `flush_block` | partial sectors, padding, end of the slot |
| Partitions `hardware/partitions` | - | `find`, `erase_range` | bounds and alignment |
| Config backend `adapters/config-space` | one NVS record per space; static `HEALTHY`; `capacity_units` | `new`, `self_check`, `load`, `commit`, `clear`, `reservation_units` | crash between steps; stores after the lock; capacity arithmetic |
| Flash owner `hardware/flash` | one mutex around the flash driver | `init`, `lock`, `storage` | every adapter shares it |
| NVS bridge `hardware/nvs` | - | forwards | - |
| Wi-Fi `services/wifi` | peripheral, radio, the last scan's choices | `scan`, `connect`, `ip_stack` | link and lease change under the call; calls dropped at an await |
| TLS sockets `services/tls` | a session and its mutex, shared by the halves of a socket | `connect_client`, `read`, `write`, `write_with`, `flush`, `split`, `abort`, `shutdown` | mutex held across an await; calls dropped at an await; a buffer written by one call |
| TLS identities `services/tls` | contexts of MbedTLS, a key in PSA | `generate_self_signed_identity`, `validate_cert_key_pair`, `server_config_from_pem`, `validate_ca_pem` | an early return after almost every call, and a `Drop` behind each |
| TLS clock `services/tls` | the application's Unix time, or none | `WallClock::instant`, `epoch_to_tm` | calendar arithmetic |
| Boot hardware `hardware/boot` | ROM and registers | `flash_read`, `flash_program`, cache and MMU mapping, watchdog clearing | windows and alignment |
| Watchdog `hardware/watchdog` | TIMG0 | `arm_ms`, `feed`, `disable` | order with respect to the timer group's reset |
| Platform and linker scripts | constants: the chips' memory maps | - | two files that must agree |
| Build scripts, CI | - | - | - |

How they interact: the bootloader and the application never run together; they
talk through flash (`otadata`, the slots), and a reset is the only hand-over
from the application back. Inside the application every flash user takes the one
mutex of `hardware/flash`; it is held during one adapter call and released
between two. FiBeWI and config-space-manager call the adapters.

What makes each part correct: a board that once had a confirmed image always
boots it or a newer one; an unconfirmed image runs once; a commit word vouches
for a body that was read back; uploads stay inside the slot that is not in use,
and what is called durable is on flash; a configuration generation names one
value for ever, and claims that fit leave room to replace every value; a Wi-Fi
connect succeeds only on the network asked for; an image is in memory as it was
linked before it is entered; only a watchdog the application armed resets it; a
TLS socket sends what
it was given, and its halves hold each other up only while the peer is silent; a
private key does not outlive the call that made it; a date is the calendar's.

## 2. Modules

| Module | Models | Variables to code |
|---|---|---|
| `Ewbt` | EWBT entries and FiBeWI's decisions, all external | a raw sector is `[seq, state, commit]` |
| `Otadata` | the pure parts of `otadata.rs`; what a flash command of an entry write can leave | - |
| `BootChain` | bootloader + adapter + uploads (coarse) over the same flash | `od`: the two sectors; `image`: what each slot holds; `phase`: stage of `boot()` or the application; `wr`: the `execute` in progress; `todo`: `plan.writes()` left; `upl`: an open `ArtifactWriter` |
| `ABUpdate` | the abstract A/B contract: one confirmed version, at most one candidate, one trial | - |
| `BootChainAB` | refinement mapping of `BootChain` to `ABUpdate` | - |
| `BootChainProofs` | TLAPS proofs about `BootChain` and its refinement of `ABUpdate` | - |
| `ArtifactUpload` | `ArtifactWriter`, `EspArtifactStorage`, `erase_range`, byte by byte | the fields of the same names; `pc` is the point inside a call |
| `ConfigSpace`, `MCConfigSpace` | the NVS backend; the second only adds symmetry | `rec`, `HEALTHY`, `capacity`; `claims`: the budgets the manager reserved with `reservation_units`; `pc` is what a task still has to store after the lock |
| `WifiStation` | `WifiManager`, the network runner and the link | fields of the same names; `pc` is the await a call is at |
| `RomFlash` | `flash_read` and `flash_program` of the boot hardware, with their real limits | `done`, `want`, `skip`, `start` as in the code; `moved` says where each byte went |
| `ImageLoad` | `load`: the segment copy, each chunk a transfer of `RomFlash` (which it extends), the MMU mapping, the jump, over both chips' memory maps | `stage`; `seg`, `copied`: the loops; `ram`: runs of bytes copied; `mmu`: entries set |
| `Watchdog` | `clear_flashboot_watchdogs` register by register, then `arm_ms`, `feed`, `disable` | `reg`: WDTCONFIG0 of TIMG0 and RTC; `nth`, `step`: inside `clear_bit` |
| `TlsSocket` | `connect_client`, the two halves, `abort`, `shutdown` | `lock`: the session's mutex; `rd`, `wr`: the await each half is at; `rest`: what a write has left |
| `TlsIdentity` | the certificate and key functions, call by call (`IdentitySpec`) | `ctx`, `keyId`: `Contexts`; `step`: the next call |
| `Calendar`, `MCCalendar` | `WallClock::instant` and `epoch_to_tm`, with a reference calendar that only knows month lengths; the second chooses the years | `now`: the Unix time split as the function splits it |
| `ArtifactUploadProofs`, `ConfigSpaceProofs`, `WifiStationProofs`, `WatchdogProofs`, `CalendarProofs` | TLAPS proofs about the modules they are named after | - |
| `ImageLoadProofs`, `TlsProofs` | TLAPS proofs about `RomFlash` with `ImageLoad`, and about `TlsSocket` with `TlsIdentity` | - |

One action of `BootChain` is one flash command with its read-back, or a stretch
of code with no flash write in it. `PowerCut` may follow any of them and may
leave the command in flight done, undone or in between; it stands for a reset of
any kind. Image contents are abstracted to what tells images apart for this
code: `proven` (it confirmed itself, or is the factory image), `fresh` (a
complete upload), `torn` (an incomplete one that still validates, since only the
structure is checked, `main.rs:18`) and `refused`.

Definitions whose name ends in `_something` behind another definition's name
(`Proceed_noabort`, `write_target_stale`, ...) are faulty variants, used to make
sure each property notices a plausible mistake. No specification uses them.

### What is assumed of code outside this repository

* FiBeWI: `confirm`, `reject` and the bootloader's abort and trial-start rewrite
  an entry where it is; `activate` refuses during a trial, never takes the sector
  of the highest Valid entry and numbers the new entry above all others; odd
  numbers belong to slot 0; an entry whose image is refused is passed over and
  not rewritten (`otadata.rs:53`); a trial that was begun is not a candidate
  again; with nothing decodable, blank sectors are a first boot, and sectors
  that are not blank are a first boot or `NoUsableEntry`. A half-programmed body
  does not decode.
* `WriteSession` counts received and durable bytes, hands over what is not
  durable, and on an error may keep or give up the bytes of that call.
* NVS: a `set` is atomic under a power cut; a set that returned an error may have
  taken effect; the namespaces' own entries are there from the start.
* esp-radio and embassy-net: the runner drops its configuration when it finds
  the link down and gets one from the network it is on; an association is not
  re-established by itself; a dropped `connect_async` or `disconnect_async` has
  either taken effect or not.
* Spaces have valid names: for any other, `key` returns `InvalidSpace` before the
  flash is taken, and nothing changes. The manager of the spaces adds up
  `reservation_units` of the budgets, refuses claims beyond `capacity_units`, claims every space that is stored before any
  is changed, and keeps each commit inside its budget.
* `image::validate` accepts only images whose segments are flash-mapped or inside
  the RAM the memory map allows, clear of the bootloader and on matching page
  offsets. That the two flash segments have MMU pages of their own is not its
  doing as far as this repository shows (`main.rs:370` lists its refusals): it is
  assumed of the linker script that made the image (`LinkedApart`), and
  `LoadedExact` rests on it.
* The registers of the two chips are where the comment above `esp32s3::hw` says;
  `esp_hal::init` turns the watchdogs off; constructing `TimerGroup` resets TIMG0
  and comes before `arm_ms`, as `watchdog/src/lib.rs:8` asks.
* MbedTLS takes at most one record (`MaxRecord`) per write, and `write_with`'s
  buffer is no larger than that. A dropped future drops its mutex guard; the
  server closes the connection after a write it dropped. The handshake verifies
  the peer or fails.
* Callers do not open an upload while a trial is undecided (`TrialUploads =
  FALSE`). The adapter does not enforce this; without it an upload may erase the
  image a trial would fall back to.

## 3. Runs

| Run | Instance | Shows |
|---|---|---|
| `boot_faults` | 4 sequence numbers; commands, read-backs, reads and image checks may fail; cuts anywhere | the inductive invariants `ChainInv` (which contains `BootInv` and `TypeOK`) and `UploadShape`; `CommitWordVerified`, `AnchorKept`, `TrialOnce` |
| `boot_cuts` | as above with reliable reads, with fairness | `NeverBricked`, `NoDowngrade`, `UpdateTried`, `TargetSparesBooted`, `TrustedJump`, `OutcomeTruthful` (with flaky reads the bootloader may refuse a sound image and fall back, so these are stated for reliable reads); `ImplementsAB`: three flash commands per entry, and every transition is still all or nothing; `Recovers`: once the power stays on and flash and MMU no longer fail, a provisioned board reaches the application for good |
| `boot_target` | 2 sequence numbers, an image may be refused | **violated**: `InactiveTarget`, see below |
| `upload` | sectors of 4 bytes, batches of 8, four partition sizes (one not a multiple of a sector, some not of a batch), six artifact sizes (some too large), flash that fails up to two calls, or none | durable bytes are on flash, nothing is programmed over old content, nothing outside the slot is touched, a committed upload is exact; `Completes`: without failures every artifact that fits is committed |
| `config` | two tasks, two spaces, two payload lengths, claims that just fit, generations up to 2 | `GenerationNames`, `CapacityKept`, `RoomForReplace` |
| `wifi` | two networks, reports of up to three access points, two signal strengths | `PinStrongest`, `JoinsApart`, `FreshLease`, `TeardownEnds` |
| `load` | transfers at every alignment, of lengths around 252, 256 and their multiples; then, on both chips, segments that end before, at and after a page or a chunk, empty ones, at the ends of the windows; reads and MMU calls may fail | `WindowFits`, `MovedExact`; `LoadedExact`, `BootloaderIntact` |
| `watchdog` | both chips, three limits | `OnlyGuardedReset`, `Supervised` |
| `tls` | buffers and records of 2 bytes, a send buffer of 2 records, 4 bytes to write, 2 reads; with calls dropped at any await, and without | `SentExact`, `OneInside`; `OnlyPeerBlocks`: whatever waits for ever waits for the peer; `ReadLetsGo`: a read with a timeout gives the mutex back, even with a silent peer |
| `identity` | two keys, any sequence of the four functions, any text, any call failing | `KeyDestroyed`, `ContextsSound`, `ValidatedUsable` |
| `identity_drop` | one key | **violated**: `FreesInitialised`, see below |
| `calendar` | every day of 1970 to 2401 and of 9996 to 10000, three seconds of each | `InstantExact` |

Bounds. `MaxSeq = 4` allows the factory image, a confirmed update, a second
update and a third candidate, so both sectors and both slots take every role at
least twice. The upload
geometry keeps the ratios that matter (several write units per sector, several
sectors per batch, a partition ending inside a batch). Generations up to 2 reach
the overflow refusal. Three access points allow a first, a stronger and a tie.
Addresses, page size and windows of `load` are the real ones; only the segments'
lengths are chosen, around the chunk of 256 bytes and the page of 65536. The
image is chosen when `load` begins, and the transfers before it are forgotten
then: `load` uses nothing of them. The calendar
walks past a whole era of 400 years. Two keys let a key be paired with another's
certificate. For the safety properties the bounds only decide how early TLC
notices a mistake: section 4 proves them without.

Fairness. `boot_cuts` assumes weak fairness of the bootloader's steps and of the
commands of an entry write: both are straight-line code with nothing to wait
for. Nothing is assumed of the application or of the power; `Recovers` has "the
power is not cut, and flash commands and the MMU do not fail any more" as its
premise: the MMU may refuse a segment in either run. `upload`
assumes the caller goes on. `wifi` assumes that the executor polls the network
task and the waiting call; nothing is assumed of access points, of the link or of
a DHCP server. `tls` assumes that woken
futures are polled and that the session goes on when it can; of the peer,
nothing. Where the server has timeouts, its read timeout fires in the end; a
write timeout may or may not. The mutex is not first come,
first served, so a write half may be overtaken by read after read: `ReadLetsGo`
is about one read. `watchdog` assumes that TIMG0 counts and that an expired watchdog resets.

Deadlock is checked except where the system may really stop: an upload, a load
and a TLS session end, and a bootloader that has halted stays there.

### The findings

`write_target` (`otadata.rs:68`) takes the slot opposite to the highest Valid or
Pending *entry*. The bootloader may boot another one: when the image of the
highest Valid entry is refused it falls back to the older entry and leaves the
newer one in place, as `otadata.rs:53` and `shared_flash.rs:48` say. The target
is then the slot that is executing. The comments call it "the other slot" of "a
running Valid or Pending image" (`otadata.rs:66`) and "the inactive slot"
(`shared_flash.rs:80`). `booted_slot` would tell the two apart.
`TargetSparesBooted` states what does hold: while the entry the board booted
from is the one on flash and reads are reliable, an upload never targets the
running slot, and `write_target` never names it, in an undecided trial either:
stale Valid entries notwithstanding.

`Drop for Contexts` (`services/tls/src/lib.rs:322`) says "contexts were
initialized below". The early returns of `generate_self_signed_identity` after
`psa_crypto_init` and `psa_generate_key` come before `mbedtls_pk_init`, and more
before `mbedtls_x509write_crt_init`: `Drop` then frees contexts that hold only
what `Box::default()` put there. `identity_drop` reaches the first. Whether the
free functions accept such a context is MbedTLS's to say; the reason given is
not what the code does. `identity` shows what does hold: calls other than the
frees only ever see initialised contexts, every context is freed once, and the
key is destroyed.

Two observations are no findings, because nothing in the repository says
otherwise. `connect`'s last wait (`services/wifi/src/lib.rs:216`) has no timeout:
when the link is lost under it, it waits until its caller drops it. `shutdown` and
`abort` (`services/tls/src/lib.rs:619`) drop the session and its socket in the
poll in which they close or abort the socket, so nothing lets the network stack
send what that asks for; whether it still does is embassy-net's to say, and the
model ends with the drop.

Another observation came out of a proof, as the exception `CanaryInTheWay` in
`RoomForReplace`. A self-check that does not read back what it stored returns
before it deletes the canary (`config-space/src/lib.rs:93`). Its entry is in no
reservation. A firmware whose only space claims the whole capacity then has one
entry too few to replace its largest value until a later self-check deletes the
canary. With a second space, or one entry unclaimed, the slack that the
reservations leave is enough: that is what `RoomForReplaceCorrect` shows. Nothing
in the repository promises more, so it is not listed as a finding; `config` has two
spaces, and TLC finds the case when it is given one with `Payloads = {9}` and
`Total = 26`.

## 4. Proofs

Every invariant and every action property that a passing run checks is also a
theorem about its specification, for every value of the constants that the named
assumption of its module allows; so is the refinement of `ABUpdate`. Where an
invariant is not inductive, the strengthened one is stated in the component's
module or at the head of its proofs, and holds in TLC on the run's instance too
(`LoadInv`, which looks at every byte, on fewer lengths than `load` has).

Two methods recur. Sums, and loops over a list, need induction over data. The
library's induction theorems take an operator as a parameter, which no installed
prover instantiates; instead the proofs take the *least* counterexample of a set
of numbers (lemma `Least`, from the well-foundedness of `<` on `Nat`) and
contradict it. In the upload and configuration proofs division is reduced to the
facts of `DivMod` and `DivUnique` (quotient, remainder, uniqueness), because the
SMT backend treats a product of two variables poorly.

### `BootChainProofs`: the boot chain

For every `MaxSeq`, every choice of faults and every set of calls:
`TypeCorrect`, `InvCorrect` (`Spec => []BootInv`), `ChainCorrect`
(`Spec => []ChainInv`), `CommitWordVerifiedCorrect` and `TrialOnceCorrect`.

If `TrialUploads = FALSE`: `UploadCorrect` and `AnchorKeptCorrect`. If also
`ReadFaults = FALSE`: `ReliableCorrect` (`[]ReliableShape`), `NeverBrickedCorrect`,
`NoDowngradeCorrect`, `UpdateTriedCorrect`, `TargetSparesBootedCorrect`,
`OutcomeTruthfulCorrect`, `TrustedJumpCorrect` and `RefinesAB` (`Spec => ImplementsAB`).

The two premises are the ones the code needs, not the prover. An upload during an
undecided trial erases the image the trial would fall back to, and only callers
prevent it. A read that fails makes `image::validate` refuse a sound image, and
the bootloader then does fall back to an older one. Write failures and power
cuts are unrestricted in all of them.

The argument is a tower of four invariants.

* `BootInv`, what is on flash between the commands of an entry write.
  `WriteShape`: the sector is exactly what the last read-back showed, so a commit
  word goes over a checked body. `SparesValid`: the write in flight is not in the
  sector of the highest Valid entry. `PlanShape`: what the bootloader may still
  write, and that every trial that is not the one being booted is about to be
  aborted. `RunShape`: what the application has in flight settles the image that
  runs. `Quiet`: nobody else writes.
* `ChainShape`, where every entry comes from. `Virgin`: a board on which nothing
  is Valid was never provisioned. `Unique`: no two entries, on flash or in flight,
  share a number. `ExecShape`, `ConfirmShape`, `TriedShape`: a number is booted
  because its entry is there or is being completed, a confirmation belongs to the
  running image, and a number whose trial began is never in a New entry again.
  `TrialOnce` follows from it.
* `UploadShape`: an open upload is in the slot the confirmed image is not in, and
  only an activation can be in flight beside it. With it the pair of a Valid entry
  and its proven image (`Anchor`) is never lost: `AnchorKept`.
* `ReliableShape`: as soon as something is Valid the latest such entry has its
  proven image, what is booted is no older and validates, no untried entry above it
  does (`NothingNewer`), and only a virgin board has nothing to boot. The lemma
  `PlanReliable` shows that the anchor is always a candidate of `plan_boot`,
  `PlanNothingNewer` that what is passed over was refused, and `NoNewWhileBooting`
  that no entry still to be tried appears while the bootloader writes.

The refinement maps a state to one confirmed version and at most one candidate,
which an entry write in flight may be about to add, settle or discard. It is
proved command by command: erase, body and commit (`EraseAB`, `BodyAB`, `CommitAB`,
`EndAB`) are each a step of `ABUpdate` or a stutter, wherever they are cut.
`ConfirmedIs` and `OneCandidate` say what the mapping yields; `SameEntries`, that a
step that changes no entry changes nothing of it.

### `ArtifactUploadProofs`: uploads

For every partition, artifact and chunk size, and for every geometry in which a
sector is whole write units and a batch whole sectors (4096 and 65536 in the
code): `UploadInvCorrect`, `DurableStoredCorrect`, `ProgramsErasedOnlyCorrect`,
`NeighbourUntouchedCorrect`, `CommittedExactCorrect`. The properties look only at
durable bytes; `UploadInv` also says how far each watermark is (`Watermarks`: what
is durable is whole sectors and is counted in `sectors_flushed`), that the erase
runs ahead of every program (`RunsAhead`), and what every cell of the slot holds
below, between and above them (`Contents`), a half-erased batch and a
half-programmed block included.

### `ImageLoadProofs`: the ROM's transfers and the loader

For every address and length: `RomTypeCorrect`, `WindowFitsCorrect`,
`MovedExactCorrect`. `RomInv` adds `Stride`: a program has always moved whole
words, so that its last window, too, is filled word by word; `WindowArithmetic` is
one window (a read starts at most three bytes early, so 252 bytes need at most 64
words). Addresses are natural numbers there: flash ends far below 2^32.

For segments of every length on both chips: `LoadInvCorrect`,
`BootloaderIntactCorrect`, `LoadedExactCorrect`, and `LoadTransfersCorrect`, that
the reads `load` makes fit the window and move each byte from its address. The
runs can only pick a few lengths, and the arithmetic that could be wrong is in the
others. `LoadInv` says that what was copied is one run, as long as the copy has
come, and that the MMU holds exactly the pages of the segments before the loop's.
`PageCount` and `EntryInWindow` are the page arithmetic, `FlashSegment` and
`RamSegment` what `image::validate` lets through, over the real memory maps.

### `ConfigSpaceProofs`: configuration spaces

`GenerationNamesCorrect`, for every number of tasks, spaces, payloads and
generations. `GenInv` relates what was ever handed out to what is stored: nothing
seen of a space is newer than its record, and what was seen under the record's own
generation is the record. A rotten record keeps its generation and is never
replaced, which is why a damaged space cannot hand out a generation again.

`RoomInvCorrect`, `CapacityKeptCorrect` and `RoomForReplaceCorrect`, for every
finite set of spaces and every partition. `ConfigAssumption` asks what the code
has: a full chunk is whole items (4000 bytes are 125 items of 32), and the
partition is larger than one page. `SumOfChunks` and `EntriesSame` show that
`entries_for_blob`, a closed formula, counts exactly what writing a blob chunk by
chunk costs; `EntriesMono`, that a shorter blob never costs more; `SubsetInduction`
and `SumIs`, that the sums over spaces behave as sums. `RoomForAnother` then
compares the second copy of one record with the slack of the claims: every claim
reserves twice its entries and the capacity leaves out a page. The proof needed
the exception `CanaryInTheWay`, see section 3.

### `WifiStationProofs`: the station

`FreshLeaseCorrect` and `JoinsApartCorrect`: `LeaseInv` follows `connect` through its awaits: no
association while the old configuration goes away, neither association nor lease
before the join, and none but the new ones after it. A call dropped at any of them
leaves the next one to start over.

`PinInvCorrect` and `PinStrongestCorrect`, for every number of networks, signals
and access points. `KeepStep` is one turn of the loop in `scan`: what is kept of
the first `n` access points is one per network, heard, and at least as strong as
every other of its network. `LoopKeeps` carries it over a report of any length.

### `TlsProofs`: sockets and identities

`OneInsideCorrect`, whose invariant is itself. `SentExactCorrect`: `WriteInv` says
that what a write has left begins where the bytes sent end, and that a buffer of
`write_with` fits a record, from `MaxRecord >= BUFFER` (`TlsAssumption`); without
it `write_with` would drop bytes.

`IdentityInvCorrect`, `KeyDestroyedCorrect`, `ContextsSoundCorrect` and
`ValidatedUsableCorrect`, for any number of keys and of calls. `IdentityInv` says,
at every call inside the four functions, which contexts the straight line has
initialised and filled (`Stages`, `Established`) and that PSA holds the key of the
`generate` that runs and no other (`OneKey`).

### `CalendarProofs`: the clock

`InstantExactCorrect`, for every set of years from 1970 and every second of the
day: `epoch_to_tm` gives the date of the reference calendar, and no time past the
year 9999. `CalInv` says that the walked date is a day of the calendar and that
its number is the clock's. `CivilExact` is the heart: for a day of any era the
code's division by 1460, 36524 and 146096 finds the year that the leap rule gives
(`YoeExact`), and its formula in 153 finds the month. `EraShift`: 146097 days later
the day and month are the same and the year is 400 later.

### `WatchdogProofs`: the watchdogs

`OnlyGuardedResetCorrect`, on both chips. `Inv` follows `clear_bit` through read,
unlock, write and lock: each flash-boot bit is off once its turn is over and stays
off, and TIMG0 is enabled only while the application has it armed.

### What stays with TLC

Liveness, which the installed provers cannot reason about with fairness:
`Recovers`, `Completes`, `TeardownEnds`, `OnlyPeerBlocks`, `ReadLetsGo`,
`Supervised`. And the two properties that are violated,
`InactiveTarget` and `FreesInitialised`.

## 5. Not modelled

* Logging and error texts; the byte format of entries, records and rows of the
  partition table.
* FiBeWI's image validation and MbedTLS's handshake, records and cryptography:
  other repositories, and data rather than control.
* TLS `init` and the random-number adapter: static cells filled once, and
  forwarding.
* `hash_preloaded`, which reads a slot under one lock and changes nothing, and
  `find` and the parsing of the partition table: pure lookups, in `BootChain` one
  step that finds the layout or fails.
* The NVS bridge and the trait forwarding of `hardware/flash`: no state.
* The size field of the boot header (`flash_size_from_header`) and
  `flash_reinit` beyond their one step in `BootChain`.
* Build scripts, CI, host-side tests.

Which of the two chips' copies of `hardware/boot` runs makes no difference to
`RomFlash`: the two are the same text. `ImageLoad` and `Watchdog` keep both.

Hazards without a property: an upload begun during a trial
(`shared_flash.rs:113`), which only callers prevent; the verdict of a self-check
stored after the lock (`config-space/src/lib.rs:97`), of which nothing is
promised; the peripheral taken before the radio can fail
(`wifi/src/lib.rs:89`), a one-way street by design; stored spaces nobody claims
any more (`config-space/src/lib.rs:137`). `connect`'s last wait has no bound
(`wifi/src/lib.rs:216`, section 3).

## 6. Plan

Every part that decides or persists is modelled, and every safety property of a
passing run is proved. What could still be added:

1. The premise `ReadFaults = FALSE` split in two: a failed read of `otadata`, which
   only halts, and a failed read of an image, which is what makes the bootloader
   fall back. `NeverBricked` and `OutcomeTruthful` may need only the second.
2. The type invariants of the remaining modules as theorems of their own; today
   they are parts of the proved invariants where the proofs need them.
3. The parts listed as partly modelled: `find` and the partition table's rows,
   and `hash_preloaded` beside an upload in another task.
