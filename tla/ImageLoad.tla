----------------------------- MODULE ImageLoad -----------------------------
(***************************************************************************)
(* The second half of the bootloader, load (bootloader/esp/src/main.rs),   *)
(* over the chips' memory maps (hardware/platform/src/lib.rs) and the      *)
(* cache and MMU primitives (hardware/boot/src/lib.rs): it copies the      *)
(* image's RAM segments in chunks, each a flash_read of RomFlash, maps its *)
(* flash segments by MMU pages, and jumps - while running from the same    *)
(* SRAM it copies into.  Before that, boot makes transfers of its own.     *)
(*                                                                         *)
(* Memory is abstracted to runs: [dst, src, n] says that the n bytes at    *)
(* dst were copied from flash address src.  The validator is external: an  *)
(* image reaches load only when image::validate accepted it.               *)
(***************************************************************************)
EXTENDS RomFlash, Sequences

CONSTANTS
  Chips,       \* the chips to consider
  FlashLens,   \* lengths of flash-mapped segments
  RamLens      \* lengths of RAM segments

ASSUME LoadAssumption ==
  /\ Chips \subseteq {"esp32c3", "esp32s3"}
  /\ FlashLens \subseteq Nat /\ RamLens \subseteq Nat

VARIABLES
  chip, image,  \* what is being loaded: a sequence of segments
  stage,        \* how far boot is
  seg, copied,  \* the loops: the segment, the bytes of it copied
  ram,          \* the runs copied so far
  mmu,          \* MMU entry -> flash page
  cache         \* the instruction cache

load     == <<chip, image, stage, seg, copied, ram, mmu, cache>>
loadVars == <<vars, load>>

Span(lo, hi) == [lo |-> lo, hi |-> hi]
Within(a, r) == r.lo <= a /\ a < r.hi
Meets(r, q)  == r.lo < q.hi /\ q.lo < r.hi

-----------------------------------------------------------------------------
(* The memory maps                                                         *)

PAGE == 65536

\* chips::esp32c3::BOOT_MEMORY_MAP
esp32c3 ==
  [drom |-> Span(\h3C000000, \h3C800000), irom |-> Span(\h42000000, \h42800000),
   iram |-> Span(\h4037C000, \h403E0000), dram |-> Span(\h3FC80000, \h3FCE0000),
   rtc  |-> Span(\h50000000, \h50002000), sram_alias_offset |-> \h700000,
   boot_window |-> Span(\h3FCCB000, \h3FCE0000)]

\* The window of the other chip's linker script.
esp32s3_window ==
  [drom |-> Span(\h3C000000, \h3D000000), irom |-> Span(\h42000000, \h42800000),
   iram |-> Span(\h40370000, \h403E0000), dram |-> Span(\h3FC88000, \h3FD00000),
   rtc  |-> Span(\h600FE000, \h60100000), sram_alias_offset |-> \h6F0000,
   boot_window |-> Span(\h3FCCB000, \h3FCE0000)]

\* chips::esp32s3::BOOT_MEMORY_MAP
esp32s3 ==
  [drom |-> Span(\h3C000000, \h3D000000), irom |-> Span(\h42000000, \h42800000),
   iram |-> Span(\h40370000, \h403E0000), dram |-> Span(\h3FC88000, \h3FD00000),
   rtc  |-> Span(\h600FE000, \h60100000), sram_alias_offset |-> \h6F0000,
   boot_window |-> Span(\h3FCC8000, \h3FD00000)]

memory_map == IF chip = "esp32c3" THEN esp32c3 ELSE esp32s3

\* Where the linker scripts put the running bootloader, on the data bus.
Resident(c) == IF c = "esp32c3"
  THEN {Span(\h403CB000 - \h700000, \h403D4000 - \h700000),
        Span(\h3FCD4000, \h3FCDC000)}
  ELSE {Span(\h403CB000 - \h6F0000, \h403D4000 - \h6F0000),
        Span(\h3FCF4000, \h3FCFC000)}

-----------------------------------------------------------------------------
(* Images a linker made and the validator accepts (both external)          *)

PARTITION == Span(PAGE, PAGE + 1048576)

flash_mapped(s, map) == Within(s.load, map.drom) \/ Within(s.load, map.irom)

\* ram_target: the address on the data bus, for a segment that lives in RAM.
ram_target(s, map) ==
  IF Within(s.load, map.iram) THEN s.load - map.sram_alias_offset ELSE s.load

valid(s, map) ==
  /\ Within(s.data_offset, PARTITION) /\ s.data_offset + s.len <= PARTITION.hi
  /\ \E r \in {map.drom, map.irom, map.iram, map.dram, map.rtc} :
       Within(s.load, r) /\ s.load + s.len <= r.hi
  /\ IF flash_mapped(s, map)
     THEN s.load % PAGE = s.data_offset % PAGE
     ELSE LET t == ram_target(s, map)
          IN  ~Meets(Span(t, t + s.len), map.boot_window)

Entry(vaddr) == (vaddr % \h2000000) \div PAGE

Entries(s) == IF s.len = 0 THEN {}
              ELSE Entry(s.load) .. Entry(s.load + s.len - 1)

\* Candidates: at the beginnings of regions and around the edges of the
\* bootloader's windows, through either bus.
FlashSegs(r) ==
  {[load |-> r.lo + p, data_offset |-> PARTITION.lo + q, len |-> n] :
     p \in {32, 2 * PAGE + 8}, q \in {24, 32, PAGE + 8, 3 * PAGE + 32},
     n \in FlashLens}

RamSegs(map, c) == LET bases == {map.dram.lo} \cup
                         {w.lo : w \in Resident(c) \cup {map.boot_window}}
  IN  {[load |-> b + bus - back * n, data_offset |-> PARTITION.lo + 4096,
        len |-> n] : b \in bases, bus \in {0, map.sram_alias_offset},
                     back \in {0, 1}, n \in RamLens}
      \cup {[load |-> map.rtc.lo, data_offset |-> PARTITION.lo + 7, len |-> n] :
              n \in RamLens}

\* Not the validator's doing: the two flash segments share one MMU table, and
\* the linker script of an application gives them pages of their own in it.
LinkedApart(i) == Entries(i[1]) \cap Entries(i[3]) = {}

Images(map, c) ==
  {i \in {<<d, r, x>> : d \in FlashSegs(map.drom), r \in RamSegs(map, c),
                        x \in FlashSegs(map.irom)} :
     /\ \A k \in 1 .. 3 : valid(i[k], map)
     /\ LinkedApart(i)}

-----------------------------------------------------------------------------
LoadInit ==
  /\ Init /\ chip \in Chips /\ stage = "boot" /\ image = <<>>
  /\ seg = 1 /\ copied = 0 /\ ram = {}
  /\ mmu = [e \in {0} |-> 0]           \* what the ROM mapped
  /\ cache = "off"

\* A transfer runs: one that boot makes, or a chunk of the copy.
Transfer == stage \in {"boot", "read"} /\ Next /\ UNCHANGED load

\* flash_read(from, &mut chunk[..n])
Read(from, n) ==
  /\ op' = "read" /\ at' = from /\ len' = n /\ done' = 0 /\ words' = 0
  /\ moved' = [i \in 0 .. n - 1 |-> Untouched]
  /\ pc' = "run"

\* The image has been validated; the validator's last read is of no length
\* worth telling apart.
BeginLoad ==
  /\ stage = "boot" /\ pc = "ok"
  /\ stage' = "copy" /\ image' \in Images(memory_map, chip)
  /\ Read(0, 0)
  /\ UNCHANGED <<chip, seg, copied, ram, mmu, cache>>

current == image[seg]

Halt(why) ==
  /\ stage' = why
  /\ UNCHANGED <<vars, chip, image, seg, copied, ram, mmu, cache>>

\* Add a run to those it continues.
Extend(runs, r) ==
  LET before == {q \in runs : q.dst + q.n = r.dst /\ q.src + q.n = r.src}
  IN  IF before = {} THEN runs \cup {r}
      ELSE LET q == CHOOSE q \in before : TRUE
           IN  (runs \ {q}) \cup {[q EXCEPT !.n = @ + r.n]}

chunk == min(current.len - copied, 256)

\* One round of the copy loop: the read, then the copy of what it brought.
CopyChunk ==
  /\ stage = "copy" /\ seg <= Len(image)
  /\ current.len > 0 /\ ~flash_mapped(current, memory_map)
  /\ copied < current.len
  /\ Read(current.data_offset + copied, chunk)
  /\ stage' = "read"
  /\ UNCHANGED <<chip, image, seg, copied, ram, mmu, cache>>

CopyDone ==
  /\ stage = "read" /\ pc = "ok"
  /\ ram' = Extend(ram, [dst |-> ram_target(current, memory_map) + copied,
                         src |-> moved[0], n |-> len])
  /\ copied' = copied + len /\ stage' = "copy"
  /\ UNCHANGED <<vars, chip, image, seg, mmu, cache>>

CopyFails == stage = "read" /\ pc = "err" /\ Halt("FlashRead")

NextSegment ==
  /\ stage = "copy" /\ seg <= Len(image)
  /\ \/ current.len = 0
     \/ flash_mapped(current, memory_map)
     \/ copied >= current.len
  /\ seg' = seg + 1 /\ copied' = 0
  /\ UNCHANGED <<vars, chip, image, stage, ram, mmu, cache>>

Cache_MMU_Init == [e \in {} |-> 0]

\* cache_begin_mapping
BeginMapping ==
  /\ stage = "copy" /\ seg > Len(image)
  /\ mmu' = Cache_MMU_Init
  /\ cache' = "suspended" /\ stage' = "map" /\ seg' = 1
  /\ UNCHANGED <<vars, chip, image, copied, ram>>

page_of(a) == a - (a % PAGE)                  \* a & !(mmu_page - 1)

div_ceil(a, b) == (a + b - 1) \div b

\* Leave out where in its first page the segment starts.
pages_of_len(t) == div_ceil(t.len, PAGE)

pages_of(t) == div_ceil(t.len + (t.load - page_of(t.load)), PAGE)

\* map_drom and map_irom: `pages' consecutive entries, over what they held.
MMU_Set(vaddr, paddr, pages) ==
  LET set == Entry(vaddr) .. Entry(vaddr) + pages - 1
  IN  [e \in set \cup DOMAIN mmu |->
         IF e \in set THEN paddr + (e - Entry(vaddr)) * PAGE ELSE mmu[e]]

MapSegment ==
  /\ stage = "map" /\ seg <= Len(image)
  /\ \/ /\ mmu' = IF current.len > 0 /\ flash_mapped(current, memory_map)
                  THEN MMU_Set(page_of(current.load),
                               page_of(current.data_offset), pages_of(current))
                  ELSE mmu
        /\ seg' = seg + 1
        /\ UNCHANGED <<vars, chip, image, stage, copied, ram, cache>>
     \/ Faults /\ current.len > 0 /\ flash_mapped(current, memory_map) /\ Halt("Mmu")

\* cache_finish_mapping, the delay and the jump
Jump ==
  /\ stage = "map" /\ seg > Len(image)
  /\ cache' = "on" /\ stage' = "app"
  /\ UNCHANGED <<vars, chip, image, seg, copied, ram, mmu>>

LoadNext ==
  \/ Transfer \/ BeginLoad \/ CopyChunk \/ CopyDone \/ CopyFails
  \/ NextSegment \/ BeginMapping \/ MapSegment \/ Jump

LoadSpec == LoadInit /\ [][LoadNext]_loadVars

-----------------------------------------------------------------------------
\* Where the MMU finds a flash-mapped byte.
Translate(a) == mmu[Entry(a)] + (a % PAGE)

\* The bytes of a segment worth looking at: its ends, and both sides of every
\* page it crosses.
Probes(t) == {i \in {0, t.len - 1} \cup
                {k * PAGE - (t.load % PAGE) - b : k \in 1 .. 4, b \in {0, 1}} :
                i \in 0 .. t.len - 1}

\* The MMU maps the pages of the image and no others.
NothingElseMapped ==
  DOMAIN mmu = UNION {Entries(image[k]) :
                 k \in {j \in 1 .. Len(image) : flash_mapped(image[j], memory_map)}}

\* The segment is at the address it was linked for: mapped there by the MMU,
\* or copied there from its place in flash.
InPlace(t) ==
  IF flash_mapped(t, memory_map)
  THEN \A i \in Probes(t) : /\ Entry(t.load + i) \in DOMAIN mmu
                            /\ Translate(t.load + i) = t.data_offset + i
  ELSE [dst |-> ram_target(t, memory_map), src |-> t.data_offset, n |-> t.len] \in ram

\* LoadedExact: when load jumps to the application, every segment of its image
\* is in place, none mapped over by another, and nothing else is mapped.
LoadedExact == stage = "app" =>
  /\ \A k \in 1 .. Len(image) : image[k].len > 0 => InPlace(image[k])
  /\ NothingElseMapped

\* BootloaderIntact: while it copies, the bootloader never overwrites the
\* memory the linker script gave to its own code, data and stack: the memory
\* map's boot_window, which the validator checks, covers them through both buses.
BootloaderIntact == \A r \in ram, w \in Resident(chip) :
  ~Meets(Span(r.dst, r.dst + r.n), w)

-----------------------------------------------------------------------------
(* What holds between any two steps, and the proofs build on.              *)

LoadTypeOK ==
  /\ chip \in Chips
  /\ stage \in {"boot", "copy", "read", "map", "app", "FlashRead", "Mmu"}
  /\ stage # "boot" => image \in Images(memory_map, chip)
  /\ seg \in 1 .. 4 /\ copied \in Nat

\* The one run the copy leaves, once n bytes of the RAM segment are copied.
Copied(n) == IF n = 0 THEN {}
  ELSE {[dst |-> ram_target(image[2], memory_map), src |-> image[2].data_offset, n |-> n]}

\* How far the copy loop is.
Copying == CASE
  seg = 1 -> copied = 0 /\ ram = Copied(0)
  [] seg = 2 -> copied <= image[2].len /\ ram = Copied(copied)
  [] OTHER -> copied = 0 /\ ram = Copied(image[2].len)

\* The read in progress is of the chunk after what is copied.
Reading ==
  /\ seg = 2 /\ copied < image[2].len
  /\ op = "read" /\ at = image[2].data_offset + copied
  /\ len = min(image[2].len - copied, 256)

\* The flash segments before seg are mapped, each byte to its own place, and
\* nothing else.
Mapping ==
  LET before == {k \in {1, 3} : k < seg}
  IN  /\ DOMAIN mmu = UNION {Entries(image[k]) : k \in before}
      /\ \A k \in before : \A i \in 0 .. image[k].len - 1 :
           Translate(image[k].load + i) = image[k].data_offset + i

LoadShape ==
  /\ stage = "boot" => seg = 1 /\ copied = 0 /\ ram = {}
  /\ stage \in {"copy", "read"} => Copying
  /\ stage = "read" => Reading
  /\ stage = "FlashRead" => \E n \in 0 .. image[2].len : ram = Copied(n)
  /\ stage \in {"map", "app", "Mmu"} => ram = Copied(image[2].len)
  /\ stage \in {"map", "app"} => Mapping
  /\ stage = "app" => seg = 4

LoadInv == LoadTypeOK /\ LoadShape
=============================================================================
