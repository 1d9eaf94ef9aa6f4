-------------------------- MODULE ImageLoadProofs --------------------------
(***************************************************************************)
(* The windows of flash_read and flash_program are right for every address *)
(* and every length, and load puts every segment in its place and leaves   *)
(* the running bootloader alone, for every length of every segment.        *)
(***************************************************************************)
EXTENDS ImageLoad, TLAPS

\* What TypeOK says of a transfer, whoever made it: the loader's have addresses
\* and lengths of their own.
Buffer ==
  /\ op \in {"read", "program"}
  /\ at \in Nat /\ len \in Nat
  /\ done \in 0 .. len
  /\ moved \in [0 .. len - 1 -> Nat \cup {Untouched, Zero}]
  /\ words \in Nat
  /\ pc \in {"run", "ok", "err"}

\* A program moves whole words, so its last window holds whole words too.
Stride == op = "program" => done % 4 = 0

RomInv == Buffer /\ WindowFits /\ MovedExact /\ Stride

\* The address arithmetic of one window of a read: it starts at most three
\* bytes early, makes progress, ends inside the buffer and inside the window.
LEMMA WindowArithmetic ==
  ASSUME Buffer, done < len
  PROVE  /\ pos \in Nat /\ start \in Nat /\ skip \in 0 .. 3 /\ start + skip = at + done
         /\ want \in 1 .. 252 /\ done + want \in done + 1 .. len
         /\ (skip + want + 3) \div 4 \in 0 .. WINDOW
         /\ skip + want <= 4 * ((skip + want + 3) \div 4)
<1>1. at \in Nat /\ len \in Nat /\ done \in Nat
  BY RomAssumption DEF Buffer
<1>2. pos \in Nat /\ pos % 4 \in 0 .. 3 /\ pos % 4 <= pos
  BY <1>1 DEF pos
<1>3. start \in Nat /\ skip \in 0 .. 3 /\ start + skip = at + done
  <2>1. start = pos - (pos % 4) /\ skip = pos % 4 /\ pos = at + done
    BY <1>2 DEF start, skip, pos
  <2> QED BY <1>1, <1>2, <2>1
<1>4. want \in 1 .. 252 /\ done + want \in done + 1 .. len
  BY <1>1 DEF want, min
<1>5. \A n \in 1 .. 255 : (n + 3) \div 4 \in 0 .. 64 /\ n <= 4 * ((n + 3) \div 4)
  OBVIOUS
<1>6. skip + want \in 1 .. 255
  BY <1>3, <1>4
<1> QED BY <1>2, <1>3, <1>4, <1>5, <1>6 DEF WINDOW

\* Before the first window nothing has been touched.
LEMMA InitRom == Init => RomInv
  BY RomAssumption DEF Init, RomInv, Stride, Buffer, WindowFits, MovedExact, WINDOW, Untouched, Zero

\* One window of flash_read.
LEMMA ReadRom ==
  ASSUME RomInv, ReadWindow
  PROVE  RomInv'
<1> USE DEF Untouched, Zero
<1>1. /\ Buffer /\ done < len /\ op = "read" /\ pc = "run"
      /\ UNCHANGED <<op, at, len>>
  BY DEF RomInv, ReadWindow
<1>2. at \in Nat /\ len \in Nat /\ done \in Nat
  BY <1>1, RomAssumption DEF Buffer
<1>3. words' = (skip + want + 3) \div 4 /\ words' \in 0 .. WINDOW /\ skip + want <= 4 * words'
  BY <1>1, WindowArithmetic DEF ReadWindow
<1>a. words' \in Nat /\ WindowFits'
  BY <1>3 DEF WindowFits, WINDOW
<1>4. CASE pc' = "err" /\ UNCHANGED <<moved, done>>
  <2>1. Buffer'
    BY <1>1, <1>a, <1>4 DEF Buffer
  <2>2. MovedExact' /\ Stride'
    BY <1>1, <1>4 DEF RomInv, MovedExact, Stride
  <2> QED BY <1>a, <2>1, <2>2 DEF RomInv
<1>5. CASE /\ moved' = [i \in 0 .. len - 1 |->
                          IF done <= i /\ i < done + want
                            THEN window(words', skip + i - done) ELSE moved[i]]
           /\ done' = done + want /\ pc' = "run"
  <2>1. ASSUME NEW i \in 0 .. len - 1, done <= i, i < done + want
        PROVE  moved'[i] = at + i
    <3>0. skip \in 0 .. 3 /\ start \in Nat /\ start + skip = at + done /\ want \in 1 .. 252
      BY <1>1, WindowArithmetic
    <3>1. skip + i - done < 4 * words' /\ start + (skip + i - done) = at + i
      BY <1>2, <1>3, <2>1, <3>0 DEF WINDOW
    <3> QED BY <1>5, <2>1, <3>1 DEF window
  <2>2. ASSUME NEW i \in 0 .. len - 1, ~(done <= i /\ i < done + want)
        PROVE  moved'[i] = moved[i]
    BY <1>5, <2>2
  <2>3. done' \in 0 .. len /\ done' = done + want /\ want \in 1 .. 252
    BY <1>1, <1>2, <1>5, WindowArithmetic
  <2>4. \A i \in 0 .. len - 1 : moved'[i] \in {Untouched, at + i}
    BY <2>1, <2>2 DEF RomInv, MovedExact
  <2>5. moved' \in [0 .. len - 1 -> Nat \cup {Untouched, Zero}]
    <3>1. \A i \in 0 .. len - 1 : at + i \in Nat
      BY <1>2
    <3> QED BY <1>5, <2>4, <3>1
  <2>6. \A i \in 0 .. len - 1 : /\ moved'[i] = Untouched => done' <= i
                                /\ done' <= i => moved'[i] = Untouched
    <3> SUFFICES ASSUME NEW i \in 0 .. len - 1
                 PROVE  /\ moved'[i] = Untouched => done' <= i
                        /\ done' <= i => moved'[i] = Untouched
      OBVIOUS
    <3>1. CASE done <= i /\ i < done + want
      BY <1>2, <2>1, <2>3, <3>1
    <3>2. CASE ~(done <= i /\ i < done + want)
      <4>1. /\ moved[i] = Untouched => done <= i
            /\ done <= i => moved[i] = Untouched
        BY <1>1 DEF RomInv, MovedExact
      <4> QED BY <1>2, <2>2, <2>3, <3>2, <4>1
    <3> QED BY <3>1, <3>2
  <2>7. Buffer'
    BY <1>1, <1>a, <1>5, <2>3, <2>5 DEF Buffer
  <2>8. MovedExact' /\ Stride'
    BY <1>1, <1>5, <2>4, <2>6 DEF MovedExact, Stride
  <2> QED BY <1>a, <2>7, <2>8 DEF RomInv
<1> QED BY <1>4, <1>5 DEF ReadWindow

\* One window of flash_program.
LEMMA ProgramRom ==
  ASSUME RomInv, ProgramWindow
  PROVE  RomInv'
<1> USE DEF Untouched, Zero
<1> DEFINE n == min(len - done, 256)
           After(k) == [i \in 0 .. len - 1 |->
                          IF done <= i /\ i < done + k
                            THEN IF i < done + (n - (n % 4)) THEN at + i ELSE Zero
                            ELSE moved[i]]
<1>1. /\ Buffer /\ done < len /\ pc = "run" /\ UNCHANGED <<op, at, len>>
      /\ at \in Nat /\ len \in Nat /\ done \in Nat
  BY RomAssumption DEF RomInv, ProgramWindow, Buffer
<1>2. n \in 1 .. 256 /\ done + n <= len
  BY <1>1 DEF min
<1>3. words' = n \div 4 /\ words' \in 0 .. WINDOW
  <2>1. \A m \in 1 .. 256 : m \div 4 \in 0 .. 64
    OBVIOUS
  <2>2. words' = n \div 4
    BY DEF ProgramWindow
  <2> QED BY <1>2, <2>1, <2>2 DEF WINDOW
<1>4. n % 4 = 0 /\ (done + n) % 4 = 0
  <2>1. len % 4 = 0 /\ done % 4 = 0
    BY DEF RomInv, Stride, ProgramWindow, aligned
  <2>2. n = len - done \/ n = 256
    BY DEF min
  <2> HIDE DEF n
  <2> QED BY <1>1, <1>2, <2>1, <2>2
<1>5. ASSUME NEW k \in 0 .. n, moved' = After(k),
             \/ pc' = "run" /\ k = n /\ done' = done + n
             \/ pc' = "err" /\ done' = done
      PROVE  RomInv'
  <2> HIDE DEF n
  <2>1. ASSUME NEW i \in 0 .. len - 1, done <= i, i < done + k
        PROVE  moved'[i] = at + i
    <3>1. i < done + (n - (n % 4))
      BY <1>1, <1>2, <1>4, <2>1
    <3> QED BY <1>5, <2>1, <3>1
  <2>2. ASSUME NEW i \in 0 .. len - 1, ~(done <= i /\ i < done + k)
        PROVE  moved'[i] = moved[i]
    BY <1>5, <2>2
  <2>3. \A i \in 0 .. len - 1 : moved'[i] \in {Untouched, at + i}
    BY <2>1, <2>2 DEF RomInv, MovedExact
  <2>4. moved' \in [0 .. len - 1 -> Nat \cup {Untouched, Zero}]
    <3>1. \A i \in 0 .. len - 1 : at + i \in Nat
      BY <1>1
    <3> QED BY <1>5, <2>3, <3>1
  <2>5. \A i \in 0 .. len - 1 : /\ moved'[i] = Untouched => done' <= i
                                /\ done' <= i /\ pc' # "err" => moved'[i] = Untouched
    <3> SUFFICES ASSUME NEW i \in 0 .. len - 1
                 PROVE  /\ moved'[i] = Untouched => done' <= i
                        /\ done' <= i /\ pc' # "err" => moved'[i] = Untouched
      OBVIOUS
    <3>0. /\ moved[i] = Untouched => done <= i
          /\ done <= i => moved[i] = Untouched
      BY <1>1 DEF RomInv, MovedExact
    <3>1. CASE done <= i /\ i < done + k
      BY <1>1, <1>2, <1>5, <2>1, <3>1
    <3>2. CASE ~(done <= i /\ i < done + k)
      BY <1>1, <1>2, <1>5, <2>2, <3>0, <3>2
    <3> QED BY <3>1, <3>2
  <2>6. Buffer' /\ WindowFits'
    BY <1>1, <1>2, <1>3, <1>5, <2>4 DEF Buffer, WindowFits, WINDOW
  <2>7. MovedExact' /\ Stride'
    BY <1>1, <1>4, <1>5, <2>3, <2>5 DEF RomInv, MovedExact, Stride
  <2> QED BY <2>6, <2>7 DEF RomInv
<1>6. CASE moved' = After(n) /\ done' = done + n /\ pc' = "run"
  <2> HIDE DEF n, After
  <2>1. n \in 0 .. n
    BY <1>2
  <2> QED BY <1>5, <1>6, <2>1
<1>7. CASE (\E k \in {0, n \div 2, n} : moved' = After(k)) /\ pc' = "err" /\ UNCHANGED done
  <2>1. {0, n \div 2, n} \subseteq 0 .. n
    BY <1>2
  <2> QED BY <1>5, <1>7, <2>1
<1> QED BY <1>6, <1>7 DEF ProgramWindow

\* Every step of a transfer.
LEMMA NextRom == RomInv /\ [Next]_vars => RomInv'
<1> SUFFICES ASSUME RomInv, [Next]_vars PROVE RomInv'
  OBVIOUS
<1>1. CASE Refuse \/ Done
  <2>1. Buffer' /\ WindowFits' /\ Stride'
    BY <1>1 DEF Refuse, Done, RomInv, Buffer, WindowFits, Stride
  <2>2. MovedExact'
    BY <1>1 DEF Refuse, Done, RomInv, MovedExact
  <2> QED BY <2>1, <2>2 DEF RomInv
<1>2. CASE UNCHANGED vars
  BY <1>2 DEF vars, RomInv, Buffer, WindowFits, MovedExact, Stride
<1> QED BY <1>1, <1>2, ReadRom, ProgramRom DEF Next

-----------------------------------------------------------------------------
\* RomTypeCorrect: the loops never run past the buffer they were given.
THEOREM RomTypeCorrect == Spec => []TypeOK
<1> DEFINE I == RomInv /\ at \in Addresses /\ len \in Lengths
<1>1. Init => I
  BY InitRom DEF Init
<1>2. I /\ [Next]_vars => I'
  <2>1. [Next]_vars => UNCHANGED <<at, len>>
    BY DEF Next, ReadWindow, Refuse, ProgramWindow, Done, vars
  <2> QED BY <2>1, NextRom
<1>3. I => TypeOK
  BY DEF RomInv, Buffer, TypeOK
<1> QED BY <1>1, <1>2, <1>3, PTL DEF Spec

\* WindowFitsCorrect: no transfer is longer than the window of 64 words,
\* whatever the address and the length.
THEOREM WindowFitsCorrect == Spec => []WindowFits
<1>1. RomInv => WindowFits
  BY DEF RomInv
<1> QED BY <1>1, InitRom, NextRom, PTL DEF Spec

\* MovedExactCorrect: flash_read and flash_program move every byte from and to
\* its own address, for every address and length.
THEOREM MovedExactCorrect == Spec => []MovedExact
<1>1. RomInv => MovedExact
  BY DEF RomInv
<1> QED BY <1>1, InitRom, NextRom, PTL DEF Spec

-----------------------------------------------------------------------------
(* Images and maps                                                         *)

\* The memory map of either chip.
MapOf(c) == IF c = "esp32c3" THEN esp32c3 ELSE esp32s3

\* A window of 8 or 16 MB at a multiple of 32 MB: MMU entries count from it.
LEMMA EntryInWindow ==
  ASSUME NEW lo \in {\h3C000000, \h42000000}, NEW a \in Int,
         lo <= a, a < lo + \h1000000
  PROVE  Entry(a) = (a - lo) \div PAGE /\ a % PAGE = (a - lo) % PAGE
         /\ page_of(a) = lo + page_of(a - lo)
BY SMT DEF Entry, PAGE, page_of

\* The pages pages_of counts are those the segment touches.
LEMMA PageCount ==
  ASSUME NEW b \in Nat, NEW n \in Nat, n > 0,
         NEW p \in Int, p = (n + (b % PAGE) + PAGE - 1) \div PAGE
  PROVE  /\ (b + n - 1) \div PAGE = (b \div PAGE) + p - 1
         /\ \A i \in 0 .. n - 1 :
              /\ (b + i) \div PAGE \in (b \div PAGE) .. (b \div PAGE) + p - 1
              /\ ((b + i) \div PAGE - (b \div PAGE)) * PAGE + ((b + i) % PAGE)
                   = (b % PAGE) + i
         /\ page_of(b) \div PAGE = b \div PAGE
BY SMTT(60) DEF PAGE, page_of

\* The windows as the linker scripts place them: the resident code, data and
\* stack lie inside boot_window.
LEMMA ResidentInWindow ==
  ASSUME NEW c \in {"esp32c3", "esp32s3"}, NEW w \in Resident(c)
  PROVE  /\ w.lo \in Int /\ w.hi \in Int /\ w.lo < w.hi
         /\ MapOf(c).boot_window.lo \in Int /\ MapOf(c).boot_window.hi \in Int
         /\ MapOf(c).boot_window.lo <= w.lo /\ w.hi <= MapOf(c).boot_window.hi
BY SMT DEF MapOf, Resident, esp32c3, esp32s3, Span

\* A flash-mapped segment lies in the window of its region.
LEMMA FlashSegment ==
  ASSUME NEW c \in {"esp32c3", "esp32s3"},
         NEW r \in {MapOf(c).drom, MapOf(c).irom}, NEW s \in FlashSegs(r),
         valid(s, MapOf(c))
  PROVE  /\ s.load \in Int /\ s.data_offset \in Nat /\ s.len \in Nat
         /\ r.lo \in {\h3C000000, \h42000000} /\ r.lo <= s.load
         /\ s.load + s.len <= r.lo + \h1000000
         /\ flash_mapped(s, MapOf(c)) /\ s.load % PAGE = s.data_offset % PAGE
<1>1. PICK p \in {32, 2 * PAGE + 8}, q \in {24, 32, PAGE + 8, 3 * PAGE + 32}, n \in FlashLens :
        s = [load |-> r.lo + p, data_offset |-> PARTITION.lo + q, len |-> n]
  BY SMT DEF FlashSegs
<1>2. n \in Nat
  BY LoadAssumption, SMT
<1>3. s.load = r.lo + p /\ s.data_offset = PAGE + q /\ s.len = n
  BY <1>1, SMT DEF PARTITION, Span
<1>4. /\ r.lo \in {\h3C000000, \h42000000} /\ r.lo + \h800000 <= r.hi
      /\ r.hi <= r.lo + \h1000000
      /\ \A x \in {MapOf(c).drom, MapOf(c).irom, MapOf(c).iram, MapOf(c).dram, MapOf(c).rtc} :
           x # r => x.hi <= r.lo \/ r.lo + \h800000 <= x.lo
  BY SMT DEF MapOf, esp32c3, esp32s3, Span
<1>5. p \in Nat /\ p <= \h100000 /\ q \in Nat
  BY <1>1, SMT DEF PAGE
<1>6. PICK x \in {MapOf(c).drom, MapOf(c).irom, MapOf(c).iram, MapOf(c).dram, MapOf(c).rtc} :
        Within(s.load, x) /\ s.load + s.len <= x.hi
  BY SMT DEF valid
<1>7. r.lo \in Int /\ r.hi \in Int
  BY SMT DEF MapOf, esp32c3, esp32s3, Span
<1>8. x \in {MapOf(c).drom, MapOf(c).irom, MapOf(c).iram, MapOf(c).dram, MapOf(c).rtc}
      => x.lo \in Int /\ x.hi \in Int
  BY SMT DEF MapOf, esp32c3, esp32s3, Span
<1>9. x = r
  BY <1>3, <1>4, <1>5, <1>6, <1>7, <1>8, SMT DEF Within
<1>10. flash_mapped(s, MapOf(c))
  BY <1>6, <1>9, SMT DEF flash_mapped
<1>11. s.load % PAGE = s.data_offset % PAGE
  BY <1>10, SMT DEF valid
<1>12. r.lo <= s.load /\ s.load + s.len <= r.lo + \h1000000
  BY <1>2, <1>3, <1>4, <1>5, <1>6, <1>7, <1>9, SMT
<1> QED BY <1>2, <1>3, <1>4, <1>5, <1>7, <1>10, <1>11, <1>12, SMT DEF PAGE

\* A RAM segment is not flash-mapped, and its target spares the running
\* bootloader, whichever bus it is addressed through.
LEMMA RamSegment ==
  ASSUME NEW c \in {"esp32c3", "esp32s3"}, NEW s \in RamSegs(MapOf(c), c),
         valid(s, MapOf(c))
  PROVE  /\ s.data_offset \in Nat /\ s.len \in Nat /\ ram_target(s, MapOf(c)) \in Int
         /\ ~flash_mapped(s, MapOf(c))
         /\ \A w \in Resident(c) :
              \/ ram_target(s, MapOf(c)) + s.len <= w.lo
              \/ w.hi <= ram_target(s, MapOf(c))
<1>1. /\ s.data_offset \in Nat /\ s.len \in Nat /\ s.load \in Int
      /\ \/ s.load + s.len >= \h3FC80000 /\ s.load <= \h40400000
         \/ s.load \in {\h50000000, \h600FE000}
  <2>1. CASE \E n \in RamLens :
               s = [load |-> MapOf(c).rtc.lo, data_offset |-> PARTITION.lo + 7, len |-> n]
    BY <2>1, LoadAssumption, SMT DEF MapOf, esp32c3, esp32s3, Span, PARTITION, PAGE
  <2>2. ASSUME NEW b \in {MapOf(c).dram.lo} \cup {w.lo : w \in Resident(c) \cup {MapOf(c).boot_window}},
               NEW bus \in {0, MapOf(c).sram_alias_offset}, NEW back \in {0, 1},
               NEW n \in RamLens,
               s = [load |-> b + bus - back * n, data_offset |-> PARTITION.lo + 4096, len |-> n]
        PROVE  /\ s.data_offset \in Nat /\ s.len \in Nat /\ s.load \in Int
               /\ s.load + s.len >= \h3FC80000 /\ s.load <= \h40400000
    <3>1. n \in Nat
      BY LoadAssumption, SMT
    <3>2. b \in Int /\ b >= \h3FC80000 /\ b <= \h3FD00000
      BY SMT DEF MapOf, esp32c3, esp32s3, Span, Resident
    <3>3. bus \in Int /\ bus >= 0 /\ bus <= \h700000
      BY SMT DEF MapOf, esp32c3, esp32s3
    <3>4. back * n = 0 \/ back * n = n
      BY <3>1, SMT
    <3>5. s.load = b + bus - back * n /\ s.data_offset = PAGE + 4096 /\ s.len = n
      BY <2>2, SMT DEF PARTITION, Span
    <3> QED BY <3>1, <3>2, <3>3, <3>4, <3>5, SMT DEF PAGE
  <2> QED BY <2>1, <2>2, SMT DEF RamSegs
<1>2. PICK x \in {MapOf(c).drom, MapOf(c).irom, MapOf(c).iram, MapOf(c).dram, MapOf(c).rtc} :
        Within(s.load, x) /\ s.load + s.len <= x.hi
  BY SMT DEF valid
<1>3. ~flash_mapped(s, MapOf(c))
  BY <1>1, <1>2, SMT DEF flash_mapped, Within, MapOf, esp32c3, esp32s3, Span
<1>4. ram_target(s, MapOf(c)) \in Int
  BY <1>1, SMT DEF ram_target, MapOf, esp32c3, esp32s3
<1>5. ~Meets(Span(ram_target(s, MapOf(c)), ram_target(s, MapOf(c)) + s.len), MapOf(c).boot_window)
  BY <1>3, SMT DEF valid
<1>6. ASSUME NEW w \in Resident(c)
      PROVE  \/ ram_target(s, MapOf(c)) + s.len <= w.lo
             \/ w.hi <= ram_target(s, MapOf(c))
  BY <1>1, <1>4, <1>5, ResidentInWindow, SMT DEF Meets, Span
<1> QED BY <1>1, <1>3, <1>4, <1>6, SMT

\* An image the loader is given: two flash segments around a RAM segment.
LEMMA ImageShape ==
  ASSUME NEW c \in {"esp32c3", "esp32s3"}, NEW i \in Images(MapOf(c), c)
  PROVE  /\ Len(i) = 3
         /\ i[1] \in FlashSegs(MapOf(c).drom) /\ valid(i[1], MapOf(c))
         /\ i[2] \in RamSegs(MapOf(c), c) /\ valid(i[2], MapOf(c))
         /\ i[3] \in FlashSegs(MapOf(c).irom) /\ valid(i[3], MapOf(c))
         /\ Entries(i[1]) \cap Entries(i[3]) = {}
<1>1. PICK d \in FlashSegs(MapOf(c).drom), r \in RamSegs(MapOf(c), c),
           x \in FlashSegs(MapOf(c).irom) : i = <<d, r, x>>
  BY SMT DEF Images
<1>2. Len(i) = 3 /\ i[1] = d /\ i[2] = r /\ i[3] = x
  BY <1>1, SMT
<1>3. (\A k \in 1 .. 3 : valid(i[k], MapOf(c))) /\ Entries(i[1]) \cap Entries(i[3]) = {}
  BY SMT DEF Images, LinkedApart
<1>4. valid(i[1], MapOf(c)) /\ valid(i[2], MapOf(c)) /\ valid(i[3], MapOf(c))
  BY <1>3, SMT
<1> QED BY <1>1, <1>2, <1>3, <1>4, SMT

\* The table with a segment's pages set.
Remapped(s) == MMU_Set(page_of(s.load), page_of(s.data_offset), pages_of(s))

\* The pages of s are mapped, each byte to its place, and the others are kept.
Maps(s, f) ==
  /\ DOMAIN f = Entries(s) \cup DOMAIN mmu
  /\ \A e \in DOMAIN mmu \ Entries(s) : f[e] = mmu[e]
  /\ \A i \in 0 .. s.len - 1 :
       /\ Entry(s.load + i) \in Entries(s)
       /\ f[Entry(s.load + i)] + ((s.load + i) % PAGE) = s.data_offset + i

\* map_drom and map_irom put each byte of a segment where it was linked, and
\* map only the pages it touches.
LEMMA MapsSegment ==
  ASSUME NEW c \in {"esp32c3", "esp32s3"},
         NEW r \in {MapOf(c).drom, MapOf(c).irom}, NEW s \in FlashSegs(r),
         valid(s, MapOf(c)), s.len > 0
  PROVE  Maps(s, Remapped(s))
<1>1. /\ s.load \in Int /\ s.data_offset \in Nat /\ s.len \in Nat
      /\ r.lo \in {\h3C000000, \h42000000} /\ r.lo <= s.load
      /\ s.load + s.len <= r.lo + \h1000000
      /\ s.load % PAGE = s.data_offset % PAGE
  BY FlashSegment, SMT
<1> DEFINE b == s.load - r.lo
           p == pages_of(s)
           n == s.len
           first == b \div PAGE
           f == Remapped(s)
<1>2. b \in Nat /\ n \in Nat /\ n > 0
  BY <1>1, SMT
<1>3. \A a \in Int : r.lo <= a /\ a < r.lo + \h1000000 =>
        /\ Entry(a) = (a - r.lo) \div PAGE /\ a % PAGE = (a - r.lo) % PAGE
        /\ page_of(a) = r.lo + page_of(a - r.lo)
  BY <1>1, EntryInWindow, SMT
<1>4. s.load % PAGE = b % PAGE /\ page_of(s.load) = r.lo + page_of(b) /\ b % PAGE = s.data_offset % PAGE
  BY <1>1, <1>2, <1>3, SMT
<1>5. p \in Int /\ p = (n + (b % PAGE) + PAGE - 1) \div PAGE
  BY <1>1, <1>2, <1>4, SMT DEF pages_of, div_ceil, page_of, PAGE
<1>6. /\ (b + n - 1) \div PAGE = first + p - 1
      /\ \A i \in 0 .. n - 1 :
           /\ (b + i) \div PAGE \in first .. first + p - 1
           /\ ((b + i) \div PAGE - first) * PAGE + ((b + i) % PAGE) = (b % PAGE) + i
      /\ page_of(b) \div PAGE = first
  <2> HIDE DEF p, b, n
  <2> QED BY <1>2, <1>5, PageCount, SMT
<1>7. Entry(page_of(s.load)) = first
  <2>1. page_of(b) \in Nat /\ page_of(b) <= b
    BY <1>2, SMT DEF page_of, PAGE
  <2>2. r.lo <= page_of(s.load) /\ page_of(s.load) < r.lo + \h1000000 /\ page_of(s.load) \in Int
    BY <1>1, <1>2, <1>4, <2>1, SMT
  <2>3. page_of(s.load) - r.lo = page_of(b)
    BY <1>1, <1>4, <2>1, SMT
  <2> QED BY <1>3, <1>6, <2>2, <2>3, SMT
<1>8. ASSUME NEW i \in 0 .. n - 1
      PROVE  Entry(s.load + i) = (b + i) \div PAGE /\ (s.load + i) % PAGE = (b + i) % PAGE
  <2>1. PICK a \in Int : a = s.load + i
    BY <1>1, SMT
  <2>2. r.lo <= a /\ a < r.lo + \h1000000 /\ a - r.lo = b + i
    BY <1>1, <2>1, SMT
  <2>3. Entry(a) = (a - r.lo) \div PAGE /\ a % PAGE = (a - r.lo) % PAGE
    BY <1>3, <2>2, SMT
  <2> HIDE DEF b
  <2> QED BY <2>1, <2>2, <2>3, SMT
<1>9. Entry(s.load) = first /\ Entry(s.load + n - 1) = first + p - 1
  <2>1. 0 \in 0 .. n - 1 /\ n - 1 \in 0 .. n - 1
    BY <1>2, SMT
  <2>2. s.load + 0 = s.load /\ b + 0 = b /\ s.load + (n - 1) = s.load + n - 1
        /\ b + (n - 1) = b + n - 1
    BY <1>1, <1>2, SMT
  <2>3. Entry(s.load + 0) = (b + 0) \div PAGE /\ Entry(s.load + (n - 1)) = (b + (n - 1)) \div PAGE
    BY <1>8, <2>1, SMT
  <2> QED BY <1>6, <2>2, <2>3, SMT
<1>10. Entries(s) = first .. first + p - 1
  BY <1>2, <1>9, SMT DEF Entries
<1>11. f = [e \in (first .. first + p - 1) \cup DOMAIN mmu |->
              IF e \in first .. first + p - 1
                THEN page_of(s.data_offset) + (e - first) * PAGE ELSE mmu[e]]
  BY <1>7, SMT DEF MMU_Set, Remapped
<1> HIDE DEF f
<1>12. ASSUME NEW i \in 0 .. n - 1
       PROVE  /\ Entry(s.load + i) \in Entries(s)
              /\ f[Entry(s.load + i)] + ((s.load + i) % PAGE) = s.data_offset + i
  <2> DEFINE e == (b + i) \div PAGE
  <2>1. e \in first .. first + p - 1
        /\ (e - first) * PAGE + ((b + i) % PAGE) = (b % PAGE) + i
    BY <1>6, SMT
  <2>2. Entry(s.load + i) = e /\ (s.load + i) % PAGE = (b + i) % PAGE
    BY <1>8, SMT
  <2>3. f[e] = page_of(s.data_offset) + (e - first) * PAGE
    BY <1>11, <2>1, SMT
  <2>4. page_of(s.data_offset) = s.data_offset - (b % PAGE)
    BY <1>4, SMT DEF page_of
  <2>5. (e - first) * PAGE \in Int /\ (b + i) % PAGE \in Int /\ b % PAGE \in Int
    BY <1>2, SMT DEF PAGE
  <2> HIDE DEF e, first, b
  <2>6. f[e] + ((b + i) % PAGE) = s.data_offset + i
    BY <1>1, <2>1, <2>3, <2>4, <2>5, SMT
  <2> QED BY <1>10, <2>1, <2>2, <2>6, SMT
<1>13. DOMAIN f = Entries(s) \cup DOMAIN mmu /\ \A e \in DOMAIN mmu \ Entries(s) : f[e] = mmu[e]
  <2> HIDE DEF first, p
  <2> QED BY <1>10, <1>11
<1> HIDE DEF p, first, b
<1> QED BY <1>12, <1>13 DEF Maps, f

-----------------------------------------------------------------------------
(* Every step of load                                                      *)

\* The image being loaded, once there is one.
LEMMA LoadedImage ==
  ASSUME LoadTypeOK, stage # "boot"
  PROVE  /\ Len(image) = 3 /\ chip \in {"esp32c3", "esp32s3"} /\ memory_map = MapOf(chip)
         /\ image[1] \in FlashSegs(MapOf(chip).drom) /\ valid(image[1], memory_map)
         /\ image[2] \in RamSegs(MapOf(chip), chip) /\ valid(image[2], memory_map)
         /\ image[3] \in FlashSegs(MapOf(chip).irom) /\ valid(image[3], memory_map)
         /\ flash_mapped(image[1], memory_map) /\ ~flash_mapped(image[2], memory_map)
         /\ flash_mapped(image[3], memory_map)
         /\ image[1].len \in Nat /\ image[2].len \in Nat /\ image[3].len \in Nat
         /\ image[2].data_offset \in Nat /\ ram_target(image[2], memory_map) \in Int
         /\ Entries(image[1]) \cap Entries(image[3]) = {}
<1>1. chip \in {"esp32c3", "esp32s3"} /\ memory_map = MapOf(chip)
  BY LoadAssumption, SMT DEF LoadTypeOK, memory_map, MapOf
<1>2. image \in Images(MapOf(chip), chip)
  BY <1>1, SMT DEF LoadTypeOK
<1>3. /\ Len(image) = 3
      /\ image[1] \in FlashSegs(MapOf(chip).drom) /\ valid(image[1], MapOf(chip))
      /\ image[2] \in RamSegs(MapOf(chip), chip) /\ valid(image[2], MapOf(chip))
      /\ image[3] \in FlashSegs(MapOf(chip).irom) /\ valid(image[3], MapOf(chip))
      /\ Entries(image[1]) \cap Entries(image[3]) = {}
  BY <1>1, <1>2, ImageShape, SMT
<1>4. /\ flash_mapped(image[1], MapOf(chip)) /\ image[1].len \in Nat
      /\ flash_mapped(image[3], MapOf(chip)) /\ image[3].len \in Nat
  BY <1>1, <1>3, FlashSegment, SMT
<1>5. /\ ~flash_mapped(image[2], MapOf(chip)) /\ image[2].len \in Nat
      /\ image[2].data_offset \in Nat /\ ram_target(image[2], MapOf(chip)) \in Int
  BY <1>1, <1>3, RamSegment, SMT
<1> QED BY <1>1, <1>3, <1>4, <1>5, SMT

\* The loop's first state.
LEMMA InitLoad == LoadInit => LoadInv /\ RomInv
<1> SUFFICES ASSUME LoadInit PROVE LoadInv /\ RomInv
  OBVIOUS
<1>1. RomInv
  BY InitRom DEF LoadInit
<1>2. LoadTypeOK
  BY DEF LoadInit, LoadTypeOK
<1>3. LoadShape
  BY DEF LoadInit, LoadShape
<1> QED BY <1>1, <1>2, <1>3 DEF LoadInv

\* A transfer keeps what the loop asked for.
LEMMA TransferLoad ==
  ASSUME LoadInv, RomInv, Transfer
  PROVE  LoadInv' /\ RomInv'
<1>1. RomInv'
  BY NextRom DEF Transfer
<1>2. UNCHANGED <<chip, image, stage, seg, copied, ram, mmu, cache, op, at, len>>
      /\ stage \in {"boot", "read"}
  BY DEF Transfer, load, Next, ReadWindow, ProgramWindow, Refuse, Done
<1>3. LoadTypeOK'
  BY <1>2 DEF LoadInv, LoadTypeOK, memory_map
<1>4. LoadShape'
  BY <1>2 DEF LoadInv, LoadShape, Copying, Reading, Copied, memory_map
<1> QED BY <1>1, <1>3, <1>4 DEF LoadInv

\* flash_read is called.
LEMMA ReadBegins ==
  ASSUME NEW from \in Nat, NEW n \in Nat, Read(from, n)
  PROVE  RomInv'
BY DEF Read, RomInv, Buffer, WindowFits, MovedExact, Stride, Untouched, Zero, WINDOW

\* The image is handed over.
LEMMA BeginsLoad ==
  ASSUME LoadInv, RomInv, BeginLoad
  PROVE  LoadInv' /\ RomInv'
<1>1. RomInv'
  BY ReadBegins DEF BeginLoad
<1>2. /\ stage = "boot" /\ stage' = "copy" /\ image' \in Images(memory_map, chip)
      /\ UNCHANGED <<chip, seg, copied, ram, mmu, cache>>
  BY DEF BeginLoad
<1>3. LoadTypeOK'
  BY <1>2 DEF LoadInv, LoadTypeOK, memory_map
<1>4. Copying'
  <2>1. seg = 1 /\ copied = 0 /\ ram = {}
    BY <1>2 DEF LoadInv, LoadShape
  <2> QED BY <1>2, <2>1 DEF Copying, Copied
<1>5. LoadShape'
  BY <1>2, <1>4 DEF LoadShape
<1> QED BY <1>1, <1>3, <1>5 DEF LoadInv

\* The next chunk is read.
LEMMA ChunkBegins ==
  ASSUME LoadInv, RomInv, CopyChunk
  PROVE  LoadInv' /\ RomInv'
<1>1. /\ stage = "copy" /\ stage' = "read" /\ seg <= Len(image)
      /\ ~flash_mapped(current, memory_map) /\ copied < current.len
      /\ Read(current.data_offset + copied, chunk)
      /\ UNCHANGED <<chip, image, seg, copied, ram, mmu, cache>>
  BY DEF CopyChunk
<1>2. seg = 2 /\ copied \in Nat
  <2>1. seg \in 1 .. 3
    <3>1. Len(image) = 3
      BY <1>1, LoadedImage DEF LoadInv
    <3> QED BY <1>1, <3>1 DEF LoadInv, LoadTypeOK
  <2> QED BY <1>1, <2>1, LoadedImage DEF LoadInv, LoadTypeOK, current
<1>3. image[2].data_offset \in Nat /\ image[2].len \in Nat
  BY <1>1, LoadedImage DEF LoadInv
<1>4. current = image[2] /\ chunk = min(image[2].len - copied, 256) /\ chunk \in Nat
  BY <1>1, <1>2, <1>3 DEF current, chunk, min
<1>5. RomInv'
  <2>1. current.data_offset + copied \in Nat
    BY <1>2, <1>3, <1>4
  <2> QED BY <1>1, <1>4, <2>1, ReadBegins
<1>6. LoadTypeOK'
  BY <1>1 DEF LoadInv, LoadTypeOK, memory_map
<1>7. Copying'
  BY <1>1 DEF LoadInv, LoadShape, Copying, Copied, memory_map
<1>8. Reading'
  <2>1. op' = "read" /\ at' = image[2].data_offset + copied /\ len' = min(image[2].len - copied, 256)
    BY <1>1, <1>4 DEF Read
  <2> QED BY <2>1, <1>1, <1>2, <1>4 DEF Reading, min
<1>9. LoadShape'
  BY <1>1, <1>7, <1>8 DEF LoadShape
<1> QED BY <1>5, <1>6, <1>9 DEF LoadInv

\* The chunk that was read continues the run.
LEMMA ChunkCopied ==
  ASSUME LoadInv, RomInv, CopyDone
  PROVE  LoadInv' /\ RomInv'
<1>1. /\ stage = "read" /\ pc = "ok" /\ stage' = "copy" /\ copied' = copied + len
      /\ ram' = Extend(ram, [dst |-> ram_target(current, memory_map) + copied,
                             src |-> moved[0], n |-> len])
      /\ UNCHANGED <<chip, image, seg, mmu, cache, op, at, len, done, moved, words, pc>>
  BY DEF CopyDone, vars
<1> DEFINE t == ram_target(image[2], memory_map)
           o == image[2].data_offset
           r == [dst |-> t + copied, src |-> o + copied, n |-> len]
<1>2. t \in Int /\ o \in Nat /\ image[2].len \in Nat
  BY <1>1, LoadedImage DEF LoadInv
<1>3. /\ seg = 2 /\ copied \in Nat /\ copied < image[2].len /\ at = o + copied
      /\ len = min(image[2].len - copied, 256) /\ ram = Copied(copied)
  BY <1>1 DEF LoadInv, LoadTypeOK, LoadShape, Reading, Copying
<1>4. len \in Nat /\ len > 0 /\ copied + len <= image[2].len
  BY <1>2, <1>3 DEF min
<1>5. moved[0] = o + copied
  <2>1. done = len /\ 0 \in 0 .. len - 1
    BY <1>1, <1>4 DEF RomInv, MovedExact
  <2>2. moved[0] \in {Untouched, at + 0} /\ (moved[0] = Untouched => done <= 0)
    BY <2>1 DEF RomInv, MovedExact
  <2>3. moved[0] = at + 0
    BY <1>4, <2>1, <2>2
  <2> QED BY <1>2, <1>3, <2>3
<1>6. ram' = Extend(ram, r)
  BY <1>1, <1>3, <1>5 DEF current
<1>7. Extend(ram, r) = {[dst |-> t, src |-> o, n |-> copied + len]}
  <2> HIDE DEF t, o
  <2>1. CASE copied = 0
    <3>1. ram = {}
      BY <1>3, <2>1 DEF Copied
    <3>2. Extend(ram, r) = {r}
      BY <3>1 DEF Extend
    <3>3. r = [dst |-> t, src |-> o, n |-> copied + len]
      BY <1>2, <1>4, <2>1
    <3> QED BY <3>2, <3>3
  <2>2. CASE copied # 0
    <3> DEFINE q == [dst |-> t, src |-> o, n |-> copied]
    <3>1. ram = {q}
      BY <1>3, <2>2 DEF Copied, t, o
    <3>2. {x \in ram : x.dst + x.n = r.dst /\ x.src + x.n = r.src} = {q}
      BY <3>1
    <3>3. (CHOOSE x \in {q} : TRUE) = q /\ {q} # {}
      OBVIOUS
    <3>4. Extend(ram, r) = (ram \ {q}) \cup {[q EXCEPT !.n = @ + r.n]}
      <4> HIDE DEF q, r
      <4> QED BY <3>2, <3>3 DEF Extend
    <3> QED BY <3>1, <3>4
  <2> QED BY <2>1, <2>2
<1>8. LoadTypeOK'
  BY <1>1, <1>3, <1>4 DEF LoadInv, LoadTypeOK, memory_map
<1>9. Copying'
  <2>1. copied' # 0 /\ copied' <= image[2].len /\ seg' = 2 /\ copied' = copied + len
    BY <1>1, <1>3, <1>4
  <2>2. Copied(copied)' = {[dst |-> t, src |-> o, n |-> copied + len]}
    BY <1>1, <2>1 DEF Copied, memory_map
  <2> QED BY <1>1, <1>6, <1>7, <2>1, <2>2 DEF Copying
<1>10. RomInv'
  BY <1>1 DEF RomInv, Buffer, WindowFits, MovedExact, Stride
<1>11. LoadShape'
  BY <1>1, <1>9 DEF LoadShape
<1> QED BY <1>8, <1>10, <1>11 DEF LoadInv

\* The loop goes on to the next segment.
LEMMA SegmentDone ==
  ASSUME LoadInv, RomInv, NextSegment
  PROVE  LoadInv' /\ RomInv'
<1>1. /\ stage = "copy" /\ seg <= Len(image) /\ seg' = seg + 1 /\ copied' = 0
      /\ current.len = 0 \/ flash_mapped(current, memory_map) \/ copied >= current.len
      /\ UNCHANGED <<chip, image, stage, ram, mmu, cache, op, at, len, done, moved, words, pc>>
  BY DEF NextSegment, vars
<1>2. seg \in 1 .. 3 /\ copied \in Nat
  <2>1. Len(image) = 3
    BY <1>1, LoadedImage DEF LoadInv
  <2> QED BY <1>1, <2>1 DEF LoadInv, LoadTypeOK
<1>3. image[2].len \in Nat /\ ~flash_mapped(image[2], memory_map)
  BY <1>1, LoadedImage DEF LoadInv
<1>4. Copying
  BY <1>1 DEF LoadInv, LoadShape
<1>5. \A n : Copied(n)' = Copied(n)
  BY <1>1 DEF Copied, memory_map
<1>6. Copying'
  <2>1. CASE seg = 1
    <3>1. ram = Copied(0) /\ seg' = 2
      BY <1>1, <1>4, <2>1 DEF Copying
    <3>2. 0 <= image[2].len
      BY <1>3
    <3> QED BY <1>1, <1>5, <3>1, <3>2 DEF Copying
  <2>2. CASE seg = 2
    <3>1. copied = image[2].len /\ ram = Copied(image[2].len)
      BY <1>1, <1>2, <1>3, <1>4, <2>2 DEF Copying, current
    <3> QED BY <1>1, <1>5, <2>2, <3>1 DEF Copying
  <2>3. CASE seg = 3
    <3>1. ram = Copied(image[2].len) /\ seg' = 4
      BY <1>1, <1>4, <2>3 DEF Copying
    <3> QED BY <1>1, <1>5, <3>1 DEF Copying
  <2> QED BY <1>2, <2>1, <2>2, <2>3
<1>7. LoadTypeOK'
  BY <1>1, <1>2 DEF LoadInv, LoadTypeOK, memory_map
<1>8. LoadShape'
  BY <1>1, <1>6 DEF LoadShape
<1>9. RomInv'
  BY <1>1 DEF RomInv, Buffer, WindowFits, MovedExact, Stride
<1> QED BY <1>7, <1>8, <1>9 DEF LoadInv

\* A read fails: the run copied so far stays.
LEMMA FailsLoad ==
  ASSUME LoadInv, RomInv, CopyFails
  PROVE  LoadInv' /\ RomInv'
<1>1. /\ stage = "read" /\ stage' = "FlashRead"
      /\ UNCHANGED <<chip, image, seg, copied, ram, mmu, cache, op, at, len, done, moved, words, pc>>
  BY DEF CopyFails, Halt, vars
<1>2. seg = 2 /\ ram = Copied(copied) /\ copied \in 0 .. image[2].len
  <2>1. image[2].len \in Nat
    BY <1>1, LoadedImage DEF LoadInv
  <2> QED BY <2>1, <1>1 DEF LoadInv, LoadTypeOK, LoadShape, Reading, Copying
<1>3. LoadTypeOK'
  BY <1>1 DEF LoadInv, LoadTypeOK, memory_map
<1>4. LoadShape'
  BY <1>1, <1>2 DEF LoadShape, Copied, memory_map
<1>5. RomInv'
  BY <1>1 DEF RomInv, Buffer, WindowFits, MovedExact, Stride
<1> QED BY <1>3, <1>4, <1>5 DEF LoadInv

\* The MMU is emptied.
LEMMA MappingBegins ==
  ASSUME LoadInv, RomInv, BeginMapping
  PROVE  LoadInv' /\ RomInv'
<1>1. /\ stage = "copy" /\ seg > Len(image) /\ mmu' = Cache_MMU_Init
      /\ stage' = "map" /\ seg' = 1
      /\ UNCHANGED <<chip, image, copied, ram, op, at, len, done, moved, words, pc>>
  BY DEF BeginMapping, vars
<1>2. seg = 4
  <2>1. Len(image) = 3
    BY <1>1, LoadedImage DEF LoadInv
  <2> QED BY <1>1, <2>1 DEF LoadInv, LoadTypeOK
<1>3. ram = Copied(image[2].len)
  BY <1>1, <1>2 DEF LoadInv, LoadShape, Copying
<1>4. Mapping'
  <2>1. {k \in {1, 3} : k < seg'} = {}
    BY <1>1
  <2>2. DOMAIN mmu' = {}
    BY <1>1 DEF Cache_MMU_Init
  <2> QED BY <2>1, <2>2 DEF Mapping
<1>5. LoadTypeOK'
  BY <1>1 DEF LoadInv, LoadTypeOK, memory_map
<1>6. LoadShape'
  BY <1>1, <1>3, <1>4 DEF LoadShape, Copied, memory_map
<1>7. RomInv'
  BY <1>1 DEF RomInv, Buffer, WindowFits, MovedExact, Stride
<1> QED BY <1>5, <1>6, <1>7 DEF LoadInv

\* A flash segment of the image is mapped in a table that has none of its pages:
\* it is in its place, and what was there before still is.
LEMMA AddsSegment ==
  ASSUME LoadInv, stage = "map", NEW k \in {1, 3}, seg = k, seg' = k + 1,
         mmu' = IF image[k].len > 0
                THEN MMU_Set(page_of(image[k].load), page_of(image[k].data_offset),
                             pages_of(image[k]))
                ELSE mmu,
         UNCHANGED <<chip, image>>
  PROVE  Mapping'
<1> DEFINE before == {j \in {1, 3} : j < k}
           Placed(j, table) == \A i \in 0 .. image[j].len - 1 :
             table[Entry(image[j].load + i)] + ((image[j].load + i) % PAGE)
               = image[j].data_offset + i
<1>1. ASSUME NEW j \in {1, 3}
      PROVE  /\ chip \in {"esp32c3", "esp32s3"} /\ valid(image[j], MapOf(chip))
             /\ image[j].len \in Nat
             /\ image[j] \in FlashSegs(MapOf(chip).drom) \cup FlashSegs(MapOf(chip).irom)
  BY LoadedImage DEF LoadInv
<1>2. ASSUME NEW j \in {1, 3}, image[j].len > 0
      PROVE  Maps(image[j], Remapped(image[j]))
  <2>1. PICK r \in {MapOf(chip).drom, MapOf(chip).irom} : image[j] \in FlashSegs(r)
    BY <1>1
  <2> QED BY <1>1, <1>2, <2>1, MapsSegment
<1>3. ASSUME NEW j \in {1, 3}, NEW i \in 0 .. image[j].len - 1
      PROVE  Entry(image[j].load + i) \in Entries(image[j])
  <2>1. image[j].len > 0
    BY <1>1, <1>3
  <2> QED BY <1>2, <2>1 DEF Maps
<1>4. DOMAIN mmu = UNION {Entries(image[j]) : j \in before} /\ \A j \in before : Placed(j, mmu)
  BY DEF LoadInv, LoadShape, Mapping, Translate
<1>5. {j \in {1, 3} : j < seg'} = before \cup {k}
  BY SMT
<1>6. \A j \in before : j \in {1, 3} /\ Entries(image[j]) \cap Entries(image[k]) = {}
  BY LoadedImage DEF LoadInv
<1>7. /\ DOMAIN mmu' = UNION {Entries(image[j]) : j \in before \cup {k}}
      /\ \A j \in before \cup {k} : Placed(j, mmu')
  <2>1. CASE image[k].len > 0
    <3>1. /\ DOMAIN mmu' = Entries(image[k]) \cup DOMAIN mmu
          /\ \A e \in DOMAIN mmu \ Entries(image[k]) : mmu'[e] = mmu[e]
          /\ Placed(k, mmu')
      <4>1. mmu' = Remapped(image[k])
        BY <2>1 DEF Remapped
      <4> QED BY <1>2, <2>1, <4>1 DEF Maps
    <3>2. ASSUME NEW j \in before PROVE Placed(j, mmu')
      <4> SUFFICES ASSUME NEW i \in 0 .. image[j].len - 1
                   PROVE  mmu'[Entry(image[j].load + i)] = mmu[Entry(image[j].load + i)]
        BY <1>4
      <4>1. Entry(image[j].load + i) \in Entries(image[j])
        BY <1>3, <1>6
      <4>2. Entry(image[j].load + i) \in DOMAIN mmu \ Entries(image[k])
        BY <1>4, <1>6, <4>1
      <4> QED BY <3>1, <4>2
    <3> HIDE DEF before, Placed
    <3> QED BY <1>4, <3>1, <3>2
  <2>2. CASE ~(image[k].len > 0)
    <3>1. mmu' = mmu /\ image[k].len = 0
      BY <1>1, <2>2
    <3>2. Entries(image[k]) = {} /\ Placed(k, mmu')
      BY <3>1 DEF Entries
    <3> HIDE DEF before, Placed
    <3> QED BY <1>4, <3>1, <3>2
  <2> QED BY <2>1, <2>2
<1>8. image' = image
  OBVIOUS
<1> QED BY <1>5, <1>7, <1>8 DEF Mapping, Translate

\* One turn of the mapping loop, or a mapping that fails.
LEMMA SegmentMapped ==
  ASSUME LoadInv, RomInv, MapSegment
  PROVE  LoadInv' /\ RomInv'
<1>1. /\ stage = "map" /\ seg <= Len(image) /\ ram = Copied(image[2].len)
      /\ UNCHANGED <<chip, image, copied, ram, cache, op, at, len, done, moved, words, pc>>
  BY DEF MapSegment, Halt, vars, LoadInv, LoadShape
<1>2. RomInv'
  BY <1>1 DEF RomInv, Buffer, WindowFits, MovedExact, Stride
<1>3. Copied(image[2].len)' = Copied(image[2].len)
  BY <1>1 DEF Copied, memory_map
<1>4. seg \in 1 .. 3
  <2>1. Len(image) = 3
    BY <1>1, LoadedImage DEF LoadInv
  <2> QED BY <1>1, <2>1 DEF LoadInv, LoadTypeOK
<1>5. CASE stage' = "Mmu" /\ UNCHANGED <<seg, mmu>>
  <2>1. LoadTypeOK'
    BY <1>1, <1>5 DEF LoadInv, LoadTypeOK, memory_map
  <2>2. LoadShape'
    BY <1>1, <1>3, <1>5 DEF LoadShape
  <2> QED BY <1>2, <2>1, <2>2 DEF LoadInv
<1>6. CASE /\ mmu' = IF current.len > 0 /\ flash_mapped(current, memory_map)
                     THEN MMU_Set(page_of(current.load),
                                  page_of(current.data_offset), pages_of(current))
                     ELSE mmu
           /\ seg' = seg + 1 /\ stage' = stage
  <2>1. Mapping'
    <3>1. CASE seg = 2
      <4>1. mmu' = mmu /\ seg' = 3
        BY <1>1, <1>6, <3>1, LoadedImage DEF LoadInv, current
      <4>2. {j \in {1, 3} : j < seg'} = {j \in {1, 3} : j < seg}
        BY <3>1, <4>1
      <4>3. Mapping /\ image' = image
        BY <1>1 DEF LoadInv, LoadShape
      <4> QED BY <4>1, <4>2, <4>3 DEF Mapping, Translate
    <3>2. CASE seg \in {1, 3}
      <4>1. flash_mapped(current, memory_map) /\ current = image[seg]
        BY <1>1, <3>2, LoadedImage DEF LoadInv, current
      <4> QED BY <1>1, <1>6, <3>2, <4>1, AddsSegment
    <3> QED BY <1>4, <3>1, <3>2
  <2>2. LoadTypeOK'
    BY <1>1, <1>4, <1>6 DEF LoadInv, LoadTypeOK, memory_map
  <2>3. LoadShape'
    BY <1>1, <1>3, <1>6, <2>1 DEF LoadShape
  <2> QED BY <1>2, <2>2, <2>3 DEF LoadInv
<1>7. \/ stage' = "Mmu" /\ UNCHANGED <<seg, mmu>>
      \/ /\ mmu' = IF current.len > 0 /\ flash_mapped(current, memory_map)
                   THEN MMU_Set(page_of(current.load),
                                page_of(current.data_offset), pages_of(current))
                   ELSE mmu
         /\ seg' = seg + 1 /\ stage' = stage
  BY DEF MapSegment, Halt
<1> QED BY <1>5, <1>6, <1>7

\* The jump.
LEMMA Jumps ==
  ASSUME LoadInv, RomInv, Jump
  PROVE  LoadInv' /\ RomInv'
<1>1. /\ stage = "map" /\ seg > Len(image) /\ stage' = "app"
      /\ UNCHANGED <<chip, image, seg, copied, ram, mmu, op, at, len, done, moved, words, pc>>
  BY DEF Jump, vars
<1>2. seg = 4
  <2>1. Len(image) = 3
    BY <1>1, LoadedImage DEF LoadInv
  <2> QED BY <1>1, <2>1 DEF LoadInv, LoadTypeOK
<1>3. LoadTypeOK'
  BY <1>1 DEF LoadInv, LoadTypeOK, memory_map
<1>4. Mapping' /\ (ram = Copied(image[2].len))'
  BY <1>1 DEF LoadInv, LoadShape, Mapping, Translate, Copied, memory_map
<1>5. LoadShape'
  BY <1>1, <1>2, <1>4 DEF LoadShape
<1>6. RomInv'
  BY <1>1 DEF RomInv, Buffer, WindowFits, MovedExact, Stride
<1> QED BY <1>3, <1>5, <1>6 DEF LoadInv

\* Every step of load.
LEMMA NextLoad == LoadInv /\ RomInv /\ [LoadNext]_loadVars => LoadInv' /\ RomInv'
<1> SUFFICES ASSUME LoadInv, RomInv, [LoadNext]_loadVars PROVE LoadInv' /\ RomInv'
  OBVIOUS
<1>1. CASE LoadNext
  BY <1>1, TransferLoad, BeginsLoad, ChunkBegins, ChunkCopied, FailsLoad, SegmentDone,
     MappingBegins, SegmentMapped, Jumps DEF LoadNext
<1>2. CASE UNCHANGED loadVars
  <2>1. UNCHANGED <<chip, image, stage, seg, copied, ram, mmu, op, at, len, done, moved, words, pc>>
    BY <1>2 DEF loadVars, load, vars
  <2>2. LoadTypeOK'
    BY <2>1 DEF LoadInv, LoadTypeOK, memory_map
  <2>3. LoadShape'
    BY <2>1 DEF LoadInv, LoadShape, Copying, Reading, Copied, Mapping, Translate, memory_map
  <2>4. RomInv'
    BY <2>1 DEF RomInv, Buffer, WindowFits, MovedExact, Stride
  <2> QED BY <2>2, <2>3, <2>4 DEF LoadInv
<1> QED BY <1>1, <1>2

-----------------------------------------------------------------------------
\* LoadInvCorrect: between any two steps the memory holds one run, as long as
\* the copy has come, and the MMU the pages of the segments before the loop's.
THEOREM LoadInvCorrect == LoadSpec => [](LoadInv /\ RomInv)
BY InitLoad, NextLoad, PTL DEF LoadSpec

\* LoadTransfersCorrect: the reads the loader makes are right like any other, at
\* the addresses and lengths of its own.
THEOREM LoadTransfersCorrect == LoadSpec => [](WindowFits /\ MovedExact)
<1>1. RomInv => WindowFits /\ MovedExact
  BY DEF RomInv
<1> QED BY <1>1, LoadInvCorrect, PTL

\* BootloaderIntactCorrect: whatever the lengths of the segments, and wherever a
\* read fails, no byte is copied over the running bootloader.
THEOREM BootloaderIntactCorrect == LoadSpec => []BootloaderIntact
<1>1. LoadInv => BootloaderIntact
  <2> SUFFICES ASSUME LoadInv, NEW r \in ram, NEW w \in Resident(chip)
               PROVE  ~Meets(Span(r.dst, r.dst + r.n), w)
    BY DEF BootloaderIntact
  <2>1. stage # "boot"
    BY DEF LoadInv, LoadShape
  <2> DEFINE t == ram_target(image[2], memory_map)
  <2>2. /\ chip \in {"esp32c3", "esp32s3"} /\ memory_map = MapOf(chip)
        /\ image[2] \in RamSegs(MapOf(chip), chip) /\ valid(image[2], MapOf(chip))
        /\ image[2].len \in Nat /\ t \in Int
    BY <2>1, LoadedImage DEF LoadInv
  <2>3. PICK n \in 0 .. image[2].len : ram = Copied(n)
    <3>1. copied \in Nat /\ seg \in 1 .. 4
      BY DEF LoadInv, LoadTypeOK
    <3>2. CASE stage \in {"copy", "read"}
      BY <2>2, <3>1, <3>2 DEF LoadInv, LoadShape, Copying
    <3>3. CASE stage = "FlashRead"
      BY <3>3 DEF LoadInv, LoadShape
    <3>4. CASE stage \in {"map", "app", "Mmu"}
      BY <2>2, <3>4 DEF LoadInv, LoadShape
    <3> QED BY <2>1, <3>2, <3>3, <3>4 DEF LoadInv, LoadTypeOK
  <2>4. r.dst = t /\ r.n = n
    BY <2>3 DEF Copied
  <2>5. t + image[2].len <= w.lo \/ w.hi <= t
    BY <2>2, RamSegment
  <2>6. w.lo \in Int /\ w.hi \in Int
    BY <2>2, ResidentInWindow
  <2> HIDE DEF t
  <2> QED BY <2>2, <2>3, <2>4, <2>5, <2>6 DEF Meets, Span
<1> QED BY <1>1, LoadInvCorrect, PTL

\* LoadedExactCorrect: when load jumps, every byte of every flash segment and the
\* whole RAM segment are where they were linked, whatever their lengths.
THEOREM LoadedExactCorrect == LoadSpec => []LoadedExact
<1>1. LoadInv => LoadedExact
  <2> SUFFICES ASSUME LoadInv, stage = "app" PROVE LoadedExact
    BY DEF LoadedExact
  <2>1. /\ Len(image) = 3
        /\ flash_mapped(image[1], memory_map) /\ ~flash_mapped(image[2], memory_map)
        /\ flash_mapped(image[3], memory_map)
    BY LoadedImage DEF LoadInv
  <2>2. {j \in {1, 3} : j < seg} = {1, 3} /\ ram = Copied(image[2].len)
    BY DEF LoadInv, LoadShape
  <2>3. DOMAIN mmu = UNION {Entries(image[k]) : k \in {1, 3}}
    BY <2>2 DEF LoadInv, LoadShape, Mapping
  <2>4. NothingElseMapped
    <3>1. {j \in 1 .. Len(image) : flash_mapped(image[j], memory_map)} = {1, 3}
      BY <2>1
    <3> QED BY <2>3, <3>1 DEF NothingElseMapped
  <2>5. ASSUME NEW k \in {1, 3}, image[k].len > 0 PROVE InPlace(image[k])
    <3> SUFFICES ASSUME NEW i \in 0 .. image[k].len - 1
                 PROVE  /\ Entry(image[k].load + i) \in DOMAIN mmu
                        /\ Translate(image[k].load + i) = image[k].data_offset + i
      BY <2>1 DEF InPlace, Probes
    <3>1. Translate(image[k].load + i) = image[k].data_offset + i
      BY <2>2 DEF LoadInv, LoadShape, Mapping
    <3>2. Entry(image[k].load + i) \in Entries(image[k])
      <4>1. /\ chip \in {"esp32c3", "esp32s3"} /\ valid(image[k], MapOf(chip))
            /\ image[k] \in FlashSegs(MapOf(chip).drom) \cup FlashSegs(MapOf(chip).irom)
        BY LoadedImage DEF LoadInv
      <4>2. PICK r \in {MapOf(chip).drom, MapOf(chip).irom} : image[k] \in FlashSegs(r)
        BY <4>1
      <4> QED BY <2>5, <4>1, <4>2, MapsSegment DEF Maps
    <3> QED BY <2>3, <3>1, <3>2
  <2>6. image[2].len > 0 => InPlace(image[2])
    BY <2>1, <2>2 DEF InPlace, Copied
  <2> QED BY <2>1, <2>4, <2>5, <2>6 DEF LoadedExact
<1> QED BY <1>1, LoadInvCorrect, PTL
=============================================================================
