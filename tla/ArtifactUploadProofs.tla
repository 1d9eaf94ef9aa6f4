------------------------ MODULE ArtifactUploadProofs ------------------------
(***************************************************************************)
(* Theorems about ArtifactUpload, for every flash geometry, partition,     *)
(* artifact and way of cutting it into appends.                            *)
(***************************************************************************)
EXTENDS ArtifactUpload, TLAPS

-----------------------------------------------------------------------------
(* Division.                                                               *)

\* Quotient and remainder.
LEMMA DivMod ==
  ASSUME NEW a \in Int, NEW b \in Nat, b # 0
  PROVE  /\ a \div b \in Int /\ a % b \in Int
         /\ a = b * (a \div b) + (a % b) /\ 0 <= a % b /\ a % b < b
  BY SMT

\* A smaller multiple is smaller by one divisor at least.
LEMMA Times ==
  ASSUME NEW b \in Nat, b # 0, NEW p \in Int, NEW q \in Int, p < q
  PROVE  p * b + b <= q * b
<1>1. q - p - 1 \in Nat
  OBVIOUS
<1>2. (q - p - 1) * b >= 0
  BY <1>1
<1>3. (q - p - 1) * b = q * b - p * b - b
  OBVIOUS
<1> QED BY <1>2, <1>3

\* The quotient is the only number that fits.
LEMMA DivUnique ==
  ASSUME NEW a \in Int, NEW b \in Nat, b # 0, NEW q \in Int, q * b <= a, a < q * b + b
  PROVE  a \div b = q
<1> DEFINE d == a \div b
<1>1. d \in Int /\ d * b <= a /\ a < d * b + b
  BY DivMod
<1> HIDE DEF d
<1>2. ~(d < q)
  <2> SUFFICES ASSUME d < q PROVE FALSE OBVIOUS
  <2>1. d * b + b <= q * b BY <1>1, Times
  <2>2. d * b \in Int /\ q * b \in Int BY <1>1
  <2> QED BY <1>1, <2>1, <2>2
<1>3. ~(q < d)
  <2> SUFFICES ASSUME q < d PROVE FALSE OBVIOUS
  <2>1. q * b + b <= d * b BY <1>1, Times
  <2>2. d * b \in Int /\ q * b \in Int BY <1>1
  <2> QED BY <1>1, <2>1, <2>2
<1> QED BY <1>1, <1>2, <1>3 DEF d

\* Whole multiples come out of a rounded-up quotient.
LEMMA Ceil ==
  ASSUME NEW b \in Nat, b # 0, NEW q \in Nat, NEW t \in Nat
  PROVE  ((q * b + t) + b - 1) \div b = q + ((t + b - 1) \div b)
<1> DEFINE d == (t + b - 1) \div b
<1>1. d \in Int /\ d * b <= t + b - 1 /\ t + b - 1 < d * b + b
  BY DivMod
<1> HIDE DEF d
<1>2. (q + d) * b = q * b + d * b /\ q * b \in Int /\ d * b \in Int
  BY <1>1
<1>3. (q + d) * b <= q * b + t + b - 1 /\ q * b + t + b - 1 < (q + d) * b + b
  BY <1>1, <1>2
<1>4. q * b + t + b - 1 \in Int /\ q + d \in Int
  BY <1>1, <1>2
<1>5. (q * b + t + b - 1) \div b = q + d
  BY <1>3, <1>4, DivUnique
<1> QED BY <1>5, <1>2 DEF d

\* A quotient of naturals is a natural.
LEMMA Quotient ==
  ASSUME NEW a \in Nat, NEW b \in Nat, b # 0
  PROVE  a \div b \in Nat
<1> DEFINE d == a \div b
<1>1. d \in Int /\ a = b * d + (a % b) /\ a % b \in Int /\ a % b < b
  BY DivMod
<1> HIDE DEF d
<1>2. b * d = d * b /\ d * b \in Int
  BY <1>1
<1>3. ASSUME d < 0 PROVE FALSE
  <2>1. d * b + b <= 0 * b
    BY <1>1, <1>3, Times
  <2> QED BY <1>1, <1>2, <2>1
<1> QED BY <1>1, <1>3 DEF d

\* Whole sectors are a multiple of the erase block.
LEMMA Whole ==
  ASSUME NEW n \in Nat
  PROVE  WholeSectors(n) <=> \E q \in Nat : n = q * EraseSize
<1>1. EraseSize \in Nat /\ EraseSize # 0
  BY GeometryAssumption
<1>2. ASSUME WholeSectors(n) PROVE \E q \in Nat : n = q * EraseSize
  <2>1. n \div EraseSize \in Int /\ n = EraseSize * (n \div EraseSize) /\ EraseSize * (n \div EraseSize) = (n \div EraseSize) * EraseSize
    BY <1>1, <1>2, DivMod DEF WholeSectors
  <2>2. n \div EraseSize \in Nat
    BY <1>1, Quotient
  <2> QED BY <2>1, <2>2
<1>3. ASSUME NEW q \in Nat, n = q * EraseSize PROVE WholeSectors(n)
  <2>1. n \div EraseSize = q
    BY <1>1, <1>3, DivUnique
  <2>2. n % EraseSize \in Int /\ n = EraseSize * (n \div EraseSize) + (n % EraseSize)
    BY <1>1, DivMod
  <2>3. EraseSize * q = q * EraseSize
    BY <1>1
  <2> QED BY <1>1, <1>3, <2>1, <2>2, <2>3 DEF WholeSectors
<1> QED BY <1>2, <1>3

\* Sectors add up, and a sector that begins below a boundary ends below it.
LEMMA WholeSum ==
  ASSUME NEW m \in Nat, NEW n \in Nat, WholeSectors(m), WholeSectors(n)
  PROVE  WholeSectors(m + n) /\ WholeSectors(0) /\ WholeSectors(EraseSize) /\ (m < n => m + EraseSize <= n)
<1>1. EraseSize \in Nat /\ EraseSize # 0
  BY GeometryAssumption
<1>2. PICK p \in Nat : m = p * EraseSize
  BY Whole
<1>3. PICK q \in Nat : n = q * EraseSize
  BY Whole
<1>4. m + n = (p + q) * EraseSize /\ p + q \in Nat
  BY <1>1, <1>2, <1>3
<1>5. WholeSectors(m + n)
  BY <1>4, Whole
<1>6. WholeSectors(0)
  <2>1. 0 = 0 * EraseSize
    BY <1>1
  <2> QED BY <2>1, Whole
<1>7. WholeSectors(EraseSize)
  <2>1. EraseSize = 1 * EraseSize
    BY <1>1
  <2> QED BY <1>1, <2>1, Whole
<1>8. ASSUME m < n PROVE m + EraseSize <= n
  <2>1. p < q
    <3> SUFFICES ASSUME q <= p PROVE FALSE
      OBVIOUS
    <3>1. (p - q) * EraseSize >= 0
      BY <1>1
    <3>2. (p - q) * EraseSize = m - n
      BY <1>1, <1>2, <1>3
    <3> QED BY <1>8, <3>1, <3>2
  <2> QED BY <1>1, <1>2, <1>3, <2>1, Times
<1> QED BY <1>5, <1>6, <1>7, <1>8

\* Counting sectors: whole ones as they are, the partial one at the end as one.
LEMMA Counted ==
  ASSUME NEW q \in Nat, NEW t \in Nat
  PROVE  /\ div_ceil(q * EraseSize + t, EraseSize) = q + div_ceil(t, EraseSize)
         /\ div_ceil(q * EraseSize, EraseSize) = q
         /\ div_ceil(t, EraseSize) \in Nat
<1>1. EraseSize \in Nat /\ EraseSize # 0
  BY GeometryAssumption
<1>2. ASSUME NEW r \in Nat
      PROVE  div_ceil(q * EraseSize + r, EraseSize) = q + div_ceil(r, EraseSize)
  BY <1>1, Ceil DEF div_ceil
<1>3. div_ceil(0, EraseSize) = 0
  BY <1>1, DivUnique DEF div_ceil
<1>4. div_ceil(t, EraseSize) \in Nat
  <2>1. t + EraseSize - 1 \in Nat
    BY <1>1
  <2> QED BY <1>1, <2>1, Quotient DEF div_ceil
<1>5. div_ceil(q * EraseSize + 0, EraseSize) = q + 0
  BY <1>2, <1>3
<1>6. q * EraseSize + 0 = q * EraseSize
  BY <1>1
<1> QED BY <1>2, <1>4, <1>5, <1>6

-----------------------------------------------------------------------------
(* What the operators of the model return.                                 *)

\* Cells are numbered from zero.
LEMMA CellsNat == \A i \in Cells : i \in Int /\ i >= 0
  BY DEF Cells

\* The sizes are numbers.
LEMMA Geometry ==
  ASSUME TypeOK
  PROVE  /\ part \in Nat /\ size \in Nat /\ part # 0
         /\ EraseSize \in Nat /\ EraseSize # 0 /\ WriteSize \in Nat /\ BatchSize \in Nat /\ BatchSize # 0
  BY GeometryAssumption DEF TypeOK

\* The smaller of two numbers.
LEMMA MinPair ==
  ASSUME NEW a \in Nat, NEW b \in Nat
  PROVE  Min({a, b}) \in {a, b} /\ Min({a, b}) <= a /\ Min({a, b}) <= b
<1> DEFINE Least(x) == x \in {a, b} /\ \A y \in {a, b} : x <= y
<1>1. \E x : Least(x)
  <2>1. CASE a <= b
    <3>1. Least(a)
      BY <2>1
    <3> QED BY <3>1
  <2>2. CASE b <= a
    <3>1. Least(b)
      BY <2>2
    <3> QED BY <3>1
  <2> QED BY <2>1, <2>2
<1>2. Min({a, b}) = CHOOSE x : Least(x)
  BY DEF Min
<1>3. Least(Min({a, b}))
  <2> HIDE DEF Least
  <2> QED BY <1>1, <1>2
<1> QED BY <1>3

\* The erase reaches past every byte that fits in the slot, and not past the slot.
LEMMA Desired ==
  ASSUME TypeOK, NEW n \in Nat
  PROVE  /\ desired_erased(n) \in Nat /\ desired_erased(n) <= part
         /\ \A m \in Nat : m <= n /\ m <= part => m <= desired_erased(n)
<1> DEFINE d == (n + BatchSize - 1) \div BatchSize
<1>1. part \in Nat /\ BatchSize \in Nat /\ BatchSize # 0 /\ n + BatchSize - 1 \in Nat
  BY Geometry
<1>2. d \in Int /\ d * BatchSize >= n /\ d * BatchSize \in Int
  <2>1. /\ d \in Int /\ n + BatchSize - 1 = BatchSize * d + ((n + BatchSize - 1) % BatchSize)
        /\ (n + BatchSize - 1) % BatchSize \in Int /\ (n + BatchSize - 1) % BatchSize < BatchSize
    BY <1>1, DivMod
  <2> HIDE DEF d
  <2>2. BatchSize * d = d * BatchSize /\ d * BatchSize \in Int
    BY <1>1, <2>1
  <2> QED BY <1>1, <2>1, <2>2
<1>3. d * BatchSize \in Nat
  BY <1>2
<1>4. desired_erased(n) = Min({d * BatchSize, part})
  BY DEF desired_erased, div_ceil
<1> HIDE DEF d
<1> QED BY <1>1, <1>2, <1>3, <1>4, MinPair

\* An erase, whole or not, changes only the cells of its range.
LEMMA ErasedCells ==
  ASSUME TypeOK, NEW from \in Int, NEW to \in Int, NEW k \in Int
  PROVE  /\ Erased(from, to, k) \in [Cells -> Cell]
         /\ \A i \in Cells : Erased(from, to, k)[i] =
              IF from <= i /\ i < to /\ i < from + k THEN "erased" ELSE flash[i]
  BY DEF TypeOK, Erased, Cell

\* Programming a block over erased bytes, or once more over its own, whole or
\* not: nothing is spoilt, inside the block or out of it.
LEMMA FlushedCells ==
  ASSUME TypeOK, RunsAhead, Contents, pc # "committed",
         NEW at \in Nat, NEW n \in Nat, NEW k \in Nat,
         flush_block_ok(at, n), at + n <= size, n = EraseSize \/ at + n = size,
         ahead => at + EraseSize <= erased_through
  PROVE  /\ Flushed(at, n, k) \in [Cells -> Cell]
         /\ \A i \in Cells :
              /\ i < at \/ i >= at + EraseSize => Flushed(at, n, k)[i] = flash[i]
              /\ at <= i /\ i < at + EraseSize =>
                   Flushed(at, n, k)[i] \in {"erased", "data", "pad", "torn"}
              /\ Flushed(at, n, k)[i] = "data" => i < size
              /\ k <= n \/ n = EraseSize => Flushed(at, n, k)[i] # "pad"
              /\ at <= i /\ i < at + n /\ i < at + k => Flushed(at, n, k)[i] = "data"
<1> DEFINE p == div_ceil(n, WriteSize) * WriteSize
           base == IF ahead THEN flash ELSE Erased(at, at + EraseSize, EraseSize)
           f == Flushed(at, n, k)
<1>1. /\ EraseSize \in Nat /\ size \in Nat /\ part \in Nat /\ erased_through \in Nat
      /\ n <= EraseSize /\ at + EraseSize <= part /\ p <= EraseSize
  BY Geometry DEF flush_block_ok, TypeOK
<1>2. p \in Int
  <2>1. WriteSize \in Nat /\ WriteSize # 0 /\ n + WriteSize - 1 \in Int
    BY GeometryAssumption
  <2>2. div_ceil(n, WriteSize) \in Int
    BY <2>1, DivMod DEF div_ceil
  <2> QED BY <2>1, <2>2
<1>3. \A i \in Cells : i < at \/ i >= at + EraseSize => base[i] = flash[i]
  <2>1. CASE ahead
    BY <2>1
  <2>2. CASE ~ahead
    <3>1. \A i \in Cells : base[i] =
            IF at <= i /\ i < at + EraseSize /\ i < at + EraseSize THEN "erased" ELSE flash[i]
      BY <1>1, <2>2, ErasedCells
    <3> HIDE DEF base
    <3> QED BY <1>1, <3>1, CellsNat
  <2> QED BY <2>1, <2>2
<1>4. \A i \in Cells : at <= i /\ i < at + EraseSize =>
        base[i] \in {"erased", "data", "torn"} /\ (base[i] = "data" => i < size)
  <2> SUFFICES ASSUME NEW i \in Cells, at <= i, i < at + EraseSize
               PROVE  base[i] \in {"erased", "data", "torn"} /\ (base[i] = "data" => i < size)
    OBVIOUS
  <2>1. CASE ahead
    BY <1>1, <2>1, CellsNat DEF Contents, TypeOK, Cell, RunsAhead
  <2>2. CASE ~ahead
    BY <1>1, <2>2, CellsNat, ErasedCells
  <2> QED BY <2>1, <2>2
<1>5. /\ f \in [Cells -> {Programmed(base[i], "data") : i \in Cells}
                  \cup {Programmed(base[i], "pad") : i \in Cells} \cup {"torn"} \cup {base[i] : i \in Cells}]
      /\ \A i \in Cells :
           f[i] = CASE at <= i /\ i < at + n /\ i < at + k -> Programmed(base[i], "data")
                    [] at + n <= i /\ i < at + p /\ i < at + k -> Programmed(base[i], "pad")
                    [] i = at + k /\ k < p /\ base[i] = "erased" -> "torn"
                    [] OTHER -> base[i]
  BY DEF Flushed, Written
<1> HIDE DEF p, base, f
<1>6. ASSUME NEW i \in Cells, i < at \/ i >= at + EraseSize PROVE f[i] = flash[i]
  BY <1>1, <1>2, <1>3, <1>5, <1>6, CellsNat
<1>7. ASSUME NEW i \in Cells, at <= i, i < at + EraseSize
      PROVE  /\ f[i] \in {"erased", "data", "pad", "torn"}
             /\ f[i] = "data" => i < size
             /\ k <= n \/ n = EraseSize => f[i] # "pad"
             /\ i < at + n /\ i < at + k => f[i] = "data"
  <2>1. CASE i < at + n /\ i < at + k
    <3>1. f[i] = Programmed(base[i], "data")
      <4>1. ~(at + n <= i) /\ i # at + k
        BY <2>1, CellsNat
      <4> QED BY <1>5, <1>7, <2>1, <4>1
    <3>2. f[i] = "data"
      BY <1>4, <1>7, <3>1 DEF Programmed
    <3>3. i < size
      BY <1>1, <2>1, CellsNat
    <3> QED BY <3>2, <3>3
  <2>2. CASE at + n <= i /\ i < at + p /\ i < at + k
    <3>1. f[i] = Programmed(base[i], "pad")
      <4>1. ~(at <= i /\ i < at + n /\ i < at + k)
        BY <2>2, CellsNat
      <4> QED BY <1>5, <2>2, <4>1
    <3>2. at + n = size /\ base[i] # "data" /\ k > n /\ n # EraseSize
      BY <1>1, <1>2, <1>4, <1>7, <2>2, CellsNat
    <3>3. f[i] = "pad"
      BY <1>4, <1>7, <3>1, <3>2 DEF Programmed
    <3> QED BY <1>1, <2>2, <3>2, <3>3, CellsNat
  <2>3. CASE ~(i < at + n /\ i < at + k) /\ ~(at + n <= i /\ i < at + p /\ i < at + k)
    <3>1. f[i] \in {"torn", base[i]}
      BY <1>1, <1>5, <1>7, <2>3
    <3> QED BY <1>4, <1>7, <2>3, <3>1
  <2> QED BY <2>1, <2>2, <2>3
<1>8. \A i \in Cells : f[i] \in Cell
  <2> SUFFICES ASSUME NEW i \in Cells PROVE f[i] \in Cell
    OBVIOUS
  <2>1. CASE i < at \/ i >= at + EraseSize
    BY <1>6, <2>1 DEF TypeOK
  <2>2. CASE at <= i /\ i < at + EraseSize
    BY <1>7, <2>2 DEF Cell
  <2> QED BY <1>1, <2>1, <2>2, CellsNat
<1>9. f \in [Cells -> Cell]
  BY <1>5, <1>8
<1>10. ASSUME NEW i \in Cells
      PROVE  /\ f[i] = "data" => i < size
             /\ k <= n \/ n = EraseSize => f[i] # "pad"
  <2>1. CASE i < at \/ i >= at + EraseSize
    BY <1>6, <2>1 DEF Contents
  <2>2. CASE at <= i /\ i < at + EraseSize
    BY <1>7, <2>2
  <2> QED BY <1>1, <2>1, <2>2, CellsNat
<1>11. \A i \in Cells : i < at + n => i < at + EraseSize
  BY <1>1, CellsNat
<1> QED BY <1>6, <1>7, <1>9, <1>10, <1>11 DEF f

-----------------------------------------------------------------------------
(* The inductive invariant.                                                *)

\* The flash is left alone.
LEMMA UntouchedKeeps ==
  ASSUME UploadInv, UNCHANGED <<session, flash, erased_through>>, pc # "committed",
         durable' + consumed' \in Int, durable' + consumed' <= durable + consumed
  PROVE  Contents'
<1>1. durable + consumed \in Int
  BY DEF UploadInv, TypeOK
<1> QED BY <1>1, CellsNat DEF UploadInv, Contents, session

\* An erase, whole or not, at or after what the session has stored.
LEMMA EraseKeeps ==
  ASSUME UploadInv, UNCHANGED session, pc # "committed",
         NEW from \in Nat, NEW to \in Nat, NEW k \in Int,
         durable + consumed <= from, to <= part,
         flash' = Erased(from, to, k),
         durable' + consumed' \in Int, durable' + consumed' <= durable + consumed,
         \/ erased_through' = erased_through
         \/ from = erased_through /\ erased_through' = to /\ k = to - from
  PROVE  flash' \in [Cells -> Cell] /\ Contents'
<1>1. /\ flash' \in [Cells -> Cell]
      /\ \A i \in Cells : flash'[i] = IF from <= i /\ i < to /\ i < from + k THEN "erased" ELSE flash[i]
  BY ErasedCells DEF UploadInv
<1>2. durable + consumed \in Int /\ part \in Int /\ erased_through \in Int
  BY Geometry DEF UploadInv, TypeOK
<1>3. ASSUME NEW i \in Cells
      PROVE  /\ i >= part => flash'[i] = "next_partition"
             /\ i < durable' + consumed' => flash'[i] = "data"
             /\ flash'[i] # "mixed"
             /\ flash'[i] = "data" => i < size
             /\ flash'[i] # "pad"
             /\ ahead /\ i < erased_through' => flash'[i] \notin {"old", "next_partition"}
  <2>1. CASE from <= i /\ i < to /\ i < from + k
    BY <1>1, <1>2, <2>1, CellsNat
  <2>2. CASE ~(from <= i /\ i < to /\ i < from + k)
    <3>1. flash'[i] = flash[i]
      BY <1>1, <2>2
    <3>2. i < erased_through' => i < erased_through
      BY <1>2, <2>2, CellsNat
    <3> QED BY <1>2, <3>1, <3>2, CellsNat DEF UploadInv, Contents
  <2> QED BY <2>1, <2>2
<1> QED BY <1>1, <1>3 DEF Contents, session

\* A block programmed, whole or not, right after what the session has stored.
LEMMA FlushKeeps ==
  ASSUME UploadInv, UNCHANGED <<session, erased_through>>, pc # "committed",
         NEW at \in Nat, at = durable + consumed, NEW n \in Nat, NEW k \in Nat,
         flush_block_ok(at, n), at + n <= size, n = EraseSize \/ at + n = size,
         ahead => at + EraseSize <= erased_through,
         flash' = Flushed(at, n, k),
         durable' + consumed' \in Int,
         durable' + consumed' <= at \/ (n <= k /\ durable' + consumed' <= at + n),
         pc' = "committed" \/ k <= n \/ n = EraseSize
  PROVE  flash' \in [Cells -> Cell] /\ Contents'
<1>1. /\ flash' \in [Cells -> Cell]
      /\ \A i \in Cells :
           /\ i < at \/ i >= at + EraseSize => flash'[i] = flash[i]
           /\ at <= i /\ i < at + EraseSize => flash'[i] \in {"erased", "data", "pad", "torn"}
           /\ flash'[i] = "data" => i < size
           /\ k <= n \/ n = EraseSize => flash'[i] # "pad"
           /\ at <= i /\ i < at + n /\ i < at + k => flash'[i] = "data"
  BY FlushedCells DEF UploadInv
<1>2. /\ EraseSize \in Nat /\ size \in Nat /\ part \in Nat /\ erased_through \in Nat
      /\ at + EraseSize <= part /\ n <= EraseSize
  BY Geometry DEF UploadInv, TypeOK, flush_block_ok
<1>3. ASSUME NEW i \in Cells
      PROVE  /\ i >= part => flash'[i] = "next_partition"
             /\ i < durable' + consumed' => flash'[i] = "data"
             /\ flash'[i] # "mixed"
             /\ flash'[i] = "data" => i < size
             /\ pc' # "committed" => flash'[i] # "pad"
             /\ ahead /\ i < erased_through => flash'[i] \notin {"old", "next_partition"}
  <2>1. CASE i < at \/ i >= at + EraseSize
    <3>1. flash'[i] = flash[i]
      BY <1>1, <2>1
    <3>2. i < durable' + consumed' => i < at
      BY <1>2, <2>1, CellsNat
    <3> QED BY <1>1, <3>1, <3>2 DEF UploadInv, Contents
  <2>2. CASE at <= i /\ i < at + EraseSize
    <3>1. flash'[i] \in {"erased", "data", "pad", "torn"} /\ ~(i >= part)
      BY <1>1, <1>2, <2>2, CellsNat
    <3>2. i < durable' + consumed' => i < at + n /\ i < at + k
      BY <1>2, <2>2, CellsNat
    <3> QED BY <1>1, <2>2, <3>1, <3>2
  <2> QED BY <1>2, <2>1, <2>2, CellsNat
<1> QED BY <1>1, <1>3 DEF Contents, session

\* The invariant holds of a fresh session.
LEMMA UploadInit == Init => UploadInv
<1> SUFFICES ASSUME Init PROVE UploadInv
  OBVIOUS
<1>1. /\ part \in Nat /\ size \in Nat /\ EraseSize \in Nat /\ EraseSize # 0
  BY GeometryAssumption DEF Init
<1>2. TypeOK
  BY DEF Init, TypeOK, Cell
<1>3. WholeSectors(0)
  BY <1>1 DEF WholeSectors
<1>4. Watermarks
  BY <1>1, <1>3 DEF Init, Watermarks
<1>5. RunsAhead
  BY <1>1, <1>3 DEF Init, RunsAhead
<1>6. Contents
  BY <1>1, CellsNat DEF Init, Contents
<1> QED BY <1>2, <1>4, <1>5, <1>6 DEF UploadInv

\* What every step starts from.
LEMMA Facts ==
  ASSUME UploadInv
  PROVE  /\ part \in Nat /\ size \in Nat /\ EraseSize \in Nat /\ EraseSize # 0
         /\ received \in Nat /\ durable \in Nat /\ erased_through \in Nat
         /\ sectors_flushed \in Nat /\ erase_batches \in Nat
         /\ len \in Nat /\ consumed \in Nat /\ failures \in Nat
         /\ received + len \in Nat /\ durable + consumed \in Nat
         /\ WholeSectors(0) /\ WholeSectors(EraseSize)
  BY Geometry, WholeSum DEF UploadInv, TypeOK, Watermarks

\* A failed call gives its bytes up or keeps them, and leaves the session where it was.
LEMMA FailKeeps ==
  ASSUME UploadInv, Fail, pc \in {"erase", "write"}, received' \in {received, received + len},
         UNCHANGED <<session, durable, erased_through, sectors_flushed, erase_batches>>,
         flash' \in [Cells -> Cell], Contents'
  PROVE  UploadInv'
<1>1. TypeOK'
  BY Facts DEF UploadInv, TypeOK, Fail, session
<1>2. Watermarks'
  BY Facts DEF UploadInv, Watermarks, Fail, session
<1>3. RunsAhead'
  BY Facts DEF UploadInv, RunsAhead, Fail, session
<1> QED BY <1>1, <1>2, <1>3 DEF UploadInv

\* append passes what the session has room for.
LEMMA AppendInv ==
  ASSUME UploadInv, NEW n \in Chunks, Append(n)
  PROVE  UploadInv'
<1>1. n \in Nat /\ consumed = 0 /\ len = 0
  BY GeometryAssumption DEF Append, UploadInv, Watermarks
<1>2. desired_erased(received + n) \in Nat
  BY <1>1, Desired, Facts DEF UploadInv
<1>3. TypeOK'
  BY <1>1 DEF UploadInv, TypeOK, Append, session
<1>4. Watermarks'
  BY <1>1, Facts DEF UploadInv, Watermarks, Append, can_append, session
<1>5. RunsAhead'
  <2>1. desired_erased(received + n)' = desired_erased(received + n)
    BY DEF Append, session, desired_erased
  <2>2. pc' = "write" /\ ahead => desired_erased(received + n) <= erased_through
    BY <1>2, Facts DEF Append
  <2>3. desired_erased(received + len)' = desired_erased(received + n)
    BY DEF Append, session, desired_erased
  <2> QED BY <2>2, <2>3 DEF UploadInv, RunsAhead, Append, session
<1>6. Contents'
  BY UntouchedKeeps, Facts DEF Append
<1> QED BY <1>3, <1>4, <1>5, <1>6 DEF UploadInv

\* ArtifactWriter erases ahead, or fails to.
LEMMA EraseAheadInv ==
  ASSUME UploadInv, EraseAhead
  PROVE  UploadInv'
<1> DEFINE to == desired_erased(received + len)
<1>1. /\ to \in Nat /\ to <= part /\ ahead /\ consumed = 0 /\ pc = "erase"
      /\ durable <= erased_through /\ UNCHANGED <<session, received, durable, sectors_flushed>>
  BY Desired, Facts DEF EraseAhead, UploadInv, Watermarks, RunsAhead
<1>2. CASE /\ erase_range_ok(erased_through, to)
           /\ flash' = Erased(erased_through, to, to - erased_through)
           /\ erase_batches' = erase_batches + (to - erased_through) \div BatchSize
           /\ erased_through' = to
           /\ pc' = "write"
           /\ UNCHANGED <<len, consumed, failures>>
  <2>1. WholeSectors(to) /\ erased_through <= to
    BY <1>2 DEF erase_range_ok, WholeSectors
  <2>2. flash' \in [Cells -> Cell] /\ Contents'
    BY <1>1, <1>2, Facts, EraseKeeps
  <2>3. (to - erased_through) \div BatchSize \in Nat
    BY <1>1, <2>1, Facts, Quotient, Geometry DEF UploadInv
  <2>4. TypeOK'
    BY <1>1, <1>2, <2>2, <2>3, Facts DEF UploadInv, TypeOK, session
  <2>5. Watermarks'
    BY <1>1, <1>2 DEF UploadInv, Watermarks, session
  <2>6. RunsAhead'
    <3>1. desired_erased(received + len)' = to
      BY <1>1, <1>2 DEF desired_erased, session
    <3>2. durable + consumed <= to
      BY <1>1, <2>1, Facts
    <3> QED BY <1>1, <1>2, <2>1, <3>1, <3>2 DEF UploadInv, RunsAhead, session
  <2> QED BY <2>2, <2>4, <2>5, <2>6 DEF UploadInv
<1>3. CASE ~erase_range_ok(erased_through, to) /\ Fail /\ UNCHANGED <<flash, erase_batches, erased_through>>
  <2>1. Contents'
    BY <1>1, <1>3, UntouchedKeeps, Facts DEF Fail
  <2> QED BY <1>1, <1>3, <2>1, FailKeeps DEF UploadInv, TypeOK
<1>4. CASE /\ faulty /\ erase_range_ok(erased_through, to)
           /\ \E k \in {0, EraseSize} : flash' = Erased(erased_through, to, k)
           /\ Fail
           /\ UNCHANGED <<erase_batches, erased_through>>
  <2>1. PICK k \in {0, EraseSize} : flash' = Erased(erased_through, to, k)
    BY <1>4
  <2>2. k \in Int
    BY <2>1, Facts
  <2>3. durable' + consumed' = durable /\ durable + consumed = durable
    BY <1>1, <1>4, Facts DEF Fail
  <2>4. flash' \in [Cells -> Cell] /\ Contents'
    BY <1>1, <1>4, <2>1, <2>2, <2>3, Facts, EraseKeeps
  <2> QED BY <1>1, <1>4, <2>4, FailKeeps
<1> QED BY <1>2, <1>3, <1>4 DEF EraseAhead

\* One whole block: stored, refused, or broken off.
LEMMA FlushBlockInv ==
  ASSUME UploadInv, FlushBlock
  PROVE  UploadInv'
<1> DEFINE at == durable + consumed
<1>1. /\ at \in Nat /\ pc = "write" /\ at + EraseSize <= received + len /\ at + EraseSize <= size
  BY Facts DEF FlushBlock, pending, UploadInv, Watermarks
<1>2. ASSUME flush_block_ok(at, EraseSize), ahead PROVE at + EraseSize <= erased_through
  <2>1. at + EraseSize <= part
    BY <1>2 DEF flush_block_ok
  <2>2. at + EraseSize \in Nat /\ received + len \in Nat
    BY <1>1, Facts
  <2>3. at + EraseSize <= desired_erased(received + len) /\ desired_erased(received + len) \in Nat
    BY <1>1, <2>1, <2>2, Desired DEF UploadInv
  <2>4. desired_erased(received + len) <= erased_through
    BY <1>1, <1>2 DEF UploadInv, RunsAhead
  <2> QED BY <2>2, <2>3, <2>4, Facts
<1>3. CASE /\ flush_block_ok(durable + consumed, EraseSize)
           /\ flash' = Flushed(durable + consumed, EraseSize, EraseSize)
           /\ consumed' = consumed + EraseSize
           /\ UNCHANGED <<session, received, durable, erased_through, sectors_flushed,
                          erase_batches, pc, len, failures>>
  <2>1. durable' + consumed' = at + EraseSize
    BY <1>3, Facts
  <2>2. flash' \in [Cells -> Cell] /\ Contents'
    BY <1>1, <1>2, <1>3, <2>1, Facts, FlushKeeps
  <2>3. TypeOK'
    BY <1>3, <2>2, Facts DEF UploadInv, TypeOK, session
  <2>4. WholeSectors(consumed')
    BY <1>3, Facts, WholeSum DEF UploadInv, Watermarks
  <2>5. at + EraseSize <= part
    BY <1>3 DEF flush_block_ok
  <2>6. Watermarks'
    BY <1>1, <1>3, <2>1, <2>4, <2>5 DEF UploadInv, Watermarks, session
  <2>7. RunsAhead'
    <3>1. desired_erased(received + len)' = desired_erased(received + len)
      BY <1>3 DEF desired_erased, session
    <3> QED BY <1>1, <1>2, <1>3, <2>1, <3>1 DEF UploadInv, RunsAhead, session
  <2> QED BY <2>2, <2>3, <2>6, <2>7 DEF UploadInv
<1>4. CASE ~flush_block_ok(durable + consumed, EraseSize) /\ FailAppend /\ UNCHANGED flash
  <2>1. durable' + consumed' \in Int /\ durable' + consumed' <= durable + consumed
    BY <1>4, Facts DEF FailAppend, Fail
  <2>2. Contents'
    BY <1>1, <1>4, <2>1, UntouchedKeeps DEF FailAppend
  <2> QED BY <1>1, <1>4, <2>2, FailKeeps DEF FailAppend, UploadInv, TypeOK
<1>5. CASE /\ faulty /\ flush_block_ok(durable + consumed, EraseSize)
           /\ Broken(durable + consumed, EraseSize)
           /\ FailAppend
  <2>1. durable' + consumed' \in Int /\ durable' + consumed' <= at
    BY <1>5, Facts DEF FailAppend, Fail
  <2>2. flash' \in [Cells -> Cell] /\ Contents'
    <3>1. CASE \E k \in 0 .. EraseSize : flash' = Flushed(at, EraseSize, k)
      <4>1. PICK k \in 0 .. EraseSize : flash' = Flushed(at, EraseSize, k)
        BY <3>1
      <4>2. k \in Nat /\ UNCHANGED <<session, erased_through>>
        BY <1>5, <4>1, Facts DEF FailAppend
      <4> QED BY <1>1, <1>2, <1>5, <2>1, <4>1, <4>2, Facts, FlushKeeps
    <3>2. CASE ~ahead /\ \E k \in {0, EraseSize} : flash' = Erased(at, at + EraseSize, k)
      <4>1. PICK k \in {0, EraseSize} : flash' = Erased(at, at + EraseSize, k)
        BY <3>2
      <4>2. k \in Int /\ at + EraseSize \in Nat /\ at + EraseSize <= part
        BY <1>5, <4>1, Facts DEF flush_block_ok
      <4>3. UNCHANGED <<session, erased_through>>
        BY <1>5 DEF FailAppend
      <4> QED BY <1>1, <2>1, <4>1, <4>2, <4>3, Facts, EraseKeeps
    <3> QED BY <1>5, <3>1, <3>2 DEF Broken
  <2> QED BY <1>1, <1>5, <2>2, FailKeeps DEF FailAppend
<1> QED BY <1>3, <1>4, <1>5 DEF FlushBlock

\* The watermarks move on by whole sectors.
LEMMA AppendDoneInv ==
  ASSUME UploadInv, AppendDone
  PROVE  UploadInv'
<1>1. PICK q \in Nat : consumed = q * EraseSize
  BY Facts, Whole DEF UploadInv, Watermarks
<1>2. div_ceil(consumed, EraseSize) = q
  BY <1>1, Counted
<1>3. durable' = (sectors_flushed + q) * EraseSize /\ sectors_flushed' = sectors_flushed + q
  BY <1>1, <1>2, Facts DEF AppendDone, UploadInv, Watermarks
<1>4. durable' = durable + consumed /\ consumed' = 0 /\ received' = received + len /\ len' = 0 /\ pc' = "idle"
      /\ UNCHANGED <<session, flash, erased_through, erase_batches, failures>> /\ pc = "write"
  BY DEF AppendDone
<1>5. TypeOK'
  BY <1>3, <1>4, Facts DEF UploadInv, TypeOK, session
<1>6. Watermarks'
  BY <1>3, <1>4, Facts DEF UploadInv, Watermarks, session
<1>7. RunsAhead'
  BY <1>4, Facts DEF UploadInv, RunsAhead, session
<1>8. durable' + consumed' \in Int /\ durable' + consumed' <= durable + consumed
  BY <1>4, Facts
<1>9. Contents'
  BY <1>4, <1>8, UntouchedKeeps
<1> QED BY <1>5, <1>6, <1>7, <1>9 DEF UploadInv

\* finish goes on, or gives the session up.
LEMMA FinishInv ==
  ASSUME UploadInv, Finish \/ FinishRefused
  PROVE  UploadInv'
<1>1. /\ pc = "idle" /\ pc' \in {"finish", "abandoned"}
      /\ pc' = "finish" => received = size /\ (ahead => received <= erased_through)
      /\ UNCHANGED <<session, flash, received, durable, erased_through, sectors_flushed,
                     erase_batches, len, consumed, failures>>
  BY DEF Finish, FinishRefused, finish_ok
<1>2. TypeOK'
  BY <1>1 DEF UploadInv, TypeOK, session
<1>3. Watermarks'
  BY <1>1 DEF UploadInv, Watermarks, session
<1>4. RunsAhead'
  BY <1>1 DEF UploadInv, RunsAhead, session
<1>5. durable' + consumed' \in Int /\ durable' + consumed' <= durable + consumed
  BY <1>1, Facts
<1>6. Contents'
  BY <1>1, <1>5, UntouchedKeeps
<1> QED BY <1>2, <1>3, <1>4, <1>6 DEF UploadInv

\* The final block is on flash: every byte counted, in every sector it takes.
LEMMA CommitKeeps ==
  ASSUME UploadInv, pc = "finish", Commit, flash' \in [Cells -> Cell], Contents',
         received <= part, UNCHANGED <<session, received, erased_through, erase_batches>>
  PROVE  UploadInv'
<1>1. received = size /\ consumed = 0 /\ len = 0 /\ durable <= received
      /\ durable = sectors_flushed * EraseSize
  BY DEF UploadInv, Watermarks
<1>2. /\ durable' = received /\ pc' = "committed" /\ UNCHANGED <<len, consumed, failures>>
      /\ sectors_flushed' = sectors_flushed + div_ceil(received - durable, EraseSize)
  BY DEF Commit
<1>3. received - durable \in Nat
  BY <1>1, Facts
<1>4. /\ div_ceil(sectors_flushed * EraseSize + (received - durable), EraseSize)
           = sectors_flushed + div_ceil(received - durable, EraseSize)
      /\ div_ceil(received - durable, EraseSize) \in Nat
  BY <1>3, Facts, Counted
<1>5. sectors_flushed * EraseSize + (received - durable) = size
  BY <1>1, Facts
<1>6. sectors_flushed' = div_ceil(size, EraseSize) /\ sectors_flushed' \in Nat
  BY <1>2, <1>4, <1>5, Facts
<1>7. TypeOK'
  BY <1>2, <1>6 DEF UploadInv, TypeOK, session
<1>8. Watermarks'
  BY <1>1, <1>2, <1>6, Facts DEF UploadInv, Watermarks, session, div_ceil
<1>9. RunsAhead'
  BY <1>2 DEF UploadInv, RunsAhead, session
<1> QED BY <1>7, <1>8, <1>9 DEF UploadInv

\* The final block: nothing left, stored and padded, refused, or broken off.
LEMMA FlushTailInv ==
  ASSUME UploadInv, FlushTail
  PROVE  UploadInv'
<1> DEFINE tail == received - durable
<1>1. /\ pc = "finish" /\ consumed = 0 /\ len = 0 /\ received = size /\ durable <= received
      /\ durable + consumed = durable /\ tail \in Nat /\ durable <= part
      /\ UNCHANGED <<session, received, erased_through, erase_batches>>
  BY Facts DEF FlushTail, UploadInv, Watermarks
<1>2. ASSUME ahead, tail > 0 PROVE durable + EraseSize <= erased_through
  <2>1. WholeSectors(durable)
    BY <1>1, Facts, Whole DEF UploadInv, Watermarks
  <2>2. WholeSectors(erased_through) /\ durable < erased_through
    BY <1>1, <1>2, Facts DEF UploadInv, RunsAhead
  <2> QED BY <2>1, <2>2, Facts, WholeSum
<1>3. CASE tail = 0 /\ Commit /\ UNCHANGED flash
  <2>1. durable' + consumed' \in Int /\ durable' + consumed' <= durable + consumed
    BY <1>1, <1>3, Facts DEF Commit
  <2>2. Contents'
    BY <1>1, <1>3, <2>1, UntouchedKeeps
  <2>3. received <= part
    BY <1>1, <1>3, Facts
  <2> QED BY <1>1, <1>3, <2>2, <2>3, CommitKeeps DEF UploadInv, TypeOK
<1>4. CASE /\ tail \in 1 .. EraseSize - 1 /\ flush_block_ok(durable, tail)
           /\ flash' = Flushed(durable, tail, EraseSize)
           /\ Commit
  <2>1. durable' + consumed' = durable + tail /\ durable + tail = size /\ tail <= EraseSize /\ pc' = "committed"
    BY <1>1, <1>4, Facts DEF Commit
  <2>2. flash' \in [Cells -> Cell] /\ Contents'
    BY <1>1, <1>2, <1>4, <2>1, Facts, FlushKeeps
  <2>3. received <= part
    BY <1>1, <1>4, <2>1, Facts DEF flush_block_ok
  <2> QED BY <1>1, <1>4, <2>2, <2>3, CommitKeeps
<1>5. ASSUME Abandon, flash' \in [Cells -> Cell], Contents' PROVE UploadInv'
  <2>1. pc' = "abandoned" /\ UNCHANGED <<durable, sectors_flushed, len, consumed, failures>>
    BY <1>5 DEF Abandon
  <2>2. TypeOK'
    BY <1>1, <1>5, <2>1 DEF UploadInv, TypeOK, session
  <2>3. Watermarks'
    BY <1>1, <2>1 DEF UploadInv, Watermarks, session
  <2>4. RunsAhead'
    BY <1>1, <2>1 DEF UploadInv, RunsAhead, session
  <2> QED BY <1>5, <2>2, <2>3, <2>4 DEF UploadInv
<1>6. CASE Abandon /\ UNCHANGED flash
  <2>1. durable' + consumed' \in Int /\ durable' + consumed' <= durable + consumed
    BY <1>1, <1>6, Facts DEF Abandon
  <2>2. Contents'
    BY <1>1, <1>6, <2>1, UntouchedKeeps
  <2> QED BY <1>5, <1>6, <2>2 DEF UploadInv, TypeOK
<1>7. CASE /\ faulty /\ tail \in 1 .. EraseSize - 1 /\ flush_block_ok(durable, tail)
           /\ Broken(durable, tail)
           /\ Abandon
  <2>1. durable' + consumed' \in Int /\ durable' + consumed' <= durable /\ durable + tail = size
    BY <1>1, <1>7, Facts DEF Abandon
  <2>2. flash' \in [Cells -> Cell] /\ Contents'
    <3>1. CASE \E k \in 0 .. tail : flash' = Flushed(durable, tail, k)
      <4>1. PICK k \in 0 .. tail : flash' = Flushed(durable, tail, k)
        BY <3>1
      <4>2. k \in Nat /\ k <= tail
        BY <1>1, <4>1
      <4> QED BY <1>1, <1>2, <1>7, <2>1, <4>1, <4>2, Facts, FlushKeeps
    <3>2. CASE ~ahead /\ \E k \in {0, EraseSize} : flash' = Erased(durable, durable + EraseSize, k)
      <4>1. PICK k \in {0, EraseSize} : flash' = Erased(durable, durable + EraseSize, k)
        BY <3>2
      <4>2. k \in Int /\ durable + EraseSize \in Nat /\ durable + EraseSize <= part
        BY <1>7, <4>1, Facts DEF flush_block_ok
      <4> QED BY <1>1, <2>1, <4>1, <4>2, Facts, EraseKeeps
    <3> QED BY <1>7, <3>1, <3>2 DEF Broken
  <2> QED BY <1>5, <1>7, <2>2
<1> QED BY <1>3, <1>4, <1>6, <1>7 DEF FlushTail

\* UploadInvCorrect: the inductive invariant of an upload, for every geometry,
\* artifact, way of cutting it into appends, and failing call.
THEOREM UploadInvCorrect == Spec => []UploadInv
<1>1. UploadInv /\ [Next]_vars => UploadInv'
  <2> SUFFICES ASSUME UploadInv, [Next]_vars PROVE UploadInv'
    OBVIOUS
  <2>1. CASE \E n \in Chunks : Append(n)
    BY <2>1, AppendInv
  <2>2. CASE UNCHANGED vars
    BY <2>2 DEF vars, session, UploadInv, TypeOK, Watermarks, RunsAhead, Contents, WholeSectors, desired_erased
  <2> QED BY <2>1, <2>2, EraseAheadInv, FlushBlockInv, AppendDoneInv, FinishInv, FlushTailInv DEF Next
<1> QED BY UploadInit, <1>1, PTL DEF Spec

\* DurableStoredCorrect: every byte the session calls durable is on flash as
\* sent, however often erases and programs fail and calls are repeated.
THEOREM DurableStoredCorrect == Spec => []DurableStored
<1>1. UploadInv => DurableStored
  BY Facts, CellsNat DEF UploadInv, Contents, DurableStored
<1> QED BY <1>1, UploadInvCorrect, PTL

\* ProgramsErasedOnlyCorrect: the erase always runs ahead of the program.
THEOREM ProgramsErasedOnlyCorrect == Spec => []ProgramsErasedOnly
<1>1. UploadInv => ProgramsErasedOnly
  BY DEF UploadInv, Contents, ProgramsErasedOnly
<1> QED BY <1>1, UploadInvCorrect, PTL

\* NeighbourUntouchedCorrect: no declared size makes an upload leave its slot.
THEOREM NeighbourUntouchedCorrect == Spec => []NeighbourUntouched
<1>1. UploadInv => NeighbourUntouched
  BY DEF UploadInv, Contents, NeighbourUntouched
<1> QED BY <1>1, UploadInvCorrect, PTL

\* CommittedExactCorrect: a committed upload is whole and its sectors counted.
THEOREM CommittedExactCorrect == Spec => []CommittedExact
<1>1. UploadInv => CommittedExact
  <2> SUFFICES ASSUME UploadInv, pc = "committed"
               PROVE  /\ \A i \in Cells : i < size => flash[i] = "data"
                      /\ sectors_flushed = div_ceil(size, EraseSize)
    BY DEF CommittedExact
  <2>1. durable + consumed = size /\ sectors_flushed = div_ceil(size, EraseSize)
    BY Facts DEF UploadInv, Watermarks
  <2> QED BY <2>1 DEF UploadInv, Contents
<1> QED BY <1>1, UploadInvCorrect, PTL
=============================================================================
