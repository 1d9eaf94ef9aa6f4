------------------------- MODULE ConfigSpaceProofs -------------------------
(***************************************************************************)
(* For any set of tasks, finite set of spaces and sizes of the partition,  *)
(* wherever calls fail, power is cut or records rot: a generation names    *)
(* one snapshot for ever; the capacity does not depend on what is stored;  *)
(* and a commit within its budget finds room.                              *)
(*                                                                         *)
(* The last two are about sums over the spaces.  The library's fold takes  *)
(* the elements in an order it chooses; SumIs shows that any order gives   *)
(* the same, by induction over subsets (SubsetInduction, which rests on    *)
(* the least number principle).  EntriesSame shows that what NVS writes    *)
(* for a blob, chunk by chunk, is what entries_for_blob counts; the rest   *)
(* is RoomForAnother, which compares the sum of what is stored with the    *)
(* sum of what is reserved, space by space.                                *)
(***************************************************************************)
EXTENDS ConfigSpace, FiniteSetTheorems, WellFoundedInduction, TLAPS

\* Nothing handed out for a space is newer than its record, and what was
\* handed out under the record's own generation is the record.  (A rotten
\* record keeps the generation it had, and is never replaced.)
GenInv ==
  /\ rec \in [Spaces -> Record]
  /\ seen \subseteq [space : Spaces, kind : {"absent", "present"},
                     generation : 1 .. MaxGeneration, len : Payloads \cup {0}]
  /\ \A x \in seen : x.generation <= rec[x.space].generation
  /\ \A x \in seen : x.generation = rec[x.space].generation =>
       \/ rec[x.space].kind = "corrupt"
       \/ x = Snapshot(x.space, rec[x.space])
  /\ \A s \in Spaces : rec[s].kind \in {"present", "absent"} =>
       rec[s].generation >= 1
  /\ GenerationNames

\* Nothing has been handed out at the start.
LEMMA InitGen == Init => GenInv
  BY ConfigAssumption
  DEF Init, GenInv, Record, NoRecord, GenerationNames, Snapshot

\* A record one generation newer takes the place of the old one, and its
\* snapshot is handed out or, when the set is reported as failed, is not.
LEMMA SetGen ==
  ASSUME GenInv, NEW s \in Spaces, NEW kind \in {"absent", "present"},
         NEW n \in Payloads \cup {0}, NEW r,
         r = [kind |-> kind, generation |-> rec[s].generation + 1, len |-> n],
         ~Refused(rec[s]), rec' = [rec EXCEPT ![s] = r],
         seen' \in {seen, seen \cup {Snapshot(s, r)}}
  PROVE  GenInv'
<1>1. rec[s].generation \in Nat /\ MaxGeneration \in Nat
      /\ rec[s].generation + 1 \in 1 .. MaxGeneration
  BY ConfigAssumption DEF GenInv, Record, Refused
<1>2. r \in Record /\ rec' \in [Spaces -> Record] /\ rec'[s] = r
  BY <1>1 DEF GenInv, Record
<1>3. \A q \in Spaces : q # s => rec'[q] = rec[q]
  BY DEF GenInv
<1>4. Snapshot(s, r) = [space |-> s, kind |-> kind,
        generation |-> rec[s].generation + 1, len |-> n]
  BY DEF Snapshot
<1>5. seen' \subseteq [space : Spaces, kind : {"absent", "present"},
                     generation : 1 .. MaxGeneration, len : Payloads \cup {0}]
  BY <1>1, <1>4 DEF GenInv
<1>6. \A x \in seen : x.space \in Spaces /\ x.generation \in Nat
                      /\ (x.space = s => x.generation < rec[s].generation + 1)
  BY <1>1 DEF GenInv
<1>7. \A x \in seen' : x.generation <= rec'[x.space].generation
  BY <1>1, <1>2, <1>3, <1>4, <1>6 DEF GenInv
<1>8. \A x \in seen' : x.generation = rec'[x.space].generation =>
       rec'[x.space].kind = "corrupt" \/ x = Snapshot(x.space, rec'[x.space])
  <2> SUFFICES ASSUME NEW x \in seen', x.generation = rec'[x.space].generation
               PROVE  rec'[x.space].kind = "corrupt"
                      \/ x = Snapshot(x.space, rec'[x.space])
    OBVIOUS
  <2>1. CASE x \in seen /\ x.space # s
    BY <2>1, <1>3, <1>6 DEF GenInv
  <2>2. CASE x \in seen /\ x.space = s
    BY <2>2, <1>1, <1>2, <1>6
  <2>3. CASE x = Snapshot(s, r)
    BY <2>3, <1>2, <1>4
  <2> QED BY <2>1, <2>2, <2>3
<1>9. \A q \in Spaces : rec'[q].kind \in {"present", "absent"} =>
       rec'[q].generation >= 1
  BY <1>1, <1>2, <1>3 DEF GenInv
<1>10. GenerationNames'
  BY <1>1, <1>4, <1>6 DEF GenInv, GenerationNames
<1> QED BY <1>2, <1>5, <1>7, <1>8, <1>9, <1>10 DEF GenInv, Snapshot

\* What load hands out is what the record's generation already names.
LEMMA LoadGen ==
  ASSUME GenInv, NEW s \in Spaces, rec[s].kind = "present", rec' = rec,
         seen' = seen \cup {Snapshot(s, rec[s])}
  PROVE  GenInv'
<1>1. rec[s] \in Record /\ rec[s].generation \in 1 .. MaxGeneration
      /\ MaxGeneration \in Nat
  BY ConfigAssumption DEF GenInv, Record
<1>2. Snapshot(s, rec[s]) \in [space : Spaces, kind : {"absent", "present"},
         generation : 1 .. MaxGeneration, len : Payloads \cup {0}]
  BY <1>1 DEF Snapshot, Record
<1>3. Snapshot(s, rec[s]).space = s
      /\ Snapshot(s, rec[s]).generation = rec[s].generation
  BY DEF Snapshot
<1>4. \A x \in seen : x.space = s /\ x.generation = rec[s].generation =>
        x = Snapshot(s, rec[s])
  BY DEF GenInv
<1>5. GenerationNames'
  BY <1>3, <1>4 DEF GenInv, GenerationNames
<1>6. \A x \in seen' : x.generation <= rec'[x.space].generation
  BY <1>1, <1>3 DEF GenInv
<1>7. \A x \in seen' : x.generation = rec'[x.space].generation =>
       rec'[x.space].kind = "corrupt" \/ x = Snapshot(x.space, rec'[x.space])
  BY <1>3 DEF GenInv
<1> QED BY <1>2, <1>5, <1>6, <1>7 DEF GenInv, Snapshot

\* Steps that leave the records and what was handed out alone.
LEMMA KeepGen == GenInv /\ UNCHANGED <<rec, seen>> => GenInv'
  BY DEF GenInv, GenerationNames, Snapshot

\* A record that rots keeps its generation.
LEMMA RotGen ==
  ASSUME GenInv, NEW s \in Spaces, Rot(s)
  PROVE  GenInv'
<1>1. rec' = [rec EXCEPT ![s] = [rec[s] EXCEPT !.kind = "corrupt"]] /\ seen' = seen
  BY DEF Rot
<1>2. rec[s] \in Record /\ rec'[s] = [rec[s] EXCEPT !.kind = "corrupt"]
      /\ rec' \in [Spaces -> Record]
  BY <1>1 DEF GenInv, Record
<1>3. rec'[s].kind = "corrupt" /\ rec'[s].generation = rec[s].generation
  BY <1>2 DEF Record
<1>4. \A q \in Spaces : q # s => rec'[q] = rec[q]
  BY <1>1 DEF GenInv
<1>5. \A x \in seen : x.space \in Spaces
  BY DEF GenInv
<1> QED BY <1>1, <1>2, <1>3, <1>4, <1>5 DEF GenInv, GenerationNames, Snapshot

\* A replacement that succeeds, is refused, or fails after it took effect.
LEMMA ReplaceGen ==
  ASSUME GenInv, NEW t \in Tasks, NEW s \in Spaces, NEW kind \in {"absent", "present"},
         NEW n \in Payloads \cup {0}, Replace(t, s, kind, n)
  PROVE  GenInv'
<1> DEFINE r == [kind |-> kind, generation |-> rec[s].generation + 1, len |-> n]
<1>1. CASE ~Refused(rec[s]) /\ SetRecord(s, r)
  BY <1>1, SetGen DEF SetRecord
<1>2. CASE OpFails
  BY <1>2, KeepGen DEF OpFails
<1>3. CASE ~Refused(rec[s]) /\ rec' = [rec EXCEPT ![s] = r] /\ seen' = seen
  BY <1>3, SetGen
<1> QED BY <1>1, <1>2, <1>3 DEF Replace

\* So does every step.
LEMMA NextGen == GenInv /\ [Next]_vars => GenInv'
<1> SUFFICES ASSUME GenInv, [Next]_vars PROVE GenInv'
  OBVIOUS
<1>1. CASE \E t \in Tasks : New(t) \/ NewStore(t) \/ CheckSet(t) \/ CheckDelete(t)
             \/ CheckStore(t)
  BY <1>1, KeepGen DEF New, NewStore, CheckSet, CheckDelete, CheckStore
<1>2. ASSUME NEW t \in Tasks, NEW s \in Spaces, Load(t, s)
      PROVE  GenInv'
  BY <1>2, LoadGen, KeepGen DEF Load, OpFails
<1>3. ASSUME NEW t \in Tasks, NEW s \in Spaces, Clear(t, s)
      PROVE  GenInv'
  BY <1>3, ReplaceGen DEF Clear
<1>4. ASSUME NEW t \in Tasks, NEW s \in Spaces, NEW n \in Payloads, Commit(t, s, n)
      PROVE  GenInv'
  BY <1>4, ReplaceGen DEF Commit
<1>5. CASE PowerCut
  BY <1>5, KeepGen DEF PowerCut
<1>6. ASSUME NEW s \in Spaces, Rot(s) PROVE GenInv'
  BY <1>6, RotGen
<1>7. ASSUME NEW s \in Spaces, NEW b \in Payloads, Claim(s, b) PROVE GenInv'
  BY <1>7, KeepGen DEF Claim
<1>8. CASE UNCHANGED vars
  BY <1>8, KeepGen DEF vars
<1> QED BY <1>1, <1>2, <1>3, <1>4, <1>5, <1>6, <1>7, <1>8 DEF Next

\* GenerationNamesCorrect: no generation is ever handed out for two different
\* snapshots of a space, through clears, failed sets, power cuts and records
\* that no longer decode.
THEOREM GenerationNamesCorrect == Spec => []GenerationNames
<1>1. GenInv => GenerationNames
  BY DEF GenInv
<1> QED BY <1>1, InitGen, NextGen, PTL DEF Spec

-----------------------------------------------------------------------------
(* Sums over finite sets.                                                  *)

\* A set of natural numbers has a least one.
LEMMA Least ==
  ASSUME NEW T \in SUBSET Nat, T # {}
  PROVE  \E x \in T : \A y \in T : x <= y
<1> DEFINE R == OpToRel(<, Nat)
<1>1. IsWellFoundedOn(R, Nat)
  BY NatLessThanWellFounded
<1>2. PICK x \in T : \A y \in T : <<y, x>> \notin R
  <2> HIDE DEF R
  <2> QED
    BY <1>1, WFMin
<1>3. \A y \in T : ~ (y < x)
  BY <1>2 DEF OpToRel
<1> QED
  BY <1>3

\* Induction over the subsets of a finite set: a family that holds the empty
\* set, and every set from which any element can be taken within the family,
\* holds them all.
LEMMA SubsetInduction ==
  ASSUME NEW D, IsFiniteSet(D), NEW Q \in SUBSET (SUBSET D), {} \in Q,
         \A T \in SUBSET D : T # {} /\ (\A x \in T : T \ {x} \in Q) => T \in Q
  PROVE  \A T \in SUBSET D : T \in Q
<1> SUFFICES ASSUME NEW U \in SUBSET D, U \notin Q
             PROVE  FALSE
  OBVIOUS
<1> DEFINE N == {Cardinality(T) : T \in (SUBSET D) \ Q}
<1>1. \A T \in SUBSET D : IsFiniteSet(T) /\ Cardinality(T) \in Nat
  BY FS_Subset, FS_CardinalityType
<1>2. N \in SUBSET Nat /\ N # {}
  BY <1>1
<1>3. PICK k \in N : \A j \in N : k <= j
  <2> HIDE DEF N
  <2> QED
    BY <1>2, Least
<1>4. PICK T \in (SUBSET D) \ Q : Cardinality(T) = k
  BY <1>3
<1>5. ASSUME NEW x \in T
      PROVE  T \ {x} \in Q
  <2>1. Cardinality(T \ {x}) = k - 1 /\ k \in Nat
    BY <1>1, <1>4, FS_RemoveElement
  <2>2. ~ (k <= k - 1)
    BY <2>1, SMT
  <2>3. k - 1 \notin N
    BY <1>3, <2>2
  <2> QED
    BY <1>4, <2>1, <2>3
<1>6. T # {} /\ T \in SUBSET D
  BY <1>4
<1> QED
  BY <1>4, <1>5, <1>6, Zenon

\* g adds up w over the subsets of D.
IsSum(g, w, D) ==
  /\ g \in [SUBSET D -> Int]
  /\ g[{}] = 0
  /\ \A T \in SUBSET D : \A x \in T : g[T] = w[x] + g[T \ {x}]

\* The fold: any element's value, and the sum of the others.
FoldVal(g, w, T) ==
  IF T = {} THEN 0
  ELSE w[CHOOSE x \in T : TRUE] + g[T \ {CHOOSE x \in T : TRUE}]

IsFold(g, w, D) == g = [T \in SUBSET D |-> FoldVal(g, w, T)]

\* The recursion of the fold has a solution.
LEMMA FoldExists ==
  ASSUME NEW D, IsFiniteSet(D), NEW w
  PROVE  \E g : IsFold(g, w, D)
<1> DEFINE Upto(k) == {T \in SUBSET D : Cardinality(T) <= k}
           Val(g, T) == FoldVal(g, w, T)
           Body(g, k) == [T \in Upto(k) |-> Val(g, T)]
           B == {k \in Nat : ~ \E g : g = Body(g, k)}
<1>1. \A T \in SUBSET D : /\ IsFiniteSet(T) /\ Cardinality(T) \in Nat
                          /\ Cardinality(T) <= Cardinality(D)
  BY FS_Subset, FS_CardinalityType
<1>2. Cardinality(D) \in Nat /\ Upto(Cardinality(D)) = SUBSET D
  BY <1>1
<1>3. \A T \in SUBSET D : T # {} =>
        /\ T \ {CHOOSE x \in T : TRUE} \in SUBSET D
        /\ Cardinality(T \ {CHOOSE x \in T : TRUE}) = Cardinality(T) - 1
  BY <1>1, FS_RemoveElement
<1>4. \A T \in SUBSET D : Cardinality(T) = 0 <=> T = {}
  BY <1>1, FS_EmptySet
<1>5. CASE B = {}
  <2>1. PICK g : g = Body(g, Cardinality(D))
    <3> HIDE DEF Body
    <3> QED
      BY <1>2, <1>5
  <2>2. g = [T \in SUBSET D |-> Val(g, T)]
    BY <1>2, <2>1
  <2> QED
    BY <2>2 DEF IsFold
<1>6. CASE B # {}
  <2>1. PICK k \in B : \A j \in B : k <= j
    BY <1>6, Least
  <2>2. k \in Nat /\ ~ \E g : g = Body(g, k)
    BY <2>1
  <2>3. k # 0
    <3> SUFFICES ASSUME k = 0
                 PROVE  FALSE
      OBVIOUS
    <3> DEFINE g == [T \in Upto(0) |-> 0]
    <3>1. \A T \in Upto(0) : T = {}
      BY <1>1, <1>4, SMT
    <3>2. g = Body(g, 0)
      BY <3>1 DEF FoldVal
    <3> QED
      BY <2>2, <3>2
  <2>4. PICK g : g = Body(g, k - 1)
    <3>1. k - 1 \in Nat /\ ~ (k <= k - 1)
      BY <2>2, <2>3, SMT
    <3> QED
      BY <2>1, <3>1
  <2> DEFINE h == [T \in Upto(k) |-> IF T \in Upto(k - 1) THEN g[T] ELSE Val(g, T)]
  <2>5. ASSUME NEW T \in Upto(k)
        PROVE  h[T] = Val(h, T)
    <3>1. h[T] = Val(g, T)
      <4>1. CASE T \in Upto(k - 1)
        <5>1. g[T] = Body(g, k - 1)[T]
          BY <2>4, Zenon
        <5> HIDE DEF Val
        <5>2. g[T] = Val(g, T)
          BY <4>1, <5>1
        <5> QED
          BY <4>1, <5>2
      <4>2. CASE T \notin Upto(k - 1)
        BY <4>2
      <4> QED
        BY <4>1, <4>2
    <3>2. Val(h, T) = Val(g, T)
      <4>1. CASE T = {}
        BY <4>1 DEF FoldVal
      <4>2. CASE T # {}
        <5> DEFINE P == T \ {CHOOSE x \in T : TRUE}
        <5>1. P \in SUBSET D /\ Cardinality(P) = Cardinality(T) - 1
              /\ Cardinality(T) \in Nat /\ Cardinality(T) <= k
          BY <1>1, <1>3, <4>2
        <5> HIDE DEF P
        <5>2. P \in Upto(k - 1) /\ P \in Upto(k)
          BY <2>2, <5>1, SMT
        <5>3. h[P] = g[P]
          BY <5>2
        <5> QED
          BY <4>2, <5>3 DEF P, FoldVal
      <4> QED
        BY <4>1, <4>2
    <3> QED
      BY <3>1, <3>2
  <2>6. h = Body(h, k)
    <3>1. h = [T \in Upto(k) |-> h[T]]
      OBVIOUS
    <3> HIDE DEF h
    <3> QED
      BY <2>5, <3>1
  <2> QED
    BY <2>2, <2>6
<1> QED
  BY <1>5, <1>6

\* What SumFunction is: the elements may be taken in any order.
LEMMA SumIs ==
  ASSUME NEW D, IsFiniteSet(D), NEW w, DOMAIN w = D, \A x \in D : w[x] \in Int
  PROVE  \E g : IsSum(g, w, D) /\ SumFunction(w) = g[D]
<1> DEFINE Val(g, T) == FoldVal(g, w, T)
           g == CHOOSE f : f = [T \in SUBSET D |-> Val(f, T)]
<1>1. SumFunction(w) = g[D]
  BY DEF SumFunction, SumFunctionOnSet, FoldFunctionOnSet, MapThenFoldSet,
         FoldVal
<1>2. g = [T \in SUBSET D |-> Val(g, T)]
  <2>1. PICK f : IsFold(f, w, D)
    BY FoldExists
  <2> QED
    BY <2>1 DEF IsFold
<1> HIDE DEF g
<1>3. \A T \in SUBSET D : g[T] = Val(g, T)
  <2> HIDE DEF Val
  <2> SUFFICES ASSUME NEW T \in SUBSET D
               PROVE  g[T] = Val(g, T)
    OBVIOUS
  <2>1. g[T] = [U \in SUBSET D |-> Val(g, U)][T]
    BY <1>2, Zenon
  <2> QED
    BY <2>1
<1>4. g[{}] = 0
  BY <1>3 DEF FoldVal
<1>5. \A T \in SUBSET D : T # {} =>
        \E x \in T : g[T] = w[x] + g[T \ {x}]
  BY <1>3 DEF FoldVal
<1>6. \A T \in SUBSET D : g[T] \in Int
  <2> DEFINE Q == {T \in SUBSET D : g[T] \in Int}
  <2>1. {} \in Q
    BY <1>4
  <2>2. ASSUME NEW T \in SUBSET D, T # {}, \A x \in T : T \ {x} \in Q
        PROVE  T \in Q
    <3> PICK x \in T : g[T] = w[x] + g[T \ {x}]
      BY <1>5, <2>2
    <3>1. w[x] \in Int /\ g[T \ {x}] \in Int
      BY <2>2
    <3> QED
      BY <3>1
  <2> HIDE DEF Q
  <2>3. Q \in SUBSET (SUBSET D)
    BY DEF Q
  <2>4. \A T \in SUBSET D : T \in Q
    BY <2>1, <2>2, <2>3, SubsetInduction
  <2> QED
    BY <2>4 DEF Q
<1>7. \A T \in SUBSET D : \A x \in T : g[T] = w[x] + g[T \ {x}]
  <2> DEFINE Q == {T \in SUBSET D : \A x \in T : g[T] = w[x] + g[T \ {x}]}
  <2>1. {} \in Q
    OBVIOUS
  <2>2. ASSUME NEW T \in SUBSET D, T # {}, \A x \in T : T \ {x} \in Q,
               NEW x \in T
        PROVE  g[T] = w[x] + g[T \ {x}]
    <3> PICK c \in T : g[T] = w[c] + g[T \ {c}]
      BY <1>5, <2>2
    <3>1. CASE c = x
      BY <3>1
    <3>2. CASE c # x
      <4>1. g[T \ {c}] = w[x] + g[(T \ {c}) \ {x}]
        BY <2>2, <3>2
      <4>2. g[T \ {x}] = w[c] + g[(T \ {x}) \ {c}]
        BY <2>2, <3>2
      <4>3. (T \ {c}) \ {x} = (T \ {x}) \ {c}
        OBVIOUS
      <4>4. w[c] \in Int /\ w[x] \in Int /\ g[(T \ {x}) \ {c}] \in Int
        BY <1>6
      <4>5. g[T \ {x}] = w[c] + g[(T \ {c}) \ {x}]
        BY <4>2, <4>3
      <4>6. g[T] = w[c] + g[T \ {c}]
        OBVIOUS
      <4> HIDE DEF Q, Val
      <4> QED
        BY <4>1, <4>3, <4>4, <4>5, <4>6, SMT
    <3> QED
      BY <3>1, <3>2
  <2>3. \A T \in SUBSET D :
          T # {} /\ (\A x \in T : T \ {x} \in Q) => T \in Q
    BY <2>2
  <2> HIDE DEF Q
  <2>4. Q \in SUBSET (SUBSET D)
    BY DEF Q
  <2>5. \A T \in SUBSET D : T \in Q
    BY <2>1, <2>3, <2>4, SubsetInduction
  <2> QED
    BY <2>5 DEF Q
<1>8. g \in [SUBSET D -> Int]
  BY <1>2, <1>6
<1> QED
  BY <1>1, <1>4, <1>7, <1>8 DEF IsSum

-----------------------------------------------------------------------------
(* Division.                                                               *)

\* Quotient and remainder.
LEMMA DivMod ==
  ASSUME NEW a \in Int, NEW b \in Nat, b # 0
  PROVE  /\ a \div b \in Int /\ a % b \in Int
         /\ a = b * (a \div b) + (a % b) /\ 0 <= a % b /\ a % b < b
  BY SMT

\* A smaller multiple is smaller by one divisor at least.
LEMMA Times ==
  ASSUME NEW b \in Nat, b # 0, NEW p \in Int, NEW q \in Int, p < q
  PROVE  p * b + b <= q * b
<1>1. q - p - 1 \in Nat
  OBVIOUS
<1>2. (q - p - 1) * b >= 0
  BY <1>1
<1>3. (q - p - 1) * b = q * b - p * b - b
  OBVIOUS
<1> QED BY <1>2, <1>3

\* The quotient is the only number that fits.
LEMMA DivUnique ==
  ASSUME NEW a \in Int, NEW b \in Nat, b # 0, NEW q \in Int, q * b <= a, a < q * b + b
  PROVE  a \div b = q
<1> DEFINE d == a \div b
<1>1. d \in Int /\ d * b <= a /\ a < d * b + b
  BY DivMod
<1> HIDE DEF d
<1>2. ~(d < q)
  <2> SUFFICES ASSUME d < q PROVE FALSE OBVIOUS
  <2>1. d * b + b <= q * b BY <1>1, Times
  <2>2. d * b \in Int /\ q * b \in Int BY <1>1
  <2> QED BY <1>1, <2>1, <2>2
<1>3. ~(q < d)
  <2> SUFFICES ASSUME q < d PROVE FALSE OBVIOUS
  <2>1. q * b + b <= d * b BY <1>1, Times
  <2>2. d * b \in Int /\ q * b \in Int BY <1>1
  <2> QED BY <1>1, <2>1, <2>2
<1> QED BY <1>1, <1>2, <1>3 DEF d

\* Whole multiples come out of a rounded-up quotient.
LEMMA Ceil ==
  ASSUME NEW b \in Nat, b # 0, NEW q \in Nat, NEW t \in Nat
  PROVE  ((q * b + t) + b - 1) \div b = q + ((t + b - 1) \div b)
<1> DEFINE d == (t + b - 1) \div b
<1>1. d \in Int /\ d * b <= t + b - 1 /\ t + b - 1 < d * b + b
  BY DivMod
<1> HIDE DEF d
<1>2. (q + d) * b = q * b + d * b /\ q * b \in Int /\ d * b \in Int
  BY <1>1
<1>3. (q + d) * b <= q * b + t + b - 1 /\ q * b + t + b - 1 < (q + d) * b + b
  BY <1>1, <1>2
<1>4. q * b + t + b - 1 \in Int /\ q + d \in Int
  BY <1>1, <1>2
<1>5. (q * b + t + b - 1) \div b = q + d
  BY <1>3, <1>4, DivUnique
<1> QED BY <1>5, <1>2 DEF d


\* Products may be regrouped.
LEMMA Associative ==
  ASSUME NEW a \in Int, NEW b \in Int, NEW c \in Int
  PROVE  a * (b * c) = (a * b) * c
  BY SMT

-----------------------------------------------------------------------------
(* What NVS writes is what the backend counts.                             *)

\* The constants.
LEMMA ConstantFacts ==
  /\ ITEM_SIZE \in Nat /\ ITEM_SIZE # 0
  /\ MAX_BLOB_DATA_PER_PAGE \in Nat /\ MAX_BLOB_DATA_PER_PAGE # 0
  /\ HEADER_LEN \in Nat /\ HEADER_LEN # 0
  /\ Total \in Nat /\ ENTRIES_PER_PAGE \in Nat /\ ENTRIES_PER_PAGE < Total
  /\ IsFiniteSet(Spaces) /\ Payloads \subseteq Nat
  /\ MAX_BLOB_DATA_PER_PAGE % ITEM_SIZE = 0
BY ConfigAssumption

\* The sum of n values, all a but the last, b.
LEMMA SumOfChunks ==
  ASSUME NEW n \in Nat, n # 0, NEW a \in Int, NEW b \in Int, NEW w,
         w = [i \in 1 .. n |-> IF i < n THEN a ELSE b]
  PROVE  SumFunction(w) = (n - 1) * a + b
<1> DEFINE D == 1 .. n
           E == 1 .. (n - 1)
<1>1. IsFiniteSet(D) /\ IsFiniteSet(E) /\ Cardinality(E) = n - 1
  BY FS_Interval, SMT
<1>2. DOMAIN w = D /\ \A x \in D : w[x] \in Int
  BY SMT
<1>3. PICK g : IsSum(g, w, D) /\ SumFunction(w) = g[D]
  BY <1>1, <1>2, SumIs
<1>4. n \in D /\ D \ {n} = E /\ E \in SUBSET D /\ w[n] = b
  BY SMT
<1>5. \A x \in E : w[x] = a
  BY SMT
<1> HIDE DEF D, E
<1>6. \A T \in SUBSET D : \A x \in T : g[T] = w[x] + g[T \ {x}]
  BY <1>3 DEF IsSum
<1>7. g[D] = w[n] + g[E]
  <2>1. D \in SUBSET D
    OBVIOUS
  <2>2. g[D] = w[n] + g[D \ {n}]
    BY <1>4, <1>6, <2>1, Zenon
  <2> QED
    BY <1>4, <2>2, Zenon
<1>8. g[E] = Cardinality(E) * a
  <2> DEFINE Q == {T \in SUBSET E : g[T] = Cardinality(T) * a}
  <2>1. {} \in Q
    <3>1. g[{}] = 0 /\ Cardinality({}) = 0
      BY <1>3, FS_EmptySet DEF IsSum
    <3> QED
      BY <3>1, SMT
  <2>2. ASSUME NEW T \in SUBSET E, T # {}, \A x \in T : T \ {x} \in Q
        PROVE  T \in Q
    <3> PICK x \in T : TRUE
      BY <2>2
    <3>1. g[T] = a + g[T \ {x}]
      <4>1. T \in SUBSET D /\ w[x] = a
        BY <1>4, <1>5
      <4>2. g[T] = w[x] + g[T \ {x}]
        BY <1>6, <4>1, Zenon
      <4> QED
        BY <4>1, <4>2, Zenon
    <3>2. g[T \ {x}] = Cardinality(T \ {x}) * a
      BY <2>2
    <3>3. Cardinality(T) \in Nat /\ Cardinality(T \ {x}) = Cardinality(T) - 1
      BY <1>1, FS_Subset, FS_CardinalityType, FS_RemoveElement
    <3>4. (Cardinality(T) - 1) * a = Cardinality(T) * a - a
          /\ Cardinality(T) * a \in Int
      BY <3>3, SMT
    <3>5. g[T] = Cardinality(T) * a
      BY <3>1, <3>2, <3>3, <3>4, SMT
    <3> QED
      BY <3>5
  <2> HIDE DEF Q
  <2>3. Q \in SUBSET (SUBSET E)
    BY DEF Q
  <2>4. \A T \in SUBSET E : T \in Q
    BY <1>1, <2>1, <2>2, <2>3, SubsetInduction
  <2> QED
    BY <2>4 DEF Q
<1>9. (n - 1) * a \in Int
  BY SMT
<1> QED
  BY <1>1, <1>3, <1>4, <1>7, <1>8, <1>9

\* The entries of a blob, chunk by chunk, are the items of its bytes, one
\* header for each chunk and the index.
LEMMA EntriesSame ==
  ASSUME NEW size \in Nat, size # 0
  PROVE  /\ BlobEntries(size) = entries_for_blob(size)
         /\ entries_for_blob(size) \in Nat /\ entries_for_blob(size) >= 3
<1> DEFINE I == ITEM_SIZE
           M == MAX_BLOB_DATA_PER_PAGE
           c == div_ceil(size, M)
           q == M \div I
           rest == size - (c - 1) * M
           dr == div_ceil(rest, I)
           w == [i \in 1 .. c |-> 1 + div_ceil(IF i < c THEN M ELSE rest, I)]
<1>1. I \in Nat /\ I # 0 /\ M \in Nat /\ M # 0 /\ M % I = 0
  BY ConstantFacts
<1>2. BlobEntries(size) = 1 + SumFunction(w)
  BY DEF BlobEntries
<1>3. c \in Int /\ c = (size + M - 1) \div M
  BY <1>1, DivMod DEF div_ceil
<1>4. c * M <= size + M - 1 /\ size + M - 1 < c * M + M
  <2> DEFINE a == size + M - 1
  <2>1. a \in Int
    BY <1>1
  <2>2. a = M * (a \div M) + (a % M) /\ 0 <= a % M /\ a % M < M
        /\ a \div M \in Int /\ a % M \in Int
    BY <1>1, <2>1, DivMod
  <2> HIDE DEF c, a
  <2>3. c = a \div M
    BY <1>3 DEF a
  <2>4. M * c = c * M /\ M * c \in Int
    BY <1>1, <1>3
  <2>5. c * M <= a /\ a < c * M + M
    BY <1>1, <2>1, <2>2, <2>3, <2>4
  <2> QED
    BY <2>5 DEF a
<1>5. c >= 1
  <2> SUFFICES ASSUME c < 1
               PROVE  FALSE
    BY <1>3
  <2>1. c * M + M <= 1 * M
    BY <1>1, <1>3, Times
  <2>2. c * M \in Int
    BY <1>1, <1>3
  <2> HIDE DEF c
  <2> QED
    BY <1>1, <1>4, <2>1, <2>2
<1>6. (c - 1) * M = c * M - M /\ c * M \in Int
  BY <1>1, <1>3
<1>7. rest \in Nat /\ 1 <= rest /\ rest <= M /\ size = (c - 1) * M + rest
  <2> HIDE DEF c
  <2> QED
    BY <1>1, <1>4, <1>6
<1>8. q \in Nat /\ M = q * I
  <2>1. q \in Int /\ M = I * q + 0
    BY <1>1, DivMod
  <2>2. q >= 0
    <3> SUFFICES ASSUME q < 0
                 PROVE  FALSE
      BY <2>1
    <3>1. q * I + I <= 0 * I
      BY <1>1, <2>1, Times
    <3> HIDE DEF q
    <3>2. I * q = q * I /\ q * I \in Int
      BY <1>1, <2>1
    <3> QED
      BY <1>1, <2>1, <3>1, <3>2
  <2> HIDE DEF q
  <2>3. I * q = q * I /\ I * q \in Int
    BY <1>1, <2>1
  <2>4. M = I * q
    BY <1>1, <2>1, <2>3
  <2> QED
    BY <2>1, <2>2, <2>3, <2>4
<1>9. dr \in Nat /\ dr >= 1
  <2> DEFINE a == rest + I - 1
  <2>1. a \in Int /\ dr = a \div I
    BY <1>1, <1>7 DEF div_ceil
  <2>2. a = I * (a \div I) + (a % I) /\ a % I < I /\ a \div I \in Int /\ a % I \in Int
    BY <1>1, <2>1, DivMod
  <2> SUFFICES ASSUME dr < 1
               PROVE  FALSE
    BY <2>1, <2>2
  <2>3. dr * I + I <= 1 * I
    BY <1>1, <2>1, <2>2, Times, SMTT(30)
  <2> HIDE DEF dr, a, rest
  <2>4. I * dr = dr * I /\ dr * I \in Int
    BY <1>1, <2>1, <2>2
  <2>5. a >= I
    BY <1>1, <1>7 DEF a
  <2> QED
    BY <1>1, <2>1, <2>2, <2>3, <2>4, <2>5
<1>10. div_ceil(M, I) = q
  <2>1. ((q * I + 0) + I - 1) \div I = q + ((0 + I - 1) \div I)
    BY <1>1, <1>8, Ceil
  <2>2. (0 + I - 1) \div I = 0
    <3>1. 0 * I <= 0 + I - 1 /\ 0 + I - 1 < 0 * I + I /\ 0 + I - 1 \in Int
      BY <1>1
    <3> QED
      BY <1>1, <3>1, DivUnique
  <2> HIDE DEF q
  <2>3. (q * I + 0) + I - 1 = M + I - 1
    BY <1>1, <1>8
  <2> QED
    BY <1>8, <2>1, <2>2, <2>3 DEF div_ceil
<1>11. div_ceil(size, I) = (c - 1) * q + dr
  <2>1. c - 1 \in Nat
    BY <1>3, <1>5
  <2> HIDE DEF c, q, rest
  <2>2. (c - 1) * q \in Nat
    BY <1>8, <2>1
  <2>3. (c - 1) * M = ((c - 1) * q) * I
    <3>1. (c - 1) * (q * I) = ((c - 1) * q) * I
      <4>1. c - 1 \in Int /\ q \in Int /\ I \in Int
        BY <1>1, <1>8, <2>1
      <4> QED
        BY <4>1, Associative, Zenon
    <3> QED
      BY <1>8, <3>1
  <2>4. ((((c - 1) * q) * I + rest) + I - 1) \div I
          = (c - 1) * q + ((rest + I - 1) \div I)
    BY <1>1, <1>7, <2>2, Ceil, ZenonT(30)
  <2> QED
    BY <1>7, <2>3, <2>4 DEF div_ceil
<1>12. SumFunction(w) = (c - 1) * (1 + q) + (1 + dr)
  <2> HIDE DEF c, q, dr, rest
  <2>1. w = [i \in 1 .. c |-> IF i < c THEN 1 + q ELSE 1 + dr]
    BY <1>10 DEF dr
  <2>2. c \in Nat /\ c # 0 /\ 1 + q \in Int /\ 1 + dr \in Int
    BY <1>3, <1>5, <1>8, <1>9
  <2> HIDE DEF w
  <2> QED
    BY <2>1, <2>2, SumOfChunks
<1>13. (c - 1) * (1 + q) = (c - 1) + (c - 1) * q /\ (c - 1) * q \in Nat
  <2>1. c - 1 \in Nat
    BY <1>3, <1>5
  <2> HIDE DEF c, q
  <2> QED
    BY <1>8, <2>1
<1>14. entries_for_blob(size) = ((c - 1) * q + dr) + c + 1
  BY <1>11 DEF entries_for_blob
<1> HIDE DEF c, q, dr, w, rest
<1> QED
  BY <1>2, <1>3, <1>5, <1>9, <1>12, <1>13, <1>14

\* A longer blob takes no fewer entries.
LEMMA DivMono ==
  ASSUME NEW a \in Int, NEW b \in Int, a <= b, NEW k \in Nat, k # 0
  PROVE  a \div k <= b \div k
<1> DEFINE p == a \div k
           q == b \div k
<1>1. p \in Int /\ a = k * p + (a % k) /\ 0 <= a % k /\ a % k \in Int
  BY DivMod
<1>2. q \in Int /\ b = k * q + (b % k) /\ b % k < k /\ b % k \in Int
  BY DivMod
<1> HIDE DEF p, q
<1>3. k * p = p * k /\ k * q = q * k /\ p * k \in Int /\ q * k \in Int
  BY <1>1, <1>2
<1>4. ~ (q < p)
  <2> SUFFICES ASSUME q < p
               PROVE  FALSE
    OBVIOUS
  <2>1. q * k + k <= p * k
    BY <1>1, <1>2, Times
  <2> QED
    BY <1>1, <1>2, <1>3, <2>1
<1> QED
  BY <1>1, <1>2, <1>4 DEF p, q

\* So does a longer payload.
LEMMA EntriesMono ==
  ASSUME NEW a \in Nat, NEW b \in Nat, a <= b
  PROVE  entries_for_blob(HEADER_LEN + a) <= entries_for_blob(HEADER_LEN + b)
<1>1. \A k \in Nat \ {0} :
        /\ div_ceil(HEADER_LEN + a, k) <= div_ceil(HEADER_LEN + b, k)
        /\ div_ceil(HEADER_LEN + a, k) \in Int
        /\ div_ceil(HEADER_LEN + b, k) \in Int
  <2> SUFFICES ASSUME NEW k \in Nat \ {0}
               PROVE  /\ div_ceil(HEADER_LEN + a, k) <= div_ceil(HEADER_LEN + b, k)
                      /\ div_ceil(HEADER_LEN + a, k) \in Int
                      /\ div_ceil(HEADER_LEN + b, k) \in Int
    OBVIOUS
  <2> DEFINE c == HEADER_LEN + a + k - 1
             d == HEADER_LEN + b + k - 1
  <2>1. c \in Int /\ d \in Int /\ c <= d /\ k \in Nat /\ k # 0
    BY ConstantFacts
  <2>2. div_ceil(HEADER_LEN + a, k) = c \div k
        /\ div_ceil(HEADER_LEN + b, k) = d \div k
    BY DEF div_ceil
  <2> HIDE DEF c, d
  <2>3. c \div k <= d \div k /\ c \div k \in Int /\ d \div k \in Int
    BY <2>1, DivMono, DivMod
  <2> QED
    BY <2>2, <2>3
<1>2. ITEM_SIZE \in Nat \ {0} /\ MAX_BLOB_DATA_PER_PAGE \in Nat \ {0}
  BY ConstantFacts
<1> QED
  BY <1>1, <1>2 DEF entries_for_blob

\* What a record of n bytes occupies.
LEMMA RecordEntries ==
  ASSUME NEW n \in Nat
  PROVE  /\ BlobEntries(HEADER_LEN + n) = entries_for_blob(HEADER_LEN + n)
         /\ entries_for_blob(HEADER_LEN + n) \in Nat
         /\ entries_for_blob(HEADER_LEN + n) >= 3
<1>1. HEADER_LEN + n \in Nat /\ HEADER_LEN + n # 0
  BY ConstantFacts
<1> QED
  BY <1>1, EntriesSame

-----------------------------------------------------------------------------
(* Room.                                                                   *)

\* The stored records are finitely many, and their lengths are lengths.
LEMMA StoredFacts ==
  ASSUME rec \in [Spaces -> Record]
  PROVE  /\ IsFiniteSet(Stored) /\ Stored \subseteq Spaces
         /\ \A s \in Spaces : rec[s].len \in Nat
<1>1. Stored \subseteq Spaces
  BY DEF Stored
<1>2. IsFiniteSet(Stored)
  BY <1>1, ConstantFacts, FS_Subset
<1>3. \A s \in Spaces : rec[s].len \in Payloads \cup {0}
  BY DEF Record
<1>4. Payloads \subseteq Nat
  BY ConstantFacts
<1>5. \A s \in Spaces : rec[s].len \in Nat
  <2> SUFFICES ASSUME NEW s \in Spaces
               PROVE  rec[s].len \in Nat
    OBVIOUS
  <2>1. rec[s].len \in Payloads \/ rec[s].len = 0
    BY <1>3
  <2>2. 0 \in Nat
    BY SMT
  <2> QED
    BY <1>4, <2>1, <2>2, Zenon
<1> QED
  BY <1>1, <1>2, <1>5

\* new counts as its own exactly what its records occupy: the capacity is that
\* of the partition, less a canary's entry.
LEMMA CapacityValue ==
  ASSUME rec \in [Spaces -> Record]
  PROVE  capacity_units \in Total - ENTRIES_PER_PAGE - 1 .. Total - ENTRIES_PER_PAGE
<1> DEFINE U == [s \in Stored |-> BlobEntries(HEADER_LEN + rec[s].len)]
           O == [s \in Stored |-> entries_for_blob(HEADER_LEN + rec[s].len)]
<1>1. U = O
  BY StoredFacts, RecordEntries
<1>2. \A s \in Stored : O[s] \in Int
  BY StoredFacts, RecordEntries
<1>3. SumFunction(O) \in Int
  <2>1. DOMAIN O = Stored
    OBVIOUS
  <2> HIDE DEF O
  <2>2. PICK g : IsSum(g, O, Stored) /\ SumFunction(O) = g[Stored]
    BY <1>2, <2>1, StoredFacts, SumIs
  <2> QED
    BY <2>2 DEF IsSum
<1>4. Used = Foreign + SumFunction(O) /\ owned_entries = SumFunction(O)
  BY <1>1 DEF Used, owned_entries
<1>5. Foreign \in 0 .. 1
  BY DEF Foreign
<1> HIDE DEF O, U
<1>6. Total - Used + owned_entries = Total - Foreign
  BY <1>3, <1>4, <1>5, ConstantFacts
<1> QED
  BY <1>5, <1>6, ConstantFacts DEF capacity_units, saturating_sub

\* What a claim reserves for two versions leaves room for the one stored, for
\* another within the budget, and for an entry for every other claimed space.
LEMMA RoomForAnother ==
  ASSUME RoomInv, Started,
         NEW s \in Spaces, NEW n \in Payloads, n <= claims[s]
  PROVE  \/ Fits([kind |-> "present", generation |-> 1, len |-> n])
         \/ CanaryInTheWay(s)
<1> DEFINE C == {y \in Spaces : claims[y] # -1}
           E(b) == entries_for_blob(HEADER_LEN + b)
           r == [x \in C |-> reservation_units(claims[x])]
           U == [x \in Stored |-> BlobEntries(HEADER_LEN + rec[x].len)]
           u(x) == IF x \in Stored THEN U[x] ELSE 0
           K == E(claims[s])
<1>1. /\ IsFiniteSet(Stored) /\ Stored \subseteq Spaces
      /\ \A x \in Spaces : rec[x].len \in Nat
  BY StoredFacts DEF RoomInv
<1>2. /\ \A x \in C : x \in Spaces /\ claims[x] \in Nat /\ rec[x].len <= claims[x]
      /\ n \in Nat /\ Payloads \subseteq Nat
  BY ConstantFacts DEF RoomInv
<1>3. IsFiniteSet(C)
  BY ConstantFacts, FS_Subset
<1>4. Stored \subseteq C
  BY <1>1 DEF Started
<1>5. s \in C
  BY <1>2
<1>6. \A x \in C : /\ E(claims[x]) \in Nat /\ E(claims[x]) >= 3
                   /\ r[x] = 2 * E(claims[x])
  BY <1>2, RecordEntries DEF reservation_units
<1>7. \A x \in C : u(x) \in Nat /\ u(x) <= E(claims[x])
  <2> SUFFICES ASSUME NEW x \in C
               PROVE  u(x) \in Nat /\ u(x) <= E(claims[x])
    OBVIOUS
  <2>1. \/ U[x] = E(rec[x].len) /\ E(rec[x].len) \in Nat
        \/ x \notin Stored
    BY <1>1, <1>2, RecordEntries
  <2>2. E(rec[x].len) <= E(claims[x])
    BY <1>1, <1>2, EntriesMono
  <2>3. E(rec[x].len) \in Nat
    BY <1>1, <1>2, RecordEntries
  <2>4. CASE x \in Stored
    BY <2>1, <2>2, <2>3, <2>4
  <2>5. CASE x \notin Stored
    <3>1. E(claims[x]) \in Nat
      BY <1>6
    <3> HIDE DEF E
    <3> QED
      BY <2>5, <3>1
  <2> QED
    BY <2>4, <2>5
<1>8. E(n) \in Nat /\ E(n) <= K /\ BlobEntries(HEADER_LEN + n) = E(n)
  BY <1>2, <1>5, RecordEntries, EntriesMono
<1>9. K \in Nat /\ r[s] = 2 * K
  BY <1>5, <1>6
<1>10. PICK gr : IsSum(gr, r, C) /\ SumFunction(r) = gr[C]
  <2>1. DOMAIN r = C /\ \A x \in C : r[x] \in Int
    BY <1>6
  <2> HIDE DEF r, C
  <2> QED
    BY <1>3, <2>1, SumIs
<1>11. PICK gu : IsSum(gu, U, Stored) /\ SumFunction(U) = gu[Stored]
  <2>1. DOMAIN U = Stored /\ \A x \in Stored : U[x] \in Int
    BY <1>4, <1>7
  <2> HIDE DEF U
  <2> QED
    BY <1>1, <2>1, SumIs
<1> HIDE DEF C, E, r, U, K
<1> DEFINE one(T, S) == IF T = S THEN 0 ELSE 1
           Room(T) == IF s \in T
                      THEN gu[T \cap Stored] + K + one(T, {s}) <= gr[T]
                      ELSE gu[T \cap Stored] + one(T, {}) <= gr[T]
           Q == {T \in SUBSET C : Room(T)}
<1>12. {} \in Q
  <2>1. {} \cap Stored = {} /\ gu[{}] = 0 /\ gr[{}] = 0
    BY <1>10, <1>11 DEF IsSum
  <2> QED
    BY <2>1
<1>13. ASSUME NEW T \in SUBSET C, T # {}, \A x \in T : T \ {x} \in Q
       PROVE  Room(T)
  <2> PICK x \in T : TRUE
    BY <1>13
  <2> DEFINE W == T \ {x}
  <2>1. Room(W) /\ W \in SUBSET C
    BY <1>13
  <2>2. gr[T] = r[x] + gr[W]
    BY <1>10 DEF IsSum
  <2>3. gu[T \cap Stored] = u(x) + gu[W \cap Stored] /\ gu[W \cap Stored] \in Int
    <3>1. T \cap Stored \in SUBSET Stored /\ W \cap Stored \in SUBSET Stored
      OBVIOUS
    <3>2. gu[W \cap Stored] \in Int
      BY <1>11, <3>1 DEF IsSum
    <3>3. CASE x \in Stored
      <4>1. (T \cap Stored) \ {x} = W \cap Stored
        OBVIOUS
      <4>2. gu[T \cap Stored] = U[x] + gu[(T \cap Stored) \ {x}]
        BY <1>11, <3>1, <3>3 DEF IsSum
      <4> QED
        BY <3>2, <3>3, <4>1, <4>2
    <3>4. CASE x \notin Stored
      <4>1. T \cap Stored = W \cap Stored
        BY <3>4
      <4> QED
        BY <3>2, <3>4, <4>1
    <3> QED
      BY <3>3, <3>4
  <2>4. /\ u(x) \in Nat /\ r[x] \in Nat /\ u(x) + 1 <= r[x]
        /\ x = s => u(x) + K <= r[x]
    <3>1. /\ u(x) \in Nat /\ u(x) <= E(claims[x])
          /\ E(claims[x]) \in Nat /\ E(claims[x]) >= 3
          /\ r[x] = 2 * E(claims[x])
      BY <1>6, <1>7
    <3>2. x = s => E(claims[x]) = K
      BY DEF K
    <3> HIDE DEF u
    <3> QED
      BY <3>1, <3>2
  <2>5. gr[W] \in Int
    BY <1>10, <2>1 DEF IsSum
  <2>6. CASE x = s
    <3>1. s \notin W /\ s \in T /\ (W = {} => T = {s})
      BY <2>6
    <3>2. gu[W \cap Stored] + one(W, {}) <= gr[W]
      BY <2>1, <3>1
    <3>3. one(T, {s}) <= one(W, {})
      BY <3>1
    <3>4. one(T, {s}) \in Int /\ one(W, {}) \in Int
      OBVIOUS
    <3> HIDE DEF W, u, one
    <3>5. gu[T \cap Stored] + K + one(T, {s}) <= gr[T]
      BY <1>9, <2>2, <2>3, <2>4, <2>5, <2>6, <3>2, <3>3, <3>4
    <3> QED
      BY <3>1, <3>5
  <2>7. CASE x # s /\ s \in T
    <3>1. s \in W
      BY <2>7
    <3>2. gu[W \cap Stored] + K + one(W, {s}) <= gr[W]
      BY <2>1, <3>1
    <3>3. one(T, {s}) <= 1 /\ 0 <= one(W, {s})
      OBVIOUS
    <3>4. one(T, {s}) \in Int /\ one(W, {s}) \in Int
      OBVIOUS
    <3> HIDE DEF W, u, one
    <3>5. gu[T \cap Stored] + K + one(T, {s}) <= gr[T]
      BY <1>9, <2>2, <2>3, <2>4, <2>5, <3>2, <3>3, <3>4
    <3> QED
      BY <2>7, <3>5
  <2>8. CASE s \notin T
    <3>1. s \notin W
      BY <2>8
    <3>2. gu[W \cap Stored] + one(W, {}) <= gr[W]
      BY <2>1, <3>1
    <3>3. one(T, {}) <= 1 /\ 0 <= one(W, {})
      OBVIOUS
    <3>4. one(T, {}) \in Int /\ one(W, {}) \in Int
      OBVIOUS
    <3> HIDE DEF W, u, one
    <3>5. gu[T \cap Stored] + one(T, {}) <= gr[T]
      BY <2>2, <2>3, <2>4, <2>5, <3>2, <3>3, <3>4
    <3> QED
      BY <2>8, <3>5
  <2> QED
    BY <2>6, <2>7, <2>8
<1>14. Room(C)
  <2>1. \A T \in SUBSET C : T # {} /\ (\A x \in T : T \ {x} \in Q) => T \in Q
    <3> SUFFICES ASSUME NEW T \in SUBSET C, T # {}, \A x \in T : T \ {x} \in Q
                 PROVE  T \in Q
      OBVIOUS
    <3> HIDE DEF Room
    <3> QED
      BY <1>13
  <2> HIDE DEF Room
  <2>2. Q \in SUBSET (SUBSET C)
    OBVIOUS
  <2>3. \A T \in SUBSET C : T \in Q
    <3> HIDE DEF Q
    <3> QED
      BY <1>3, <1>12, <2>1, <2>2, SubsetInduction
  <2> QED
    BY <2>3
<1>15. gu[Stored] + K + one(C, {s}) <= gr[C]
  <2>1. C \cap Stored = Stored
    BY <1>4
  <2> QED
    BY <1>5, <1>14, <2>1
<1>16. Used = Foreign + gu[Stored] /\ Reserved(claims) = gr[C]
       /\ Reserved(claims) <= Total - ENTRIES_PER_PAGE
  BY <1>10, <1>11 DEF Used, Reserved, U, r, C, RoomInv
<1>17. gu[Stored] \in Int /\ gr[C] \in Int
  BY <1>10, <1>11 DEF IsSum
<1>18. Foreign \in {0, 1} /\ (Foreign = 1 => canary)
  BY DEF Foreign
<1>19. ASSUME Used + E(n) <= Total - ENTRIES_PER_PAGE
       PROVE  Fits([kind |-> "present", generation |-> 1, len |-> n])
  BY <1>8, <1>19 DEF Fits
<1>20. CASE C # {s}
  <2>1. gu[Stored] + K + 1 <= gr[C]
    BY <1>15, <1>20
  <2>2. Used + E(n) <= Total - ENTRIES_PER_PAGE
    BY <1>8, <1>9, <1>16, <1>17, <1>18, <2>1, ConstantFacts
  <2> QED
    BY <1>19, <2>2
<1>21. CASE C = {s}
  <2>1. gu[Stored] + K <= gr[C]
    BY <1>9, <1>15, <1>17, <1>21
  <2>2. CASE Foreign = 0 \/ gr[C] # Total - ENTRIES_PER_PAGE
    <3>1. Used + E(n) <= Total - ENTRIES_PER_PAGE
      BY <1>8, <1>9, <1>16, <1>17, <1>18, <2>1, <2>2, ConstantFacts
    <3> QED
      BY <1>19, <3>1
  <2>3. CASE Foreign = 1 /\ gr[C] = Total - ENTRIES_PER_PAGE
    BY <1>16, <1>18, <1>21, <2>3 DEF CanaryInTheWay, C
  <2> QED
    BY <1>18, <2>2, <2>3
<1> QED
  BY <1>20, <1>21

\* With no claims nothing is reserved.
LEMMA NoneReserved ==
  Reserved([s \in Spaces |-> -1]) <= Total - ENTRIES_PER_PAGE
<1> DEFINE none == [s \in Spaces |-> -1]
           C == {y \in Spaces : none[y] # -1}
           r == [x \in C |-> reservation_units(none[x])]
<1>1. C = {}
  OBVIOUS
<1>2. DOMAIN r = {} /\ \A x \in {} : r[x] \in Int
  BY <1>1
<1>3. Reserved(none) = SumFunction(r)
  BY DEF Reserved
<1> HIDE DEF r
<1>4. PICK g : IsSum(g, r, {}) /\ SumFunction(r) = g[{}]
  BY <1>2, FS_EmptySet, SumIs
<1>5. Reserved(none) = 0
  BY <1>3, <1>4 DEF IsSum
<1> QED
  BY <1>5, ConstantFacts

\* A record that is replaced within its claim.
LEMMA ReplaceRoom ==
  ASSUME RoomInv, NEW t \in Tasks, NEW s \in Spaces,
         NEW kind \in {"absent", "present"},
         NEW n \in Payloads \cup {0}, claims[s] # -1, n <= claims[s],
         Replace(t, s, kind, n)
  PROVE  RoomInv'
<1> DEFINE r == [kind |-> kind, generation |-> rec[s].generation + 1, len |-> n]
<1>1. UNCHANGED <<claims, capacity>>
  BY DEF Replace, OpFails
<1>2. rec' = rec \/ (~ Refused(rec[s]) /\ rec' = [rec EXCEPT ![s] = r])
  BY DEF Replace, OpFails, SetRecord
<1>3. CASE rec' = rec
  BY <1>1, <1>3 DEF RoomInv, Reserved, CapacityKept
<1>4. CASE ~ Refused(rec[s]) /\ rec' = [rec EXCEPT ![s] = r]
  <2>1. rec[s].generation \in 0 .. MaxGeneration /\ MaxGeneration \in Nat
        /\ rec[s].generation # MaxGeneration
    BY <1>4, ConfigAssumption DEF RoomInv, Record, Refused
  <2>2. rec[s].generation + 1 \in 0 .. MaxGeneration
    BY <2>1
  <2>3. r \in Record
    BY <2>2 DEF Record
  <2>4. rec' \in [Spaces -> Record]
    BY <1>4, <2>3 DEF RoomInv
  <2>5. \A x \in Spaces : rec'[x].len = IF x = s THEN n ELSE rec[x].len
    BY <1>4 DEF RoomInv
  <2> QED
    BY <1>1, <2>4, <2>5 DEF RoomInv, Reserved, CapacityKept
<1> QED
  BY <1>2, <1>3, <1>4

\* Every operation, power cut and claim keeps the claims within the partition
\* and what is stored within the claims.
THEOREM RoomInvCorrect == Spec => []RoomInv
<1>1. Init => RoomInv
  <2> SUFFICES ASSUME Init
               PROVE  RoomInv
    OBVIOUS
  <2>1. NoRecord \in Record
    <3>1. 0 \in 0 .. MaxGeneration
      BY ConfigAssumption
    <3> QED
      BY <3>1 DEF NoRecord, Record
  <2>2. rec \in [Spaces -> Record] /\ claims \in [Spaces -> Payloads \cup {-1}]
        /\ \A s \in Spaces : claims[s] = -1
    BY <2>1 DEF Init
  <2>3. Reserved(claims) <= Total - ENTRIES_PER_PAGE /\ capacity = -1
    BY NoneReserved DEF Init
  <2> QED
    BY <2>2, <2>3 DEF RoomInv, CapacityKept
<1>2. RoomInv /\ [Next]_vars => RoomInv'
  <2> SUFFICES ASSUME RoomInv, [Next]_vars
               PROVE  RoomInv'
    OBVIOUS
  <2>1. ASSUME UNCHANGED <<rec, claims, capacity>>
        PROVE  RoomInv'
    BY <2>1 DEF RoomInv, Reserved, CapacityKept
  <2>2. ASSUME NEW t \in Tasks, New(t)
        PROVE  RoomInv'
    <3>1. UNCHANGED <<rec, claims>> /\ (capacity' = capacity_units \/ UNCHANGED capacity)
      BY <2>2 DEF New
    <3>2. CASE capacity' = capacity_units
      <4>1. capacity_units \in Total - ENTRIES_PER_PAGE - 1 .. Total - ENTRIES_PER_PAGE
        BY CapacityValue DEF RoomInv
      <4> QED
        BY <3>1, <3>2, <4>1 DEF RoomInv, Reserved, CapacityKept
    <3> QED
      BY <2>1, <3>1, <3>2
  <2>3. ASSUME NEW t \in Tasks,
               NewStore(t) \/ CheckSet(t) \/ CheckDelete(t) \/ CheckStore(t)
        PROVE  RoomInv'
    BY <2>1, <2>3 DEF NewStore, CheckSet, CheckDelete, CheckStore
  <2>4. ASSUME NEW t \in Tasks, NEW s \in Spaces, Load(t, s)
        PROVE  RoomInv'
    BY <2>1, <2>4 DEF Load, OpFails
  <2>5. ASSUME NEW t \in Tasks, NEW s \in Spaces, Clear(t, s)
        PROVE  RoomInv'
    <3>1. claims[s] # -1 /\ Replace(t, s, "absent", 0)
      BY <2>5 DEF Clear
    <3>2. claims[s] \in Payloads /\ Payloads \subseteq Nat
      BY <3>1, ConstantFacts DEF RoomInv
    <3>3. 0 <= claims[s]
      <4>1. claims[s] \in Nat
        BY <3>2
      <4> QED
        BY <4>1, SMT
    <3> QED
      BY <3>1, <3>3, ReplaceRoom
  <2>6. ASSUME NEW t \in Tasks, NEW s \in Spaces, NEW n \in Payloads,
               Commit(t, s, n)
        PROVE  RoomInv'
    <3>1. n <= claims[s] /\ Replace(t, s, "present", n)
      BY <2>6 DEF Commit
    <3>2. claims[s] # -1
      BY <3>1, ConstantFacts
    <3> QED
      BY <3>1, <3>2, ReplaceRoom
  <2>7. CASE PowerCut
    <3>1. /\ UNCHANGED rec /\ claims' = [s \in Spaces |-> -1] /\ capacity' = -1
      BY <2>7 DEF PowerCut
    <3>2. Reserved(claims)' <= Total - ENTRIES_PER_PAGE
      BY <3>1, NoneReserved DEF Reserved
    <3> QED
      BY <3>1, <3>2 DEF RoomInv, CapacityKept
  <2>8. ASSUME NEW s \in Spaces, Rot(s)
        PROVE  RoomInv'
    <3>1. UNCHANGED <<claims, capacity>>
          /\ rec' = [rec EXCEPT ![s] = [rec[s] EXCEPT !.kind = "corrupt"]]
      BY <2>8 DEF Rot
    <3>2. rec[s] \in Record
      BY DEF RoomInv
    <3>3. [rec[s] EXCEPT !.kind = "corrupt"] \in Record
          /\ [rec[s] EXCEPT !.kind = "corrupt"].len = rec[s].len
      BY <3>2 DEF Record
    <3>4. rec' \in [Spaces -> Record]
          /\ \A x \in Spaces : rec'[x].len = rec[x].len
      BY <3>1, <3>3 DEF RoomInv
    <3> QED
      BY <3>1, <3>4 DEF RoomInv, Reserved, CapacityKept
  <2>9. ASSUME NEW s \in Spaces, NEW b \in Payloads, Claim(s, b)
        PROVE  RoomInv'
    <3>1. /\ capacity # -1 /\ rec[s].len <= b
          /\ claims' = [claims EXCEPT ![s] = b]
          /\ Reserved(claims') <= capacity
          /\ UNCHANGED <<rec, capacity>>
      <4>1. b \in Nat /\ rec[s].len \in Nat
        BY ConstantFacts, StoredFacts DEF RoomInv
      <4> QED
        BY <2>9, <4>1 DEF Claim
    <3>2. claims' \in [Spaces -> Payloads \cup {-1}]
          /\ \A x \in Spaces : claims'[x] = IF x = s THEN b ELSE claims[x]
      BY <3>1 DEF RoomInv
    <3>3. capacity \in Int /\ capacity <= Total - ENTRIES_PER_PAGE
      BY <3>1, ConstantFacts DEF RoomInv, CapacityKept
    <3>4. Reserved(claims') \in Int
      <4> DEFINE C == {y \in Spaces : claims'[y] # -1}
                 r == [x \in C |-> reservation_units(claims'[x])]
      <4>1. IsFiniteSet(C)
        BY ConstantFacts, FS_Subset
      <4>2. \A x \in C : claims'[x] \in Payloads /\ claims'[x] \in Nat
        BY <3>2, ConstantFacts
      <4>3. DOMAIN r = C /\ \A x \in C : r[x] \in Int
        BY <4>2, RecordEntries DEF reservation_units
      <4>4. Reserved(claims') = SumFunction(r)
        BY DEF Reserved
      <4> HIDE DEF r, C
      <4>5. PICK g : IsSum(g, r, C) /\ SumFunction(r) = g[C]
        BY <4>1, <4>3, SumIs
      <4> QED
        BY <4>4, <4>5 DEF IsSum
    <3>5. Reserved(claims') <= Total - ENTRIES_PER_PAGE
      BY <3>1, <3>3, <3>4, ConstantFacts
    <3>6. CapacityKept' /\ rec' \in [Spaces -> Record]
      BY <3>1 DEF RoomInv, CapacityKept
    <3>7. \A x \in Spaces : claims'[x] # -1 => rec'[x].len <= claims'[x]
      BY <3>1, <3>2 DEF RoomInv
    <3> QED
      BY <3>2, <3>5, <3>6, <3>7 DEF RoomInv, Reserved
  <2>10. CASE UNCHANGED vars
    BY <2>1, <2>10 DEF vars
  <2> QED
    BY <2>2, <2>3, <2>4, <2>5, <2>6, <2>7, <2>8, <2>9, <2>10 DEF Next
<1> QED
  BY <1>1, <1>2, PTL DEF Spec

\* The capacity new finds does not depend on what the spaces hold.
THEOREM CapacityKeptCorrect == Spec => []CapacityKept
<1>1. RoomInv => CapacityKept
  BY DEF RoomInv
<1> QED
  BY <1>1, RoomInvCorrect, PTL

\* No commit within an accepted budget is refused for want of room, but for
\* the one space that claims everything beside a canary left behind.
THEOREM RoomForReplaceCorrect == Spec => []RoomForReplace
<1>1. RoomInv => RoomForReplace
  BY RoomForAnother DEF RoomForReplace
<1> QED
  BY <1>1, RoomInvCorrect, PTL
=============================================================================
