------------------------- MODULE WifiStationProofs -------------------------
(***************************************************************************)
(* connect never reports success on the configuration of another network,  *)
(* only joins from a station that has left the old one, and pins to the    *)
(* strongest access point of the network's in the last scan, for any set of *)
(* networks and signal strengths and any number of access points.          *)
(*                                                                         *)
(* The scan's loop is a recursive function of the number of turns.  What   *)
(* it computes is shown by the least number principle (Least): the turn    *)
(* before the first one that would go wrong went right, and KeepStep takes *)
(* it one further.                                                         *)
(***************************************************************************)
EXTENDS WifiStation, WellFoundedInduction, TLAPS

\* Behind the teardown there is no association, before the join no lease, and
\* after it no association and no lease but the new ones.
LeaseInv ==
  /\ pc = "wait_down" => assoc = None
  /\ pc = "join" => assoc = None /\ lease = None
  /\ pc = "wait_up" => assoc \in {ssid, None} /\ lease \in {ssid, None}

\* No call is in progress at the start.
LEMMA InitLease == Init => LeaseInv
  BY DEF Init, LeaseInv

\* Teardown and both waits keep it, whatever the link does meanwhile.
LEMMA NextLease == LeaseInv /\ [Next]_vars => LeaseInv'
<1> SUFFICES ASSUME LeaseInv, [Next]_vars PROVE LeaseInv'
  OBVIOUS
<1>1. CASE Scan
  BY <1>1 DEF LeaseInv, Scan, Return
<1>2. CASE ScanDone
  BY <1>2 DEF LeaseInv, ScanDone, Return
<1>3. CASE \E name \in Ssids : Connect(name)
  BY <1>3 DEF LeaseInv, Connect, Return, Teardown, AfterTeardown
<1>4. CASE Disconnected
  BY <1>4 DEF LeaseInv, Disconnected, Return, AfterTeardown
<1>5. CASE ConfigDown
  BY <1>5 DEF LeaseInv, ConfigDown
<1>6. CASE Joined
  BY <1>6 DEF LeaseInv, Joined, Return
<1>7. CASE ConfigUp
  BY <1>7 DEF LeaseInv, ConfigUp, Return
<1>8. CASE Cancel
  BY <1>8 DEF LeaseInv, Cancel, Return
<1>9. CASE LeaseLost
  BY <1>9 DEF LeaseInv, LeaseLost, call
<1>10. CASE LeaseGiven
  BY <1>10 DEF LeaseInv, LeaseGiven, call
<1>11. CASE LinkLost
  BY <1>11 DEF LeaseInv, LinkLost, call
<1>12. CASE UNCHANGED vars
  BY <1>12 DEF LeaseInv, vars, call
<1> QED BY <1>1, <1>2, <1>3, <1>4, <1>5, <1>6, <1>7, <1>8, <1>9, <1>10, <1>11,
           <1>12 DEF Next

\* FreshLeaseCorrect: wait_config_up never returns with the lease of another
\* network, wherever an earlier call was dropped and whenever the link goes.
THEOREM FreshLeaseCorrect == Spec => FreshLease
<1>1. LeaseInv /\ [Next]_vars
      => [returned' = "true" /\ returned # "true" => lease = ssid]_vars
  <2> SUFFICES ASSUME LeaseInv, Next, returned' = "true", returned # "true"
               PROVE  lease = ssid
    BY DEF vars
  <2>1. ConfigUp
    BY DEF Next, Scan, ScanDone, Connect, Return, Disconnected, ConfigDown,
           Joined, Cancel, LeaseLost, LeaseGiven, LinkLost, call
  <2> QED BY <2>1 DEF LeaseInv, ConfigUp
<1> QED BY <1>1, InitLease, NextLease, PTL DEF Spec, FreshLease

\* JoinsApartCorrect: the join never meets the association or the lease of an
\* earlier call, wherever that call was dropped.
THEOREM JoinsApartCorrect == Spec => []JoinsApart
<1>1. LeaseInv => JoinsApart
  BY DEF LeaseInv, JoinsApart
<1> QED BY <1>1, InitLease, NextLease, PTL DEF Spec

-----------------------------------------------------------------------------
\* A set of natural numbers has a least one.
LEMMA Least ==
  ASSUME NEW T \in SUBSET Nat, T # {}
  PROVE  \E x \in T : \A y \in T : x <= y
<1> DEFINE R == OpToRel(<, Nat)
<1>1. IsWellFoundedOn(R, Nat)
  BY NatLessThanWellFounded
<1>2. PICK x \in T : \A y \in T : <<y, x>> \notin R
  <2> HIDE DEF R
  <2> QED
    BY <1>1, WFMin
<1>3. \A y \in T : ~ (y < x)
  BY <1>2 DEF OpToRel
<1> QED
  BY <1>3

\* So Min of one is a member.
LEMMA MinOf ==
  ASSUME NEW T \in SUBSET Nat, T # {}
  PROVE  Min(T) \in T
BY Least DEF Min

\* The constants.
LEMMA ConstantFacts ==
  MaxAps \in Nat /\ Signals \subseteq Nat /\ "" \notin Ssids
BY WifiAssumption, Zenon

\* The fields of an access point.
LEMMA FieldFacts ==
  ASSUME NEW ap \in AccessPoint
  PROVE  /\ ap.signal \in Nat /\ ap.bssid \in 1 .. MaxAps
         /\ ap.ssid \in Ssids \cup {""}
BY ConstantFacts DEF AccessPoint

\* What a report is.
LEMMA ReportFacts ==
  ASSUME NEW report \in Reports
  PROVE  /\ Len(report) \in Nat /\ Len(report) <= MaxAps
         /\ report \in [1 .. Len(report) -> AccessPoint]
         /\ \A i \in 1 .. Len(report) : report[i].bssid = i
<1>0. PICK n \in 0 .. MaxAps :
        /\ report \in [1 .. n -> AccessPoint]
        /\ \A i \in 1 .. n : report[i].bssid = i
  BY DEF Reports
<1>1. n \in Nat /\ n <= MaxAps
  <2>1. MaxAps \in Nat /\ n \in 0 .. MaxAps
    BY ConstantFacts
  <2> QED
    BY <2>1, SMT
<1>2. report \in Seq(AccessPoint) /\ Len(report) = n
  BY <1>0, <1>1, SMT
<1> QED
  BY <1>0, <1>1, <1>2

\* One turn of the loop: the next access point is skipped, replaces the weaker
\* one of its network, or is the first of its network.
LEMMA KeepStep ==
  ASSUME NEW report \in Reports,
         NEW n \in Nat, n < Len(report),
         NEW s \in Seq(AccessPoint), Kept(s, report, n)
  PROVE  LET t == Keep(s, report[n + 1]) IN
           t \in Seq(AccessPoint) /\ Kept(t, report, n + 1)
<1> DEFINE ap == report[n + 1]
           t == Keep(s, ap)
<1>1. /\ n + 1 \in 1 .. Len(report)
      /\ ap \in AccessPoint
      /\ \A j \in 1 .. n + 1 : j \in 1 .. n \/ j = n + 1
      /\ \A j \in 1 .. n : j \in 1 .. n + 1 
      /\ n + 1 \in 1 .. n + 1
  BY ReportFacts, SMT
<1>2. ap.signal \in Nat /\ \A i \in DOMAIN s : s[i].signal \in Nat
  <2>1. \A i \in DOMAIN s : s[i] \in AccessPoint
    BY SMT
  <2> QED
    BY <1>1, <2>1, FieldFacts
<1>3. \A j \in 1 .. n : report[j].signal \in Nat
  <2>1. \A j \in 1 .. n : report[j] \in AccessPoint
    BY ReportFacts, SMT
  <2> QED
    BY <2>1, FieldFacts
<1>0. ap = report[n + 1]
  OBVIOUS
<1> HIDE DEF ap
<1>4. CASE ap.ssid = ""
  <2>1. t = s
    BY <1>4 DEF Keep
  <2>2. Kept(s, report, n + 1)
    BY <1>0, <1>1, <1>4 DEF Kept
  <2> QED
    BY <1>0, <2>1, <2>2
<1>5. CASE ap.ssid # "" /\ \E i \in DOMAIN s : s[i].ssid = ap.ssid
  <2> PICK k \in DOMAIN s : s[k].ssid = ap.ssid
    BY <1>5
  <2>1. \A i \in DOMAIN s : s[i].ssid = ap.ssid => i = k
    BY DEF Kept
  <2>2. t = [i \in DOMAIN s |->
               IF s[i].ssid = ap.ssid /\ s[i].signal < ap.signal
                 THEN ap ELSE s[i]]
    BY <1>5 DEF Keep
  <2>3. DOMAIN t = DOMAIN s
    BY <2>2
  <2>4. t \in Seq(AccessPoint)
    BY <1>1, <2>2, SMT
  <2>5. \A i \in DOMAIN s : t[i].ssid = s[i].ssid
    BY <2>2
  <2>6. \A i \in DOMAIN s : t[i] = s[i] \/ t[i] = ap
    BY <2>2
  <2>7. \A i \in DOMAIN s : s[i].signal <= t[i].signal
    BY <1>2, <2>2, SMT
  <2>8. ap.signal <= t[k].signal
    BY <1>2, <2>2, SMT
  <2>9. \A i, j \in DOMAIN t : t[i].ssid = t[j].ssid => i = j
    BY <2>3, <2>5 DEF Kept
  <2>10. ASSUME NEW i \in DOMAIN t
         PROVE  t[i].ssid # "" /\ \E j \in 1 .. n + 1 : t[i] = report[j]
    <3>1. i \in DOMAIN s /\ t[i].ssid # ""
      BY <2>3, <2>5, <2>10 DEF Kept
    <3>2. CASE t[i] = ap
      BY <1>0, <1>1, <3>1, <3>2
    <3>3. CASE t[i] = s[i]
      <4> PICK j \in 1 .. n : s[i] = report[j]
        BY <3>1 DEF Kept
      <4> QED
        BY <1>1, <3>1, <3>3
    <3> QED
      BY <2>6, <3>1, <3>2, <3>3
  <2>11. ASSUME NEW j \in 1 .. n + 1, report[j].ssid # ""
         PROVE  \E i \in DOMAIN t : /\ t[i].ssid = report[j].ssid
                                    /\ report[j].signal <= t[i].signal
    <3>1. CASE j = n + 1
      BY <2>3, <2>5, <2>8, <3>1 DEF ap
    <3>2. CASE j \in 1 .. n
      <4> PICK i \in DOMAIN s : /\ s[i].ssid = report[j].ssid
                                /\ report[j].signal <= s[i].signal
        BY <2>11, <3>2 DEF Kept
      <4>1. t[i].signal \in Nat
        BY <1>2, <2>6
      <4>2. report[j].signal <= t[i].signal
        BY <1>2, <1>3, <2>7, <3>2, <4>1, SMT
      <4> QED
        BY <2>3, <2>5, <4>2
    <3> QED
      BY <1>1, <3>1, <3>2
  <2> QED
    BY <2>4, <2>9, <2>10, <2>11 DEF Kept, ap
<1>6. CASE ap.ssid # "" /\ ~ \E i \in DOMAIN s : s[i].ssid = ap.ssid
  <2> DEFINE l == Len(s) + 1
  <2>1. t = Append(s, ap)
    BY <1>6 DEF Keep
  <2>2. /\ t \in Seq(AccessPoint) /\ DOMAIN t = DOMAIN s \cup {l}
        /\ l \notin DOMAIN s
        /\ t[l] = ap /\ \A i \in DOMAIN s : t[i] = s[i]
    BY <1>1, <2>1, SMT
  <2> HIDE DEF l, t
  <2>3. \A i, j \in DOMAIN t : t[i].ssid = t[j].ssid => i = j
    BY <1>6, <2>2 DEF Kept
  <2>4. ASSUME NEW i \in DOMAIN t
        PROVE  t[i].ssid # "" /\ \E j \in 1 .. n + 1 : t[i] = report[j]
    <3>1. CASE i = l
      BY <1>0, <1>1, <1>6, <2>2, <3>1
    <3>2. CASE i \in DOMAIN s
      <4> PICK j \in 1 .. n : s[i] = report[j]
        BY <3>2 DEF Kept
      <4>1. t[i] = report[j] /\ s[i].ssid # ""
        BY <2>2, <3>2 DEF Kept
      <4> QED
        BY <1>1, <2>2, <3>2, <4>1
    <3> QED
      BY <2>2, <2>4, <3>1, <3>2
  <2>5. ASSUME NEW j \in 1 .. n + 1, report[j].ssid # ""
        PROVE  \E i \in DOMAIN t : /\ t[i].ssid = report[j].ssid
                                   /\ report[j].signal <= t[i].signal
    <3>1. CASE j = n + 1
      <4>1. ap.signal <= ap.signal
        BY <1>2, SMT
      <4> QED
        BY <2>2, <3>1, <4>1 DEF ap
    <3>2. CASE j \in 1 .. n
      BY <2>2, <2>5, <3>2 DEF Kept
    <3> QED
      BY <1>1, <3>1, <3>2
  <2> QED
    BY <2>2, <2>3, <2>4, <2>5 DEF Kept, ap, t
<1> QED
  BY <1>4, <1>5, <1>6 DEF ap

\* The recursion of the loop has a solution, up to any turn.
LEMMA LoopExists ==
  ASSUME NEW report, NEW m \in Nat
  PROVE  \E g : g = [n \in 0 .. m |-> IF n = 0 THEN <<>>
                                      ELSE Keep(g[n - 1], report[n])]
<1> DEFINE Body(g, k) == [n \in 0 .. k |-> IF n = 0 THEN <<>>
                                           ELSE Keep(g[n - 1], report[n])]
           T == {k \in Nat : ~ \E g : g = Body(g, k)}
<1>1. CASE T = {}
  BY <1>1
<1>2. CASE T # {}
  <2>1. PICK k \in T : \A j \in T : k <= j
    BY <1>2, Least
  <2>2. k \in Nat /\ ~ \E g : g = Body(g, k)
    BY <2>1
  <2>3. k # 0
    <3> SUFFICES ASSUME k = 0
                 PROVE  FALSE
      OBVIOUS
    <3> DEFINE g == [n \in 0 .. 0 |-> <<>>]
    <3>1. g = Body(g, 0)
      BY SMT
    <3> QED
      BY <2>2, <3>1
  <2>4. PICK g : g = Body(g, k - 1)
    <3>1. k - 1 \in Nat /\ ~ (k <= k - 1)
      BY <2>2, <2>3, SMT
    <3> QED
      BY <2>1, <3>1
  <2> DEFINE h == [n \in 0 .. k |-> IF n < k THEN g[n]
                                    ELSE Keep(g[k - 1], report[k])]
  <2>5. \A n \in 0 .. k : h[n] = IF n = 0 THEN <<>>
                                 ELSE Keep(h[n - 1], report[n])
    <3> SUFFICES ASSUME NEW n \in 0 .. k
                 PROVE  h[n] = IF n = 0 THEN <<>>
                               ELSE Keep(h[n - 1], report[n])
      OBVIOUS
    <3>1. n # 0 => n - 1 \in 0 .. k /\ n - 1 < k
      BY <2>2, SMT
    <3>2. n # 0 => h[n - 1] = g[n - 1]
      BY <3>1
    <3>3. CASE n < k
      <4>1. n \in 0 .. k - 1
        BY <2>2, <3>3, SMT
      <4>2. g[n] = Body(g, k - 1)[n]
        BY <2>4, Zenon
      <4>3. g[n] = IF n = 0 THEN <<>> ELSE Keep(g[n - 1], report[n])
        BY <4>1, <4>2
      <4> QED
        BY <3>2, <3>3, <4>3
    <3>4. CASE ~ (n < k)
      <4>1. n = k
        BY <2>2, <3>4, SMT
      <4>2. h[k] = Keep(g[k - 1], report[k])
        BY <2>2, <3>4, <4>1
      <4> QED
        BY <2>3, <3>2, <4>1, <4>2
    <3> QED
      BY <3>3, <3>4
  <2>6. h = Body(h, k)
    <3>1. h = [n \in 0 .. k |-> h[n]]
      OBVIOUS
    <3> HIDE DEF h
    <3> QED
      BY <2>5, <3>1
  <2> QED
    BY <2>2, <2>6
<1> QED
  BY <1>1, <1>2

\* The loop keeps one access point of every network of the report, the
\* strongest of them.
LEMMA LoopKeeps ==
  ASSUME NEW report \in Reports
  PROVE  /\ Strongest(report) \in Seq(AccessPoint)
         /\ Kept(Strongest(report), report, Len(report))
<1> DEFINE N == Len(report)
           Body(g) == [n \in 0 .. N |-> IF n = 0 THEN <<>>
                                        ELSE Keep(g[n - 1], report[n])]
           kept == CHOOSE g : g = Body(g)
           Good(n) == kept[n] \in Seq(AccessPoint) /\ Kept(kept[n], report, n)
           T == {n \in Nat : n <= N /\ ~ Good(n)}
<1>1. N \in Nat
  BY ReportFacts
<1>2. kept = Body(kept)
  <2>1. \E g : g = Body(g)
    BY <1>1, LoopExists
  <2> QED
    BY <2>1
<1>3. Strongest(report) = kept[N]
  BY DEF Strongest
<1> HIDE DEF kept
<1>4. kept[0] = <<>>
  <2>1. kept[0] = Body(kept)[0]
    BY <1>2, Zenon
  <2>2. 0 \in 0 .. N
    BY <1>1, SMT
  <2> QED
    BY <2>1, <2>2
<1>5. ASSUME NEW n \in Nat, n < N
      PROVE  kept[n + 1] = Keep(kept[n], report[n + 1])
  <2>1. kept[n + 1] = Body(kept)[n + 1]
    BY <1>2, Zenon
  <2>2. n + 1 \in 0 .. N /\ n + 1 # 0 /\ (n + 1) - 1 = n
    BY <1>1, <1>5, SMT
  <2> QED
    BY <2>1, <2>2
<1>6. Good(0)
  <2>1. kept[0] \in Seq(AccessPoint) /\ DOMAIN kept[0] = {} /\ 1 .. 0 = {}
    BY <1>4, SMT
  <2> QED
    BY <2>1 DEF Kept
<1>7. ASSUME NEW n \in Nat, n < N, Good(n)
      PROVE  Good(n + 1)
  BY <1>5, <1>7, KeepStep
<1>8. T = {}
  <2> SUFFICES ASSUME T # {}
               PROVE  FALSE
    OBVIOUS
  <2>1. PICK n \in T : \A j \in T : n <= j
    BY Least
  <2>2. n \in Nat /\ n <= N /\ ~ Good(n)
    BY <2>1
  <2> HIDE DEF Good
  <2>3. n # 0
    BY <1>6, <2>2
  <2>4. /\ n - 1 \in Nat /\ n - 1 < N /\ n - 1 <= N
        /\ (n - 1) + 1 = n /\ ~ (n <= n - 1)
    BY <1>1, <2>2, <2>3, SMT
  <2>5. Good(n - 1)
    BY <2>1, <2>4
  <2>6. Good((n - 1) + 1)
    BY <1>7, <2>4, <2>5
  <2> QED
    BY <2>2, <2>4, <2>6
<1>9. N <= N
  BY <1>1, SMT
<1>10. Good(N)
  BY <1>1, <1>8, <1>9
<1> QED
  BY <1>3, <1>10

\* PinInv holds of the first call and no scan, connect or event breaks it: only
\* a successful scan changes the choices, and none is made while connect runs.
THEOREM PinInvCorrect == Spec => []PinInv
<1>1. Init => PinInv
  <2> SUFFICES ASSUME Init
               PROVE  PinInv
    OBVIOUS
  <2>1. /\ <<>> \in [1 .. 0 -> AccessPoint] /\ 1 .. 0 = {}
        /\ <<>> \in Seq(AccessPoint) /\ Len(<<>>) = 0 /\ DOMAIN <<>> = {}
    BY SMT
  <2>2. <<>> \in Reports
    <3>1. 0 \in 0 .. MaxAps
      <4>1. MaxAps \in Nat
        BY ConstantFacts
      <4> QED
        BY <4>1, SMT
    <3> QED
      BY <2>1, <3>1 DEF Reports
  <2> QED
    BY <2>1, <2>2 DEF Init, PinInv, Kept, Connecting
<1>2. PinInv /\ [Next]_vars => PinInv'
  <2> SUFFICES ASSUME PinInv, [Next]_vars
               PROVE  PinInv'
    OBVIOUS
  <2>1. CASE ScanDone
    <3>1. pc' \notin Connecting
      BY <2>1 DEF ScanDone, Return, Connecting
    <3>2. CASE UNCHANGED <<heard, strongest_bssid>>
      BY <3>1, <3>2 DEF PinInv, Kept
    <3>3. CASE \E report \in Reports :
                 heard' = report /\ strongest_bssid' = Strongest(report)
      <4> PICK report \in Reports :
            heard' = report /\ strongest_bssid' = Strongest(report)
        BY <3>3
      <4>1. /\ Strongest(report) \in Seq(AccessPoint)
            /\ Kept(Strongest(report), report, Len(report))
        BY LoopKeeps
      <4>2. Kept(strongest_bssid, heard, Len(heard))'
        BY <4>1 DEF Kept
      <4> QED
        BY <3>1, <4>1, <4>2 DEF PinInv
    <3> QED
      BY <2>1, <3>2, <3>3 DEF ScanDone
  <2>2. CASE \E name \in Ssids : Connect(name)
    <3> PICK name \in Ssids : Connect(name)
      BY <2>2
    <3>1. UNCHANGED <<heard, strongest_bssid>>
      BY DEF Connect
    <3>2. pc' \in Connecting => ssid' = name /\ bssid' = Pin(name)
      BY DEF Connect, Return, Connecting
    <3>3. Kept(strongest_bssid, heard, Len(heard))'
      BY <3>1 DEF PinInv, Kept
    <3>4. Pin(name)' = Pin(name)
      BY <3>1 DEF Pin
    <3>5. pc' \in Connecting => ssid' \in Ssids /\ bssid' = Pin(ssid)'
      BY <3>1, <3>2, <3>4 DEF Pin
    <3> QED
      BY <3>1, <3>3, <3>5 DEF PinInv
  <2>3. CASE /\ UNCHANGED <<heard, strongest_bssid>>
             /\ \/ pc' \notin Connecting
                \/ pc \in Connecting /\ UNCHANGED <<ssid, bssid>>
    <3>1. Kept(strongest_bssid, heard, Len(heard))'
      BY <2>3 DEF PinInv, Kept
    <3>2. pc' \in Connecting => ssid' \in Ssids /\ bssid' = Pin(ssid)'
      BY <2>3 DEF PinInv, Pin
    <3> QED
      BY <2>3, <3>1, <3>2 DEF PinInv
  <2> USE DEF Connecting, Return, call
  <2>4. CASE Scan
    BY <2>3, <2>4 DEF Scan
  <2>5. CASE Disconnected
    BY <2>3, <2>5 DEF Disconnected
  <2>6. CASE ConfigDown
    BY <2>3, <2>6 DEF ConfigDown
  <2>7. CASE Joined
    BY <2>3, <2>7 DEF Joined
  <2>8. CASE ConfigUp
    BY <2>3, <2>8 DEF ConfigUp
  <2>9. CASE Cancel
    BY <2>3, <2>9 DEF Cancel
  <2>10. CASE LeaseLost \/ LeaseGiven \/ LinkLost \/ UNCHANGED vars
    BY <2>3, <2>10 DEF LeaseLost, LeaseGiven, LinkLost, vars
  <2> QED
    BY <2>1, <2>2, <2>4, <2>5, <2>6, <2>7, <2>8, <2>9, <2>10 DEF Next
<1> QED
  BY <1>1, <1>2, PTL DEF Spec

\* connect pins to the strongest access point the last successful scan heard
\* for the network, and to none only if it heard none.
THEOREM PinStrongestCorrect == Spec => []PinStrongest
<1>1. PinInv => PinStrongest
  <2> SUFFICES ASSUME PinInv, pc \in Connecting
               PROVE  PinStrongest
    BY DEF PinStrongest
  <2> DEFINE same  == {i \in DOMAIN heard : heard[i].ssid = ssid}
             known == {i \in DOMAIN strongest_bssid :
                         strongest_bssid[i].ssid = ssid}
  <2>1. /\ heard \in Reports /\ strongest_bssid \in Seq(AccessPoint)
        /\ Kept(strongest_bssid, heard, Len(heard))
        /\ ssid \in Ssids /\ bssid = Pin(ssid) /\ ssid # ""
    BY ConstantFacts DEF PinInv
  <2>2. /\ DOMAIN heard = 1 .. Len(heard) /\ 1 .. Len(heard) \subseteq Nat
        /\ \A i \in DOMAIN heard : heard[i].bssid = i /\ i \in Nat /\ i # 0
    <3>1. /\ Len(heard) \in Nat
          /\ heard \in [1 .. Len(heard) -> AccessPoint]
          /\ \A i \in 1 .. Len(heard) : heard[i].bssid = i
      BY <2>1, ReportFacts
    <3>2. DOMAIN heard = 1 .. Len(heard)
      BY <3>1
    <3>3. \A i \in 1 .. Len(heard) : i \in Nat /\ i # 0
      BY <3>1, SMT
    <3> QED
      BY <3>1, <3>2, <3>3
  <2>3. CASE known = {}
    <3>1. bssid = 0
      BY <2>1, <2>3 DEF Pin
    <3>2. same = {}
      <4> SUFFICES ASSUME NEW j \in DOMAIN heard, heard[j].ssid = ssid
                   PROVE  FALSE
        OBVIOUS
      <4>1. PICK i \in DOMAIN strongest_bssid : strongest_bssid[i].ssid = ssid
        BY <2>1, <2>2 DEF Kept
      <4> QED
        BY <2>3, <4>1
    <3> QED
      BY <3>1, <3>2 DEF PinStrongest
  <2>4. CASE known # {}
    <3> DEFINE k == Min(known)
    <3>1. k \in known
      <4>1. known \subseteq Nat
        <5>1. strongest_bssid \in Seq(AccessPoint)
          BY <2>1
        <5>2. DOMAIN strongest_bssid \subseteq Nat
          BY <5>1, SMT
        <5> QED
          BY <5>2
      <4> QED
        BY <2>4, <4>1, MinOf
    <3>2. bssid = strongest_bssid[k].bssid
      BY <2>1, <2>4 DEF Pin
    <3> HIDE DEF k
    <3>3. PICK j \in DOMAIN heard : strongest_bssid[k] = heard[j]
      BY <2>1, <2>2, <3>1 DEF Kept
    <3>4. bssid = j /\ j \in same /\ bssid # 0
      BY <2>2, <3>1, <3>2, <3>3
    <3>5. ASSUME NEW i \in same
          PROVE  heard[i].signal <= heard[bssid].signal
      <4>1. PICK e \in DOMAIN strongest_bssid :
              /\ strongest_bssid[e].ssid = heard[i].ssid
              /\ heard[i].signal <= strongest_bssid[e].signal
        BY <2>1, <2>2 DEF Kept
      <4>2. e = k
        BY <2>1, <3>1, <4>1 DEF Kept
      <4> QED
        BY <3>3, <3>4, <4>1, <4>2
    <3> QED
      BY <3>4, <3>5 DEF PinStrongest
  <2> QED
    BY <2>3, <2>4
<1> QED
  BY <1>1, PinInvCorrect, PTL
=============================================================================
