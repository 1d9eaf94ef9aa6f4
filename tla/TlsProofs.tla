------------------------------ MODULE TlsProofs ------------------------------
(***************************************************************************)
(* The TLS service.  The two halves of a socket, for every size of buffer, *)
(* record and message and however many calls are dropped: the mutex has    *)
(* the holder it seems to have, and the bytes on the wire are the bytes    *)
(* produced.  The identities, for any number of keys: whatever call fails, *)
(* no key and no context is left.                                          *)
(***************************************************************************)
EXTENDS TlsSocket, TlsIdentity, SequenceTheorems, TLAPS

\* Every step hands the mutex over with the half that goes in or out.
LEMMA NextMutex == OneInside /\ [Next]_vars => OneInside'
<1> SUFFICES ASSUME OneInside, [Next]_vars PROVE OneInside'
  OBVIOUS
<1>1. CASE Connect BY <1>1 DEF OneInside, Connect
<1>2. CASE StartRead BY <1>2 DEF OneInside, StartRead
<1>3. CASE StartWrite BY <1>3 DEF OneInside, StartWrite
<1>4. CASE StartFlush BY <1>4 DEF OneInside, StartFlush
<1>5. CASE AcquireRead BY <1>5 DEF OneInside, AcquireRead
<1>6. CASE AcquireWrite BY <1>6 DEF OneInside, AcquireWrite
<1>7. CASE ReadDone BY <1>7 DEF OneInside, ReadDone
<1>8. CASE WriteDone BY <1>8 DEF OneInside, WriteDone
<1>9. CASE FlushDone BY <1>9 DEF OneInside, FlushDone
<1>10. CASE WriteFails BY <1>10 DEF OneInside, WriteFails
<1>11. CASE DropRead BY <1>11 DEF OneInside, DropRead, unlock
<1>12. CASE DropWrite BY <1>12 DEF OneInside, DropWrite, unlock
<1>13. CASE Abort \/ Shutdown \/ CloseNotify
  BY <1>13 DEF OneInside, Abort, Shutdown, CloseNotify
<1>14. CASE PeerSends \/ PeerReads \/ PeerGoes
  BY <1>14 DEF OneInside, PeerSends, PeerReads, PeerGoes
<1>15. CASE UNCHANGED vars BY <1>15 DEF OneInside, vars
<1> QED BY <1>1, <1>2, <1>3, <1>4, <1>5, <1>6, <1>7, <1>8, <1>9, <1>10, <1>11,
           <1>12, <1>13, <1>14, <1>15 DEF Next

\* OneInsideCorrect: wherever the two halves are and whichever futures are
\* dropped, the mutex is held exactly by the half inside the session.
THEOREM OneInsideCorrect == Spec => []OneInside
<1>1. Init => OneInside
  BY DEF Init, OneInside
<1> QED BY <1>1, NextMutex, PTL DEF Spec

-----------------------------------------------------------------------------
\* The bytes 1, 2, ... in order.
InOrder(q) == q \in Seq(Int) /\ \A i \in 1 .. Len(q) : q[i] = i

\* A record that begins where the last one ended keeps the order.
LEMMA ExtendInOrder ==
  ASSUME NEW q, InOrder(q), NEW n \in Nat, NEW a \in Nat, a = Len(q) + 1,
         NEW b \in Int, b = a + n - 1
  PROVE  InOrder(q \o Bytes(a, b)) /\ Len(q \o Bytes(a, b)) = Len(q) + n
<1>1. Bytes(a, b) \in Seq(Int) /\ Len(Bytes(a, b)) = n
      /\ \A i \in 1 .. n : Bytes(a, b)[i] = a + i - 1
  BY DEF Bytes
<1>2. Len(q) \in Nat
  BY DEF InOrder
<1> DEFINE s == Bytes(a, b)
<1>3. q \in Seq(Int) /\ s \in Seq(Int) /\ Len(s) = n /\ \A i \in 1 .. n : s[i] = a + i - 1
  BY <1>1 DEF InOrder
<1> HIDE DEF s
<1>4. /\ q \o s \in Seq(Int) /\ Len(q \o s) = Len(q) + n
      /\ \A i \in 1 .. Len(q) + n :
           (q \o s)[i] = IF i <= Len(q) THEN q[i] ELSE s[i - Len(q)]
  BY <1>3, ConcatProperties
<1>5. ASSUME NEW i \in 1 .. Len(q) + n PROVE (q \o s)[i] = i
  <2>1. CASE i <= Len(q)
    BY <2>1, <1>2, <1>4 DEF InOrder
  <2>2. CASE i > Len(q)
    <3>1. i - Len(q) \in 1 .. n
      BY <2>2, <1>2
    <3>2. s[i - Len(q)] = a + (i - Len(q)) - 1
      BY <3>1, <1>3
    <3>3. (q \o s)[i] = s[i - Len(q)]
      BY <2>2, <1>2, <1>4
    <3> QED BY <3>2, <3>3, <1>2
  <2>3. i \in Int /\ Len(q) \in Int
    BY <1>2
  <2>4. i <= Len(q) \/ i > Len(q)
    BY <2>3
  <2> QED BY <2>1, <2>2, <2>4
<1>6. InOrder(q \o s) /\ Len(q \o s) = Len(q) + n
  BY <1>4, <1>5 DEF InOrder
<1> QED BY <1>6 DEF s

\* What is left of a buffer continues what was sent, and write_with's buffer
\* fits one record; a half that has nothing to write has sent everything.
WriteInv ==
  /\ InOrder(sent) /\ produced \in Nat
  /\ wr \in {"idle", "lock", "write", "flush_lock", "flush", "failed"}
  /\ rest.from \in Nat /\ rest.to \in Int
  /\ rest = [op |-> rest.op, from |-> rest.from, to |-> rest.to]
  /\ wr \in {"lock", "write"} =>
       /\ rest.op \in {"write", "write_with"}
       /\ rest.from = Len(sent) + 1 /\ rest.to = produced /\ rest.from <= rest.to
       /\ rest.op = "write_with" => rest.to - rest.from + 1 <= BUFFER
  /\ wr \in {"idle", "flush_lock", "flush"} => Len(sent) = produced

\* Nothing is produced or sent at first.
LEMMA InitWrite == Init => WriteInv
  BY DEF Init, WriteInv, InOrder

\* One record goes out.
LEMMA RecordWrite ==
  ASSUME WriteInv, WriteDone
  PROVE  WriteInv'
<1> DEFINE left == rest.to - rest.from + 1
           n    == IF left < MaxRecord THEN left ELSE MaxRecord
<1>1. rest.from \in Nat /\ rest.to \in Int /\ rest.op \in {"write", "write_with"}
      /\ rest.from = Len(sent) + 1 /\ rest.to = produced /\ produced \in Nat
      /\ rest.from <= rest.to
      /\ (rest.op = "write_with" => left <= BUFFER)
  BY DEF WriteInv, WriteDone
<1>2. Len(sent) \in Nat
  BY DEF WriteInv, InOrder
<1>3. left \in Nat /\ n \in Nat /\ n <= left /\ n >= 1
      /\ (rest.op = "write_with" => n = left)
  BY <1>1, TlsAssumption
<1>4. PICK b \in Int : b = rest.from + n - 1
  BY <1>3 DEF WriteInv
<1>5. sent' = sent \o Bytes(rest.from, b) /\ rest' = [rest EXCEPT !.from = @ + n]
      /\ wr' = (IF n < left /\ rest.op = "write" THEN "lock" ELSE "idle")
      /\ produced' = produced
  BY <1>4 DEF WriteDone
<1> HIDE DEF n
<1>6. InOrder(sent') /\ Len(sent') = Len(sent) + n
  <2>1. InOrder(sent) /\ rest.from \in Nat /\ rest.from = Len(sent) + 1
    BY DEF WriteInv, WriteDone
  <2>2. InOrder(sent \o Bytes(rest.from, b))
        /\ Len(sent \o Bytes(rest.from, b)) = Len(sent) + n
    BY <1>2, <1>3, <1>4, <2>1, ExtendInOrder
  <2> QED BY <1>5, <2>2
<1>7. rest'.from = rest.from + n /\ rest'.to = rest.to /\ rest'.op = rest.op
      /\ rest' = [op |-> rest'.op, from |-> rest'.from, to |-> rest'.to]
  <2>1. rest = [op |-> rest.op, from |-> rest.from, to |-> rest.to]
    BY DEF WriteInv
  <2>2. rest' = [op |-> rest.op, from |-> rest.from + n, to |-> rest.to]
    BY <1>5, <2>1
  <2> QED BY <2>2
<1>8. CASE n < left /\ rest.op = "write"
  <2>1. wr' = "lock" /\ rest'.op = "write" /\ rest'.from \in Nat /\ rest'.to \in Int
        /\ rest'.from = Len(sent') + 1 /\ rest'.to = produced' /\ rest'.from <= rest'.to
        /\ produced' \in Nat
    BY <1>8, <1>2, <1>3, <1>5, <1>6, <1>7, <1>1
  <2> QED BY <2>1, <1>6, <1>7 DEF WriteInv
<1>9. CASE ~(n < left /\ rest.op = "write")
  <2>1. n = left
    BY <1>9, <1>3, <1>1
  <2>2. wr' = "idle"
    BY <1>9, <1>5
  <2>3. Len(sent') = produced' /\ produced' \in Nat
    BY <2>1, <1>2, <1>5, <1>6, <1>1
  <2>4. rest'.from \in Nat /\ rest'.to \in Int
    BY <1>3, <1>7, <1>1
  <2> QED BY <2>2, <2>3, <2>4, <1>6, <1>7 DEF WriteInv
<1> QED BY <1>8, <1>9

\* A write is dropped after some of its bytes.
LEMMA DropsWrite ==
  ASSUME WriteInv, DropWrite
  PROVE  WriteInv'
<1>1. PICK n \in 0 .. MaxRecord :
        /\ n <= IF wr = "write" /\ room > 0 THEN rest.to - rest.from + 1 ELSE 0
        /\ sent' = sent \o Bytes(rest.from, rest.from + n - 1)
        /\ wr' = "failed" /\ UNCHANGED <<rest, produced>>
  BY DEF DropWrite
<1>2. n \in Nat /\ Len(sent) \in Nat
  BY TlsAssumption DEF WriteInv, InOrder
<1>3. PICK b \in Int : b = rest.from + n - 1
  BY <1>2 DEF WriteInv
<1>4. InOrder(sent')
  <2>1. CASE wr = "write"
    BY <2>1, <1>1, <1>2, <1>3, ExtendInOrder DEF WriteInv
  <2>2. CASE wr # "write"
    <3>1. n = 0 /\ Bytes(rest.from, b) = <<>>
      BY <2>2, <1>1, <1>2, <1>3 DEF WriteInv, Bytes
    <3>2. sent' = sent \o <<>> /\ sent \in Seq(Int)
      BY <3>1, <1>1, <1>3 DEF WriteInv, InOrder
    <3>3. sent' = sent
      BY <3>2, ConcatEmptySeq
    <3> QED BY <3>3 DEF WriteInv, InOrder
  <2> QED BY <2>1, <2>2
<1> QED BY <1>1, <1>4 DEF WriteInv

\* Every step keeps the bytes in order.
LEMMA NextWrite == WriteInv /\ [Next]_vars => WriteInv'
<1> SUFFICES ASSUME WriteInv, [Next]_vars PROVE WriteInv'
  OBVIOUS
<1> USE DEF WriteInv
<1>1. CASE Connect BY <1>1 DEF Connect
<1>2. CASE StartRead BY <1>2 DEF StartRead
<1>3. CASE StartWrite
  <2>1. PICK o \in {"write", "write_with"}, n \in 1 .. MaxBytes :
          /\ wr = "idle" /\ n <= capacity(o)
          /\ wr' = "lock" /\ produced' = produced + n
          /\ rest' = [op |-> o, from |-> produced + 1, to |-> produced + n]
          /\ sent' = sent
    BY <1>3 DEF StartWrite
  <2>2. o = "write_with" => n <= BUFFER
    BY <2>1 DEF capacity
  <2>3. n \in Nat /\ n >= 1
    BY TlsAssumption
  <2> QED BY <2>1, <2>2, <2>3, TlsAssumption
<1>4. CASE StartFlush BY <1>4 DEF StartFlush
<1>5. CASE AcquireRead BY <1>5 DEF AcquireRead
<1>6. CASE AcquireWrite BY <1>6 DEF AcquireWrite
<1>7. CASE ReadDone BY <1>7 DEF ReadDone
<1>8. CASE WriteDone BY <1>8, RecordWrite
<1>9. CASE FlushDone BY <1>9 DEF FlushDone
<1>10. CASE WriteFails BY <1>10 DEF WriteFails
<1>11. CASE DropRead BY <1>11 DEF DropRead
<1>12. CASE DropWrite BY <1>12, DropsWrite
<1>13. CASE Abort \/ Shutdown \/ CloseNotify
  BY <1>13 DEF Abort, Shutdown, CloseNotify
<1>14. CASE PeerSends \/ PeerReads \/ PeerGoes
  BY <1>14 DEF PeerSends, PeerReads, PeerGoes
<1>15. CASE UNCHANGED vars BY <1>15 DEF vars
<1> QED BY <1>1, <1>2, <1>3, <1>4, <1>5, <1>6, <1>7, <1>8, <1>9, <1>10, <1>11,
           <1>12, <1>13, <1>14, <1>15 DEF Next

\* SentExactCorrect: for every buffer no larger than a record, write, write_with
\* and flush put exactly the bytes produced on the wire, in order, with any
\* number of writes, dropped calls and partial records.
THEOREM SentExactCorrect == Spec => []SentExact
<1>1. WriteInv => SentExact
  BY DEF WriteInv, SentExact, InOrder
<1> QED BY <1>1, InitWrite, NextWrite, PTL DEF Spec

-----------------------------------------------------------------------------
(* The identities: they share no state with a socket                       *)
\* What the straight line of generate_self_signed_identity calls, where it matters.
LEMMA GenerateCalls ==
  ASSUME op = "generate", step \in 1 .. Len(Run(op))
  PROVE  /\ Len(Run(op)) = 18 /\ step \in 1 .. 18
         /\ call = "psa_generate_key" <=> step = 4
         /\ call = "contexts" <=> step = 2
         /\ call = "pk_init" <=> step = 5
         /\ call = "pk_copy_from_psa" <=> step = 6
         /\ call = "crt_init" <=> step = 7
         /\ call = "set_subject_key" <=> step = 10
         /\ call = "set_issuer_key" <=> step = 11
         /\ "pk" \in Uses(call) => step >= 6
         /\ "crt" \in Uses(call) => step >= 8
         /\ Uses(call) \subseteq {"pk", "crt"}
<1>1. Run(op) = <<"subject", "contexts", "psa_crypto_init",
      "psa_generate_key", "pk_init", "pk_copy_from_psa", "crt_init",
      "set_subject_name", "set_issuer_name", "set_subject_key",
      "set_issuer_key", "set_serial_raw", "set_validity", "set_md_alg",
      "set_basic_constraints", "write_key_pem", "crt_pem", "pem_string">>
  BY DEF Run
<1> DEFINE r == Run(op)
<1>2. /\ Len(r) = 18
      /\ r[1] = "subject" /\ r[2] = "contexts" /\ r[3] = "psa_crypto_init"
      /\ r[4] = "psa_generate_key" /\ r[5] = "pk_init" /\ r[6] = "pk_copy_from_psa"
      /\ r[7] = "crt_init" /\ r[8] = "set_subject_name" /\ r[9] = "set_issuer_name"
      /\ r[10] = "set_subject_key" /\ r[11] = "set_issuer_key"
      /\ r[12] = "set_serial_raw" /\ r[13] = "set_validity" /\ r[14] = "set_md_alg"
      /\ r[15] = "set_basic_constraints" /\ r[16] = "write_key_pem"
      /\ r[17] = "crt_pem" /\ r[18] = "pem_string"
  BY <1>1, SMTT(30)
<1>3. step \in 1 .. 18 /\ call = r[step]
  BY <1>2 DEF call
<1> HIDE DEF r
<1>4. /\ call = "psa_generate_key" <=> step = 4
      /\ call = "contexts" <=> step = 2
      /\ call = "pk_init" <=> step = 5
      /\ call = "pk_copy_from_psa" <=> step = 6
      /\ call = "crt_init" <=> step = 7
      /\ call = "set_subject_key" <=> step = 10
      /\ call = "set_issuer_key" <=> step = 11
  BY <1>2, <1>3
<1>5. /\ "pk" \in Uses(call) => step >= 6
      /\ "crt" \in Uses(call) => step >= 8
      /\ Uses(call) \subseteq {"pk", "crt"}
  BY <1>2, <1>3 DEF Uses
<1> QED BY <1>2, <1>3, <1>4, <1>5 DEF r
\* What the straight line of validate_cert_key_pair calls.
LEMMA ValidateCalls ==
  ASSUME op = "validate", step \in 1 .. Len(Run(op))
  PROVE  /\ Len(Run(op)) = 8 /\ step \in 1 .. 8
         /\ call \in {"cert_c", "key_c", "contexts", "crt_init", "pk_init",
                         "crt_parse", "pk_parse_key", "check_pair"}
         /\ call = "contexts" <=> step = 3
         /\ call = "crt_init" <=> step = 4
         /\ call = "pk_init" <=> step = 5
         /\ call = "crt_parse" <=> step = 6
         /\ call = "pk_parse_key" <=> step = 7
         /\ call = "check_pair" <=> step = 8
         /\ Uses(call) # {} => step >= 6
         /\ Uses(call) \subseteq {"pk", "crt"}
<1>1. Run(op) = <<"cert_c", "key_c", "contexts", "crt_init", "pk_init",
                     "crt_parse", "pk_parse_key", "check_pair">>
  BY DEF Run
<1> DEFINE r == Run(op)
<1>2. /\ Len(r) = 8 /\ r[1] = "cert_c" /\ r[2] = "key_c" /\ r[3] = "contexts"
      /\ r[4] = "crt_init" /\ r[5] = "pk_init" /\ r[6] = "crt_parse"
      /\ r[7] = "pk_parse_key" /\ r[8] = "check_pair"
  BY <1>1
<1>3. step \in 1 .. 8 /\ call = r[step]
  BY <1>2 DEF call
<1> HIDE DEF r
<1>4. /\ call \in {"cert_c", "key_c", "contexts", "crt_init", "pk_init",
                      "crt_parse", "pk_parse_key", "check_pair"}
      /\ call = "contexts" <=> step = 3
      /\ call = "crt_init" <=> step = 4
      /\ call = "pk_init" <=> step = 5
      /\ call = "crt_parse" <=> step = 6
      /\ call = "pk_parse_key" <=> step = 7
      /\ call = "check_pair" <=> step = 8
  BY <1>2, <1>3
<1>5. /\ Uses(call) # {} => step >= 6
      /\ Uses(call) \subseteq {"pk", "crt"}
  BY <1>2, <1>3 DEF Uses
<1> QED BY <1>2, <1>3, <1>4, <1>5 DEF r

\* server_config_from_pem and validate_ca_pem set up no context of their own.
LEMMA ParseCalls ==
  ASSUME op \in {"server_config", "validate_ca"}, step \in 1 .. Len(Run(op))
  PROVE  /\ call \in {"cert_c", "key_c", "Certificate", "PrivateKey"}
         /\ Uses(call) = {}
<1>1. CASE op = "server_config"
  <2>1. Run(op) = <<"cert_c", "key_c", "Certificate", "PrivateKey">>
    BY <1>1 DEF Run
  <2> QED BY <1>1, <2>1 DEF call, Uses
<1>2. CASE op = "validate_ca"
  <2>1. Run(op) = <<"cert_c", "Certificate">>
    BY <1>2 DEF Run
  <2> QED BY <1>2, <2>1 DEF call, Uses
<1> QED BY <1>1, <1>2

\* The first states: no function runs and no key, context or text exists.
LEMMA InitIdentity == IdentityInit => IdentityInv
<1> SUFFICES ASSUME IdentityInit PROVE IdentityInv
  OBVIOUS
<1>1. IdentityTypeOK
  BY DEF IdentityInit, IdentityTypeOK, Functions, Pem, Junk, NoContexts
<1>2. OneKey /\ Stages /\ Established
  BY DEF IdentityInit, OneKey, Stages, Established, NoContexts
<1>3. ContextsSound /\ ValidatedUsable
  BY DEF IdentityInit, ContextsSound, ValidatedUsable, NoContexts
<1> QED BY <1>1, <1>2, <1>3 DEF IdentityInv

\* Only texts of a known shape are handed in.
LEMMA TextsKnown ==
  ASSUME IdentityInv
  PROVE  Texts \subseteq Pem
<1>1. \A i \in issued : i.cert \in Pem /\ i.key \in Pem
  BY DEF IdentityInv, IdentityTypeOK
<1>2. Nul \in Pem /\ Junk \in Pem
  BY DEF Pem
<1> QED BY <1>1, <1>2 DEF Texts

\* A function begins with no context and no key.
LEMMA IdentityBegin ==
  ASSUME IdentityInv, Begin
  PROVE  IdentityInv'
<1>1. PICK f \in Functions, c, k \in Texts :
        /\ op = "idle" /\ op' = f /\ step' = 1 /\ args' = [cert |-> c, key |-> k]
        /\ ctx' = NoContexts /\ keyId' = 0
        /\ UNCHANGED <<psa, raw, issued, valid>>
  BY DEF Begin, Functions
<1>2. 1 \in 1 .. Len(Run(f))
  BY DEF Functions, Run
<1>3. IdentityTypeOK'
  BY <1>1, <1>2, TextsKnown DEF IdentityInv, IdentityTypeOK, NoContexts
<1>4. OneKey' /\ Stages' /\ Established' /\ ContextsSound'
  BY <1>1 DEF IdentityInv, OneKey, Stages, Stage, Established,
              ContextsSound, NoContexts, Functions
<1>5. ValidatedUsable'
  <2>1. op' = "server_config" /\ args' \in valid' => (Succeeds(call))'
    <3> SUFFICES ASSUME op' = "server_config", args' \in valid'
                 PROVE  (Succeeds(call))'
      OBVIOUS
    <3>1. args'.cert.kind = "cert"
      BY <1>1 DEF IdentityInv, ValidatedUsable
    <3>2. call' = "cert_c"
      BY <1>1 DEF call, Run
    <3>3. args'.cert # Nul
      BY <3>1 DEF Nul
    <3> QED BY <3>2, <3>3 DEF Succeeds
  <2> QED BY <1>1, <2>1 DEF IdentityInv, ValidatedUsable
<1> QED BY <1>3, <1>4, <1>5 DEF IdentityInv

\* At every return the Drop leaves no key and no context that is still filled.
LEMMA IdentityReturns ==
  ASSUME IdentityInv, op # "idle", NEW r, Return(r)
  PROVE  /\ op' = "idle" /\ keyId' = 0 /\ psa' = {} /\ args' = args
         /\ "init" \notin {ctx'.pk, ctx'.crt} /\ (ctx'.pk = "none" <=> ctx'.crt = "none")
         /\ ctx' \in [pk : {"none", "zero", "init", "freed"},
                     crt : {"none", "zero", "init", "freed"},
                     subject : Keys \cup {0}, issuer : Keys \cup {0},
                     pkKey : Keys \cup {0}]
         /\ \A u \in raw' : u[1] = "drop"
<1>1. op' = "idle" /\ keyId' = 0 /\ args' = args
  BY DEF Return
<1>2. psa' = {}
  BY DEF Return, Drop, destroy_key, IdentityInv, OneKey
<1>3. /\ "init" \notin {ctx'.pk, ctx'.crt} /\ (ctx'.pk = "none" <=> ctx'.crt = "none")
      /\ ctx' \in [pk : {"none", "zero", "init", "freed"},
                  crt : {"none", "zero", "init", "freed"},
                  subject : Keys \cup {0}, issuer : Keys \cup {0},
                  pkKey : Keys \cup {0}]
  BY DEF Return, Drop, IdentityInv, IdentityTypeOK, Stages
<1>4. \A u \in raw' : u[1] = "drop"
  BY DEF Return, Drop, IdentityInv, ContextsSound
<1> QED BY <1>1, <1>2, <1>3, <1>4

\* A call fails: the function returns.
LEMMA IdentityFail ==
  ASSUME IdentityInv, Fail
  PROVE  IdentityInv'
<1>1. op # "idle" /\ Return("err") /\ UNCHANGED <<issued, valid>>
  BY DEF Fail
<1>2. /\ op' = "idle" /\ keyId' = 0 /\ psa' = {} /\ args' = args
      /\ "init" \notin {ctx'.pk, ctx'.crt} /\ (ctx'.pk = "none" <=> ctx'.crt = "none")
      /\ ctx' \in [pk : {"none", "zero", "init", "freed"},
                  crt : {"none", "zero", "init", "freed"},
                  subject : Keys \cup {0}, issuer : Keys \cup {0},
                  pkKey : Keys \cup {0}]
      /\ \A u \in raw' : u[1] = "drop"
  BY <1>1, IdentityReturns
<1>3. IdentityTypeOK'
  BY <1>1, <1>2 DEF IdentityInv, IdentityTypeOK
<1>4. OneKey' /\ Stages' /\ Established' /\ ContextsSound'
  BY <1>2 DEF OneKey, Stages, Established, ContextsSound
<1>5. ValidatedUsable'
  BY <1>1, <1>2 DEF IdentityInv, ValidatedUsable
<1> QED BY <1>3, <1>4, <1>5 DEF IdentityInv

\* The last call succeeds: an identity is issued, or a pair accepted.
LEMMA IdentityFinish ==
  ASSUME IdentityInv, Finish
  PROVE  IdentityInv'
<1>1. /\ op # "idle" /\ Return("ok") /\ Succeeds(call)
      /\ step = Len(Run(op))
      /\ issued' = IF op = "generate"
                   THEN issued \cup {[cert |-> Cert(ctx.subject, ctx.issuer),
                                      key  |-> Key(ctx.pkKey)]}
                   ELSE issued
      /\ valid' = IF op = "validate" THEN valid \cup {args} ELSE valid
  BY DEF Finish
<1>2. /\ op' = "idle" /\ keyId' = 0 /\ psa' = {} /\ args' = args
      /\ "init" \notin {ctx'.pk, ctx'.crt} /\ (ctx'.pk = "none" <=> ctx'.crt = "none")
      /\ ctx' \in [pk : {"none", "zero", "init", "freed"},
                  crt : {"none", "zero", "init", "freed"},
                  subject : Keys \cup {0}, issuer : Keys \cup {0},
                  pkKey : Keys \cup {0}]
      /\ \A u \in raw' : u[1] = "drop"
  BY <1>1, IdentityReturns
<1>3. ASSUME op = "generate"
     PROVE  issued' \subseteq [cert : Pem, key : Pem] /\ ValidatedUsable'
  <2>1. step = 18
    BY <1>1, <1>3, GenerateCalls DEF IdentityInv, IdentityTypeOK
  <2>2. /\ keyId # 0 /\ keyId \in Keys /\ ctx.pkKey = keyId
        /\ ctx.subject = keyId /\ ctx.issuer = keyId
    BY <1>3, <2>1 DEF IdentityInv, IdentityTypeOK, OneKey, Established
  <2>3. issued' = issued \cup {[cert |-> Cert(keyId, keyId), key |-> Key(keyId)]}
        /\ valid' = valid
    BY <1>1, <1>3, <2>2
  <2>4. Cert(keyId, keyId) \in Pem /\ Key(keyId) \in Pem
        /\ Key(keyId).key = keyId
    BY <2>2 DEF Pem, Key
  <2>5. issued' \subseteq [cert : Pem, key : Pem]
    BY <2>3, <2>4 DEF IdentityInv, IdentityTypeOK
  <2>6. ValidatedUsable'
    BY <1>2, <2>2, <2>3, <2>4 DEF IdentityInv, ValidatedUsable
  <2> QED BY <2>5, <2>6
<1>4. ASSUME op = "validate"
     PROVE  issued' \subseteq [cert : Pem, key : Pem] /\ ValidatedUsable'
  <2>1. step = 8 /\ call = "check_pair"
    BY <1>1, <1>4, ValidateCalls DEF IdentityInv, IdentityTypeOK
  <2>2. args.cert.kind = "cert" /\ args.key.kind = "key" /\ args.key \in Pem
    BY <1>4, <2>1 DEF IdentityInv, IdentityTypeOK, Established
  <2>3. args.key = Key(args.key.key)
    BY <2>2 DEF Pem, Nul, Junk, Cert, Key
  <2>4. args.cert.key = args.key.key
    BY <1>1, <2>1 DEF Succeeds
  <2>5. issued' = issued /\ valid' = valid \cup {args}
    BY <1>1, <1>4
  <2>6. ValidatedUsable'
    BY <1>2, <2>2, <2>3, <2>4, <2>5 DEF IdentityInv, ValidatedUsable
  <2> QED BY <2>5, <2>6 DEF IdentityInv, IdentityTypeOK
<1>5. ASSUME op \notin {"generate", "validate"}
     PROVE  issued' \subseteq [cert : Pem, key : Pem] /\ ValidatedUsable'
  BY <1>1, <1>2, <1>5 DEF IdentityInv, ValidatedUsable, IdentityTypeOK
<1>6. issued' \subseteq [cert : Pem, key : Pem] /\ ValidatedUsable'
  BY <1>3, <1>4, <1>5
<1>7. IdentityTypeOK'
  BY <1>2, <1>6 DEF IdentityInv, IdentityTypeOK
<1>8. OneKey' /\ Stages' /\ Established' /\ ContextsSound'
  BY <1>2 DEF OneKey, Stages, Established, ContextsSound
<1> QED BY <1>6, <1>7, <1>8 DEF IdentityInv
\* The next call of generate_self_signed_identity succeeds.
LEMMA GenerateCall ==
  ASSUME IdentityInv, Call, op = "generate"
  PROVE  IdentityInv'
<1>1. /\ Succeeds(call) /\ step < Len(Run(op)) /\ step' = step + 1
      /\ ctx' = Effect(call) /\ raw' = raw \cup Passed(call)
      /\ UNCHANGED <<op, args, issued, valid, result>>
  BY DEF Call
<1>2. step \in 1 .. Len(Run(op))
  BY DEF IdentityInv, IdentityTypeOK
<1>3. step \in 1 .. 17 /\ step' \in 1 .. Len(Run(op))'
  <2>1. step \in 1 .. 18 /\ Len(Run(op)) = 18
    BY <1>2, GenerateCalls
  <2>2. step < Len(Run(op))
    BY <1>1
  <2>3. step < 18
    BY <2>1, <2>2
  <2>4. step \in 1 .. 17
    BY <2>1, <2>3
  <2>5. Run(op)' = Run(op)
    BY <1>1 DEF Run
  <2> QED BY <2>1, <2>4, <2>5, <1>1
<1>4. /\ ctx.pk = Stage(2, 5) /\ ctx.crt = Stage(2, 7)
      /\ step > 6 => ctx.pkKey = keyId
      /\ step > 10 => ctx.subject = ctx.pkKey
      /\ step > 11 => ctx.issuer = ctx.pkKey
      /\ ctx \in [pk : {"none", "zero", "init", "freed"},
                  crt : {"none", "zero", "init", "freed"},
                  subject : Keys \cup {0}, issuer : Keys \cup {0},
                  pkKey : Keys \cup {0}]
      /\ keyId \in Keys \cup {0} /\ psa = (IF keyId = 0 THEN {} ELSE {keyId})
      /\ keyId # 0 <=> step > 4
  BY DEF IdentityInv, IdentityTypeOK, OneKey, Stages, Established
<1>5. /\ keyId' \in Keys \cup {0} /\ psa' = (IF keyId' = 0 THEN {} ELSE {keyId'})
      /\ keyId' # 0 <=> step' > 4
      /\ step # 4 => keyId' = keyId
  <2>1. CASE step = 4
    <3>1. PICK k \in Keys : psa' = psa \cup {k} /\ keyId' = k
      BY <2>1, <1>2, GenerateCalls DEF Call
    <3>2. k # 0
      BY <3>1 DEF Keys
    <3> QED BY <2>1, <3>1, <3>2, <1>1, <1>4
  <2>2. CASE step # 4
    <3>1. UNCHANGED <<psa, keyId>>
      BY <2>2, <1>2, GenerateCalls DEF Call
    <3> QED BY <2>2, <3>1, <1>1, <1>3, <1>4
  <2> QED BY <2>1, <2>2
<1>6. ctx' = CASE step = 2  -> [ctx EXCEPT !.pk = "zero", !.crt = "zero"]
               [] step = 5  -> [ctx EXCEPT !.pk = "init"]
               [] step = 7  -> [ctx EXCEPT !.crt = "init"]
               [] step = 6  -> [ctx EXCEPT !.pkKey = keyId]
               [] step = 10 -> [ctx EXCEPT !.subject = ctx.pkKey]
               [] step = 11 -> [ctx EXCEPT !.issuer = ctx.pkKey]
               [] OTHER -> ctx
  BY <1>1, <1>2, GenerateCalls DEF Effect, issuer_of
<1>7. ctx' \in [pk : {"none", "zero", "init", "freed"},
               crt : {"none", "zero", "init", "freed"},
               subject : Keys \cup {0}, issuer : Keys \cup {0},
               pkKey : Keys \cup {0}]
  BY <1>4, <1>6
<1>8. IdentityTypeOK'
  BY <1>1, <1>3, <1>5, <1>7 DEF IdentityInv, IdentityTypeOK
<1>9. OneKey'
  BY <1>1, <1>5 DEF OneKey
<1>10. Stages'
  <2>1. ctx'.pk = (IF step' <= 2 THEN "none" ELSE IF step' <= 5 THEN "zero" ELSE "init")
    BY <1>1, <1>3, <1>4, <1>6, SMTT(30) DEF Stage
  <2>2. ctx'.crt = (IF step' <= 2 THEN "none" ELSE IF step' <= 7 THEN "zero" ELSE "init")
    BY <1>1, <1>3, <1>4, <1>6, SMTT(30) DEF Stage
  <2> QED BY <2>1, <2>2, <1>1 DEF Stages, Stage
<1>11. Established'
  <2>1. step' > 6 => ctx'.pkKey = keyId'
    BY <1>1, <1>3, <1>4, <1>5, <1>6
  <2>2. step' > 10 => ctx'.subject = ctx'.pkKey
    BY <1>1, <1>3, <1>4, <1>6
  <2>3. step' > 11 => ctx'.issuer = ctx'.pkKey
    BY <1>1, <1>3, <1>4, <1>6
  <2> QED BY <2>1, <2>2, <2>3, <1>1 DEF Established
<1>12. Passed(call) = {}
  <2>1. "pk" \in Uses(call) => ctx["pk"] = "init"
    BY <1>2, <1>3, <1>4, GenerateCalls DEF Stage
  <2>2. "crt" \in Uses(call) => ctx["crt"] = "init"
    BY <1>2, <1>3, <1>4, GenerateCalls DEF Stage
  <2> QED BY <2>1, <2>2, <1>2, GenerateCalls DEF Passed
<1>13. ContextsSound'
  BY <1>1, <1>12 DEF IdentityInv, ContextsSound
<1>14. ValidatedUsable'
  BY <1>1 DEF IdentityInv, ValidatedUsable
<1> QED BY <1>8, <1>9, <1>10, <1>11, <1>13, <1>14 DEF IdentityInv

\* The next call of validate_cert_key_pair succeeds.
LEMMA ValidateCall ==
  ASSUME IdentityInv, Call, op = "validate"
  PROVE  IdentityInv'
<1>1. /\ Succeeds(call) /\ step < Len(Run(op)) /\ step' = step + 1
      /\ ctx' = Effect(call) /\ raw' = raw \cup Passed(call)
      /\ UNCHANGED <<op, args, issued, valid, result>>
  BY DEF Call
<1>2. step \in 1 .. Len(Run(op))
  BY DEF IdentityInv, IdentityTypeOK
<1>3. step \in 1 .. 7 /\ step' \in 1 .. Len(Run(op))'
  <2>1. step \in 1 .. 8 /\ Len(Run(op)) = 8
    BY <1>2, ValidateCalls
  <2>2. step < Len(Run(op))
    BY <1>1
  <2>3. step < 8
    BY <2>1, <2>2
  <2>4. step \in 1 .. 7
    BY <2>1, <2>3
  <2>5. Run(op)' = Run(op)
    BY <1>1 DEF Run
  <2> QED BY <2>1, <2>4, <2>5, <1>1
<1>4. /\ ctx.pk = Stage(3, 5) /\ ctx.crt = Stage(3, 4)
      /\ step > 6 => args.cert.kind = "cert"
      /\ ctx \in [pk : {"none", "zero", "init", "freed"},
                  crt : {"none", "zero", "init", "freed"},
                  subject : Keys \cup {0}, issuer : Keys \cup {0},
                  pkKey : Keys \cup {0}]
      /\ keyId = 0 /\ psa = {}
  BY DEF IdentityInv, IdentityTypeOK, OneKey, Stages, Established
<1>5. UNCHANGED <<psa, keyId>>
  BY <1>2, ValidateCalls DEF Call
<1>6. ctx' = CASE step = 3 -> [ctx EXCEPT !.pk = "zero", !.crt = "zero"]
               [] step = 5 -> [ctx EXCEPT !.pk = "init"]
               [] step = 4 -> [ctx EXCEPT !.crt = "init"]
               [] OTHER -> ctx
  BY <1>1, <1>2, ValidateCalls DEF Effect
<1>7. ctx' \in [pk : {"none", "zero", "init", "freed"},
               crt : {"none", "zero", "init", "freed"},
               subject : Keys \cup {0}, issuer : Keys \cup {0},
               pkKey : Keys \cup {0}]
  BY <1>4, <1>6
<1>8. IdentityTypeOK'
  BY <1>1, <1>3, <1>5, <1>7 DEF IdentityInv, IdentityTypeOK
<1>9. OneKey'
  BY <1>1, <1>4, <1>5 DEF OneKey
<1>10. Stages'
  <2>1. ctx'.pk = (IF step' <= 3 THEN "none" ELSE IF step' <= 5 THEN "zero" ELSE "init")
    BY <1>1, <1>3, <1>4, <1>6 DEF Stage
  <2>2. ctx'.crt = (IF step' <= 3 THEN "none" ELSE IF step' <= 4 THEN "zero" ELSE "init")
    BY <1>1, <1>3, <1>4, <1>6 DEF Stage
  <2> QED BY <2>1, <2>2, <1>1 DEF Stages, Stage
<1>11. Established'
  <2>1. step = 6 => args.cert.kind = "cert"
    BY <1>1, <1>2, ValidateCalls DEF Succeeds
  <2>2. step = 7 => args.key.kind = "key"
    BY <1>1, <1>2, ValidateCalls DEF Succeeds
  <2> QED BY <2>1, <2>2, <1>1, <1>3, <1>4 DEF Established
<1>12. Passed(call) = {}
  <2>1. step >= 6 => ctx["pk"] = "init" /\ ctx["crt"] = "init"
    BY <1>3, <1>4 DEF Stage
  <2> QED BY <2>1, <1>2, ValidateCalls DEF Passed
<1>13. ContextsSound'
  BY <1>1, <1>12 DEF IdentityInv, ContextsSound
<1>14. ValidatedUsable'
  BY <1>1 DEF IdentityInv, ValidatedUsable
<1> QED BY <1>8, <1>9, <1>10, <1>11, <1>13, <1>14 DEF IdentityInv

\* The next call of server_config_from_pem or validate_ca_pem succeeds.
LEMMA ParseCall ==
  ASSUME IdentityInv, Call, op \in {"server_config", "validate_ca"}
  PROVE  IdentityInv'
<1>1. /\ step < Len(Run(op)) /\ step' = step + 1
      /\ ctx' = Effect(call) /\ raw' = raw \cup Passed(call)
      /\ UNCHANGED <<op, args, issued, valid, result>>
  BY DEF Call
<1>2. step \in 1 .. Len(Run(op)) /\ Len(Run(op)) \in {2, 4}
  BY DEF IdentityInv, IdentityTypeOK, Run
<1>3. step' \in 1 .. Len(Run(op)) /\ Run(op)' = Run(op)
  BY <1>1, <1>2 DEF Run
<1>4. UNCHANGED <<psa, keyId>> /\ ctx' = ctx /\ raw' = raw
  BY <1>1, <1>2, ParseCalls DEF Call, Effect, Passed
<1>5. IdentityTypeOK'
  BY <1>1, <1>3, <1>4 DEF IdentityInv, IdentityTypeOK
<1>6. OneKey' /\ Stages' /\ Established' /\ ContextsSound'
  BY <1>1, <1>4 DEF IdentityInv, OneKey, Stages, Established, ContextsSound
<1>7. args \in valid => (Succeeds(call))'
  <2> SUFFICES ASSUME args \in valid PROVE (Succeeds(call))'
    OBVIOUS
  <2>1. args'.cert.kind = "cert" /\ args'.key.kind = "key"
    <3>1. args.cert.kind = "cert" /\ args.key = Key(args.cert.key)
      BY DEF IdentityInv, ValidatedUsable
    <3> QED BY <3>1, <1>1 DEF Key
  <2>2. args'.cert # Nul /\ args'.key # Nul
    BY <2>1 DEF Nul
  <2>3. call' \in {"cert_c", "key_c", "Certificate", "PrivateKey"}
    <3>1. CASE op = "server_config"
      <4>1. Run(op) = <<"cert_c", "key_c", "Certificate", "PrivateKey">>
        BY <3>1 DEF Run
      <4> QED BY <4>1, <1>3 DEF call
    <3>2. CASE op = "validate_ca"
      <4>1. Run(op) = <<"cert_c", "Certificate">>
        BY <3>2 DEF Run
      <4> QED BY <4>1, <1>3 DEF call
    <3> QED BY <3>1, <3>2
  <2> QED BY <2>1, <2>2, <2>3 DEF Succeeds
<1>8. ValidatedUsable'
  BY <1>1, <1>7 DEF IdentityInv, ValidatedUsable
<1> QED BY <1>5, <1>6, <1>8 DEF IdentityInv

\* Every step keeps the invariant.
LEMMA NextIdentity == IdentityInv /\ [IdentityNext]_identityVars => IdentityInv'
<1> SUFFICES ASSUME IdentityInv, [IdentityNext]_identityVars PROVE IdentityInv'
  OBVIOUS
<1>1. CASE Begin BY <1>1, IdentityBegin
<1>2. CASE Call
  <2>1. op \in Functions
    BY <1>2 DEF Call, IdentityInv, IdentityTypeOK
  <2> QED BY <2>1, <1>2, GenerateCall, ValidateCall, ParseCall DEF Functions
<1>3. CASE Fail BY <1>3, IdentityFail
<1>4. CASE Finish BY <1>4, IdentityFinish
<1>5. CASE UNCHANGED identityVars
  <2>1. UNCHANGED <<op, step, args, ctx, keyId, psa, raw, issued, valid, result>>
    BY <1>5 DEF identityVars
  <2>2. call' = call /\ Run(op)' = Run(op)
    BY <2>1 DEF call, Run
  <2>3. IdentityTypeOK' /\ OneKey' /\ Stages' /\ Established' /\ ContextsSound'
    BY <2>1, <2>2 DEF IdentityInv, IdentityTypeOK, OneKey, Stages, Stage,
                      Established, ContextsSound
  <2>4. ValidatedUsable'
    BY <2>1, <2>2 DEF IdentityInv, ValidatedUsable, Succeeds
  <2> QED BY <2>3, <2>4 DEF IdentityInv
<1> QED BY <1>1, <1>2, <1>3, <1>4, <1>5 DEF IdentityNext

\* IdentityInvCorrect: between two calls PSA holds the one key of the call that
\* runs, and each context is as far as the straight line has taken it.
THEOREM IdentityInvCorrect == IdentitySpec => []IdentityInv
BY InitIdentity, NextIdentity, PTL DEF IdentitySpec

\* KeyDestroyedCorrect: whichever return the four functions take, however many
\* keys are made, no volatile PSA key outlives the call that made it.
THEOREM KeyDestroyedCorrect == IdentitySpec => []KeyDestroyed
<1>1. IdentityInv => KeyDestroyed
  BY DEF IdentityInv, OneKey, KeyDestroyed
<1> QED BY <1>1, IdentityInvCorrect, PTL

\* ContextsSoundCorrect: only the final free is ever passed a context that was
\* not initialised, and no filled context is left behind.
THEOREM ContextsSoundCorrect == IdentitySpec => []ContextsSound
<1>1. IdentityInv => ContextsSound
  BY DEF IdentityInv
<1> QED BY <1>1, IdentityInvCorrect, PTL

\* ValidatedUsableCorrect: an accepted pair is a certificate with its own key
\* and is not refused later, and an issued certificate is signed by its own key.
THEOREM ValidatedUsableCorrect == IdentitySpec => []ValidatedUsable
<1>1. IdentityInv => ValidatedUsable
  BY DEF IdentityInv
<1> QED BY <1>1, IdentityInvCorrect, PTL
=============================================================================
