---------------------------- MODULE TlsIdentity ----------------------------
(***************************************************************************)
(* Certificates and keys of the TLS service (services/tls/src/lib.rs):     *)
(* generate_self_signed_identity, validate_cert_key_pair,                  *)
(* server_config_from_pem and validate_ca_pem.  Each is a straight line of *)
(* MbedTLS and PSA calls with an early return after most of them, and the  *)
(* Drop of its contexts runs at whichever return is taken.                 *)
(*                                                                         *)
(* A PEM text is abstracted to what it holds: the key it is for and, for a *)
(* certificate, the key that signed it.                                    *)
(***************************************************************************)
EXTENDS Integers, Sequences

CONSTANT MaxKeys     \* bound: PSA keys generated

ASSUME IdentityAssumption == MaxKeys \in Nat

VARIABLES
  op, step,          \* the function running, and its next call
  args,              \* its PEM arguments
  ctx,               \* its contexts: what became of each, what it holds
  keyId,             \* its key_id, 0 for none
  psa,               \* the keys PSA holds
  raw,               \* calls that were passed a context never initialised
  issued,            \* identities returned by generate
  valid,             \* pairs that validate has accepted
  result             \* what the last function returned

identityVars == <<op, step, args, ctx, keyId, psa, raw, issued, valid, result>>

Keys == 1 .. MaxKeys
Nul  == [kind |-> "nul", key |-> 0, signer |-> 0]    \* a NUL inside the text
Junk == [kind |-> "junk", key |-> 0, signer |-> 0]
Cert(k, s) == [kind |-> "cert", key |-> k, signer |-> s]
Key(k)     == [kind |-> "key", key |-> k, signer |-> 0]

Pem == {Nul, Junk} \cup {Cert(k, s) : k, s \in Keys \cup {0}}
                   \cup {Key(k) : k \in Keys}

NoContexts == [pk |-> "none", crt |-> "none", subject |-> 0, issuer |-> 0,
               pkKey |-> 0]

Run(f) == CASE
  f = "generate" -> <<"subject", "contexts", "psa_crypto_init",
      "psa_generate_key", "pk_init", "pk_copy_from_psa", "crt_init",
      "set_subject_name", "set_issuer_name", "set_subject_key",
      "set_issuer_key", "set_serial_raw", "set_validity", "set_md_alg",
      "set_basic_constraints", "write_key_pem", "crt_pem", "pem_string">>
  [] f = "validate" -> <<"cert_c", "key_c", "contexts", "crt_init", "pk_init",
      "crt_parse", "pk_parse_key", "check_pair">>
  [] f = "server_config" -> <<"cert_c", "key_c", "Certificate", "PrivateKey">>
  [] f = "validate_ca" -> <<"cert_c", "Certificate">>

\* The calls that cannot fail.
Infallible == {"contexts", "pk_init", "crt_init", "set_subject_key",
               "set_issuer_key", "set_md_alg"}

\* The contexts each call is passed.
Uses(c) == CASE
  c \in {"pk_copy_from_psa", "pk_parse_key", "write_key_pem"} -> {"pk"}
  [] c \in {"set_subject_name", "set_issuer_name", "set_serial_raw",
            "set_validity", "set_md_alg", "set_basic_constraints",
            "crt_parse"} -> {"crt"}
  [] c \in {"set_subject_key", "set_issuer_key", "crt_pem", "check_pair"} ->
       {"pk", "crt"}
  [] OTHER -> {}

IdentityInit ==
  /\ op = "idle" /\ step = 1 /\ args = [cert |-> Junk, key |-> Junk]
  /\ ctx = NoContexts /\ keyId = 0 /\ psa = {} /\ raw = {} /\ issued = {}
  /\ valid = {} /\ result = "none"

\* The texts an application may hand in.
Texts == {Nul, Junk} \cup {i.cert : i \in issued} \cup {i.key : i \in issued}

Begin == \E f \in {"generate", "validate", "server_config", "validate_ca"},
            c, k \in Texts :
  /\ op = "idle"
  /\ f \in {"generate", "validate_ca"} => k = Junk
  /\ f = "generate" => c = Junk
  /\ op' = f /\ step' = 1 /\ args' = [cert |-> c, key |-> k]
  /\ ctx' = NoContexts /\ keyId' = 0 /\ result' = "none"
  /\ UNCHANGED <<psa, raw, issued, valid>>

-----------------------------------------------------------------------------
(* Drop for Contexts, at every return                                      *)

\* The key is only destroyed when the contexts were set up.
destroy_key_late(id) == IF ctx.crt = "init" THEN psa \ {id} ELSE psa

destroy_key(id) == IF id # 0 THEN psa \ {id} ELSE psa

Drop ==
  /\ psa' = destroy_key(keyId)
  /\ ctx' = IF ctx.pk = "none" THEN ctx
            ELSE [ctx EXCEPT !.pk = "freed", !.crt = "freed"]
  /\ raw' = raw \cup
       {<<"drop", x>> : x \in {y \in {"pk", "crt"} : ctx[y] = "zero"}}

Return(r) ==
  /\ op' = "idle" /\ step' = 1 /\ result' = r /\ keyId' = 0
  /\ Drop
  /\ UNCHANGED args

-----------------------------------------------------------------------------
(* One call                                                                *)

call == Run(op)[step]

\* The pairing is not checked.
Succeeds_unpaired(c) ==
  CASE c = "subject" -> TRUE
    [] c = "cert_c" -> args.cert # Nul
    [] c = "key_c" -> args.key # Nul
    [] c \in {"crt_parse", "Certificate"} -> args.cert.kind = "cert"
    [] c \in {"pk_parse_key", "PrivateKey"} -> args.key.kind = "key"
    [] OTHER -> TRUE

\* Whether the arguments let a call succeed.  Parsing accepts a well-formed
\* text of its kind, check_pair a certificate of that key.
Succeeds(c) ==
  CASE c = "subject" -> TRUE
    [] c = "cert_c" -> args.cert # Nul
    [] c = "key_c" -> args.key # Nul
    [] c \in {"crt_parse", "Certificate"} -> args.cert.kind = "cert"
    [] c \in {"pk_parse_key", "PrivateKey"} -> args.key.kind = "key"
    [] c = "check_pair" -> args.cert.key = args.key.key
    [] OTHER -> TRUE

\* Calls that may also fail for want of memory or entropy.
MayFail(c) == ~Succeeds(c) \/ (op = "generate" /\ c \notin Infallible)

\* set_issuer_key: who signs the certificate.
issuer_of == ctx.pkKey

\* The certificate context is initialised after the names are set.
Effect_late(c) ==
  CASE c = "contexts" -> [ctx EXCEPT !.pk = "zero", !.crt = "zero"]
    [] c = "pk_init"  -> [ctx EXCEPT !.pk = "init"]
    [] c = "set_issuer_name"  -> [ctx EXCEPT !.crt = "init"]
    [] c = "pk_copy_from_psa" -> [ctx EXCEPT !.pkKey = keyId]
    [] c = "set_subject_key"  -> [ctx EXCEPT !.subject = ctx.pkKey]
    [] c = "set_issuer_key"   -> [ctx EXCEPT !.issuer = issuer_of]
    [] OTHER -> ctx

\* What the contexts hold after the call.
Effect(c) ==
  CASE c = "contexts" -> [ctx EXCEPT !.pk = "zero", !.crt = "zero"]
    [] c = "pk_init"  -> [ctx EXCEPT !.pk = "init"]
    [] c = "crt_init" -> [ctx EXCEPT !.crt = "init"]
    [] c = "pk_copy_from_psa" -> [ctx EXCEPT !.pkKey = keyId]
    [] c = "set_subject_key"  -> [ctx EXCEPT !.subject = ctx.pkKey]
    [] c = "set_issuer_key"   -> [ctx EXCEPT !.issuer = issuer_of]
    [] OTHER -> ctx

Passed(c) == {<<c, x>> : x \in {y \in Uses(c) : ctx[y] # "init"}}

Call ==
  /\ op # "idle" /\ Succeeds(call)
  /\ step < Len(Run(op))
  /\ step' = step + 1 /\ ctx' = Effect(call) /\ raw' = raw \cup Passed(call)
  /\ IF call = "psa_generate_key"
     THEN \E k \in Keys \ {i.key.key : i \in issued} :
            /\ psa' = psa \cup {k} /\ keyId' = k
     ELSE UNCHANGED <<psa, keyId>>
  /\ UNCHANGED <<op, args, issued, valid, result>>

Fail ==
  /\ op # "idle" /\ MayFail(call)
  /\ Return("err")
  /\ UNCHANGED <<issued, valid>>

Finish ==
  /\ op # "idle" /\ Succeeds(call) /\ step = Len(Run(op))
  /\ Return("ok")
  /\ issued' = IF op = "generate"
               THEN issued \cup {[cert |-> Cert(ctx.subject, ctx.issuer),
                                  key  |-> Key(ctx.pkKey)]}
               ELSE issued
  /\ valid' = IF op = "validate" THEN valid \cup {args} ELSE valid

IdentityNext == Begin \/ Call \/ Fail \/ Finish

IdentitySpec == IdentityInit /\ [][IdentityNext]_identityVars

-----------------------------------------------------------------------------
\* KeyDestroyed: the volatile PSA key never outlives the call that made it, whichever of
\* its returns is taken.
KeyDestroyed == op = "idle" => psa = {}

\* ContextsSound: every MbedTLS call before the final free is passed contexts
\* that were initialised and not yet freed, and a context that MbedTLS filled is
\* freed when the function has returned.
ContextsSound ==
  /\ \A u \in raw : u[1] = "drop"
  /\ op = "idle" => "init" \notin {ctx.pk, ctx.crt}

\* ValidatedUsable: what validate_cert_key_pair accepts is a certificate and
\* its own key, and server_config_from_pem, which does not look at the pairing
\* again, has no reason to refuse it later; a generated identity would pass the
\* same check, and is signed by itself.
ValidatedUsable ==
  /\ \A i \in issued : i.key.key \in Keys /\ i.cert = Cert(i.key.key, i.key.key)
  /\ \A p \in valid : p.cert.kind = "cert" /\ p.key = Key(p.cert.key)
  /\ op = "server_config" /\ args \in valid => Succeeds(call)

\* What holds between any two calls, and the proofs build on.
Functions == {"generate", "validate", "server_config", "validate_ca"}

IdentityTypeOK ==
  /\ op \in Functions \cup {"idle"}
  /\ op # "idle" => step \in 1 .. Len(Run(op))
  /\ args \in [cert : Pem, key : Pem]
  /\ ctx \in [pk : {"none", "zero", "init", "freed"},
              crt : {"none", "zero", "init", "freed"},
              subject : Keys \cup {0}, issuer : Keys \cup {0},
              pkKey : Keys \cup {0}]
  /\ keyId \in Keys \cup {0}
  /\ issued \subseteq [cert : Pem, key : Pem]

\* Only generate makes a key, and PSA holds the one of the call that runs.
OneKey ==
  /\ psa = IF keyId = 0 THEN {} ELSE {keyId}
  /\ keyId # 0 <=> op = "generate" /\ step > 4

\* A context's state once it is set up after s calls and initialised after i.
Stage(s, i) == IF step <= s THEN "none" ELSE IF step <= i THEN "zero" ELSE "init"

\* How far each function's contexts are before its next call.
Stages ==
  /\ op = "idle" => "init" \notin {ctx.pk, ctx.crt}
  /\ op = "generate" => ctx.pk = Stage(2, 5) /\ ctx.crt = Stage(2, 7)
  /\ op = "validate" => ctx.pk = Stage(3, 5) /\ ctx.crt = Stage(3, 4)
  /\ op \in {"server_config", "validate_ca"} => ctx.pk = "none" /\ ctx.crt = "none"
  /\ ctx.pk = "none" <=> ctx.crt = "none"

\* What the calls so far have established of the texts and the contexts.
Established ==
  /\ op = "generate" => /\ step > 6 => ctx.pkKey = keyId
                        /\ step > 10 => ctx.subject = ctx.pkKey
                        /\ step > 11 => ctx.issuer = ctx.pkKey
  /\ op = "validate" => /\ step > 6 => args.cert.kind = "cert"
                        /\ step > 7 => args.key.kind = "key"

IdentityInv ==
  /\ IdentityTypeOK /\ OneKey /\ Stages /\ Established
  /\ ContextsSound /\ ValidatedUsable

\* FreesInitialised: the Drop's comment, that the contexts it frees were initialised (generate's
\* early returns before pk_init and crt_init run it too).
FreesInitialised == \A u \in raw : u[1] # "drop"
=============================================================================
