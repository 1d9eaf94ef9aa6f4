----------------------------- MODULE TlsSocket -----------------------------
(***************************************************************************)
(* connect_client and TlsSocket (services/tls/src/lib.rs): how a TLS       *)
(* session is established, and how picoserve then uses it through two      *)
(* halves that share one mutex.  read, write, flush and write_with take    *)
(* the mutex and keep it across the session's own await, so a half that    *)
(* waits for the peer keeps the other half out.                            *)
(*                                                                         *)
(* The bytes written are numbered in the order the server produces them.   *)
(* The session, the TCP socket and picoserve are external: a session       *)
(* write takes up to one record, a future may be dropped at an await.      *)
(***************************************************************************)
EXTENDS Integers, Sequences

CONSTANTS
  BUFFER,      \* size of write_with's buffer (1024 bytes)
  MaxRecord,   \* most bytes one session write takes
  Room,        \* room of the TCP send buffer, in records
  MaxBytes,    \* bound: bytes the server produces
  MaxReads     \* bound: reads the server begins

ASSUME TlsAssumption ==
  /\ BUFFER \in Nat \ {0} /\ Room \in Nat \ {0}
  /\ MaxRecord \in Nat /\ MaxRecord >= BUFFER
  /\ MaxBytes \in Nat /\ MaxReads \in Nat

VARIABLES
  timeouts,    \* the server drops a read or a write that takes too long
  phase,       \* how far the connection is
  tcp,         \* the TCP socket: none yet, open, or dropped with its session
  lock,        \* the half that holds the session's mutex, or "free"
  rd,          \* the read half
  wr,          \* the write half
  rest,        \* what is left of the buffer being written: [from, to]
  produced,    \* how many bytes the server has produced
  sent,        \* the bytes that went into records, in order
  room,        \* records the send buffer can still take
  rx,          \* records of the peer waiting to be read
  peer,        \* whether the peer is there
  reads        \* reads begun

vars == <<timeouts, phase, tcp, lock, rd, wr, rest, produced, sent, room, rx,
          peer, reads>>
half == <<timeouts, phase, tcp>>

Steps  == <<"ca", "dns", "tcp", "session", "handshake", "open">>

Init ==
  /\ timeouts \in BOOLEAN
  /\ phase = "ca" /\ tcp = "none"
  /\ lock = "free" /\ rd = "idle" /\ wr = "idle"
  /\ rest = [op |-> "write", from |-> 1, to |-> 0]
  /\ produced = 0 /\ sent = <<>> /\ room = Room /\ rx = 0
  /\ peer = "here" /\ reads = 0

-----------------------------------------------------------------------------
(* connect_client: each step succeeds, or fails and drops the socket       *)

NextPhase(p) == Steps[(CHOOSE i \in 1 .. 5 : Steps[i] = p) + 1]

Connect ==
  /\ phase \in {Steps[i] : i \in 1 .. 5}
  /\ \/ /\ phase' = NextPhase(phase)
        /\ tcp' = IF phase = "tcp" THEN "open" ELSE tcp
     \/ /\ phase' = "failed"
        /\ tcp' = IF tcp = "open" THEN "dropped" ELSE tcp
  /\ UNCHANGED <<timeouts, lock, rd, wr, rest, produced, sent, room, rx, peer,
                 reads>>

-----------------------------------------------------------------------------
(* The halves                                                              *)

StartRead ==
  /\ phase = "open" /\ rd = "idle" /\ reads < MaxReads
  /\ rd' = "lock" /\ reads' = reads + 1
  /\ UNCHANGED <<half, lock, wr, rest, produced, sent, room, rx, peer>>

\* write_with's buffer grows with what its closure writes.
capacity_grows(op) == MaxBytes

\* What one call is given: write_with's closure fills at most the buffer.
capacity(op) == IF op = "write_with" THEN BUFFER ELSE MaxBytes

\* write_with runs its closure before it asks for the mutex.
StartWrite == \E op \in {"write", "write_with"}, n \in 1 .. MaxBytes :
  /\ phase = "open" /\ wr = "idle" /\ produced + n <= MaxBytes
  /\ n <= capacity(op)
  /\ wr' = "lock" /\ produced' = produced + n
  /\ rest' = [op |-> op, from |-> produced + 1, to |-> produced + n]
  /\ UNCHANGED <<half, lock, rd, sent, room, rx, peer, reads>>

\* A flush follows writes.
StartFlush ==
  /\ phase = "open" /\ wr = "idle" /\ rest.op # "flush"
  /\ wr' = "flush_lock" /\ rest' = [rest EXCEPT !.op = "flush"]
  /\ UNCHANGED <<half, lock, rd, produced, sent, room, rx, peer, reads>>

AcquireRead ==
  /\ lock = "free" /\ rd = "lock"
  /\ lock' = "rd" /\ rd' = "read"
  /\ UNCHANGED <<half, wr, rest, produced, sent, room, rx, peer, reads>>

\* The write half does not wait for the mutex.
AcquireWrite_unlocked ==
  /\ wr \in {"lock", "flush_lock"}
  /\ lock' = "wr" /\ wr' = IF wr = "lock" THEN "write" ELSE "flush"
  /\ UNCHANGED <<half, rd, rest, produced, sent, room, rx, peer, reads>>

AcquireWrite ==
  /\ lock = "free" /\ wr \in {"lock", "flush_lock"}
  /\ lock' = "wr" /\ wr' = IF wr = "lock" THEN "write" ELSE "flush"
  /\ UNCHANGED <<half, rd, rest, produced, sent, room, rx, peer, reads>>

\* The end of the connection is reported without giving the mutex back.
ReadDone_keep ==
  /\ rd = "read" /\ (rx > 0 \/ peer = "gone")
  /\ rd' = "idle" /\ lock' = IF rx > 0 THEN "free" ELSE lock
  /\ rx' = IF rx > 0 THEN rx - 1 ELSE 0
  /\ UNCHANGED <<half, wr, rest, produced, sent, room, peer, reads>>

\* The session's read returns: a record, or the end of the connection.
ReadDone ==
  /\ rd = "read" /\ (rx > 0 \/ peer = "gone")
  /\ rd' = "idle" /\ lock' = "free"
  /\ rx' = IF rx > 0 THEN rx - 1 ELSE 0
  /\ UNCHANGED <<half, wr, rest, produced, sent, room, peer, reads>>

Bytes(a, b) == [i \in 1 .. b - a + 1 |-> a + i - 1]

\* The session's write takes one record.  The caller of write goes on with
\* what is left; write_with is done whatever was taken.
WriteDone ==
  /\ wr = "write" /\ room > 0 /\ peer = "here"
  /\ lock' = "free" /\ room' = room - 1
  /\ LET left == rest.to - rest.from + 1
         n    == IF left < MaxRecord THEN left ELSE MaxRecord
     IN  /\ sent' = sent \o Bytes(rest.from, rest.from + n - 1)
         /\ rest' = [rest EXCEPT !.from = @ + n]
         /\ wr' = IF n < left /\ rest.op = "write" THEN "lock" ELSE "idle"
  /\ UNCHANGED <<half, rd, produced, rx, peer, reads>>

\* flush waits until the send buffer is empty.
FlushDone ==
  /\ wr = "flush" /\ room = Room /\ peer = "here"
  /\ wr' = "idle" /\ lock' = "free"
  /\ UNCHANGED <<half, rd, rest, produced, sent, room, rx, peer, reads>>

\* A write or a flush fails once the peer is gone; the server writes no more.
WriteFails ==
  /\ wr \in {"write", "flush"} /\ peer = "gone"
  /\ wr' = "failed" /\ lock' = "free"
  /\ UNCHANGED <<half, rd, rest, produced, sent, room, rx, peer, reads>>

\* The guard outlives the future that took it.
unlock_leak(h) == lock

\* Dropping a future drops the guard it may hold.
unlock(h) == IF lock = h THEN "free" ELSE lock

DropRead ==
  /\ timeouts /\ phase = "open" /\ rd # "idle"
  /\ rd' = "idle" /\ lock' = unlock("rd")
  /\ UNCHANGED <<half, wr, rest, produced, sent, room, rx, peer, reads>>

\* A write dropped half-way may have sent some of its bytes: the server only
\* closes the connection after it.
DropWrite == \E n \in 0 .. MaxRecord :
  /\ timeouts /\ phase = "open" /\ wr \notin {"idle", "failed"}
  /\ n <= IF wr = "write" /\ room > 0 THEN rest.to - rest.from + 1 ELSE 0
  /\ sent' = sent \o Bytes(rest.from, rest.from + n - 1)
  /\ wr' = "failed" /\ lock' = unlock("wr")
  /\ UNCHANGED <<half, rd, rest, produced, room, rx, peer, reads>>

-----------------------------------------------------------------------------
(* abort and shutdown take the session, so no half is left.  The return of *)
(* either drops session and socket in the very poll of the socket's abort   *)
(* or close: nothing lets the stack run in between.                        *)

HalvesGone == phase = "open" /\ rd = "idle" /\ wr \in {"idle", "failed"}

Abort ==
  /\ HalvesGone
  /\ tcp' = "dropped" /\ phase' = "done"
  /\ UNCHANGED <<timeouts, lock, rd, wr, rest, produced, sent, room, rx, peer,
                 reads>>

Shutdown ==
  /\ HalvesGone
  /\ phase' = "closing"
  /\ UNCHANGED <<timeouts, tcp, lock, rd, wr, rest, produced, sent, room, rx,
                 peer, reads>>

\* session.close().await: it is given no timeout, and its result is ignored.
CloseNotify ==
  /\ phase = "closing" /\ (peer = "here" => room > 0)
  /\ tcp' = "dropped" /\ phase' = "done"
  /\ UNCHANGED <<timeouts, lock, rd, wr, rest, produced, sent, room, rx, peer,
                 reads>>

-----------------------------------------------------------------------------
(* The peer                                                                *)

PeerSends ==
  /\ phase = "open" /\ peer = "here" /\ rx = 0 /\ rx' = 1
  /\ UNCHANGED <<half, lock, rd, wr, rest, produced, sent, room, peer, reads>>

PeerReads ==
  /\ peer = "here" /\ room < Room /\ room' = Room
  /\ UNCHANGED <<half, lock, rd, wr, rest, produced, sent, rx, peer, reads>>

PeerGoes ==
  /\ phase \in {"open", "closing"} /\ peer = "here" /\ peer' = "gone"
  /\ UNCHANGED <<half, lock, rd, wr, rest, produced, sent, room, rx, reads>>

Next ==
  \/ Connect \/ StartRead \/ StartWrite \/ StartFlush
  \/ AcquireRead \/ AcquireWrite
  \/ ReadDone \/ WriteDone \/ FlushDone \/ WriteFails
  \/ DropRead \/ DropWrite
  \/ Abort \/ Shutdown \/ CloseNotify
  \/ PeerSends \/ PeerReads \/ PeerGoes

Spec == Init /\ [][Next]_vars

\* The executor polls a task that was woken; the server's read timeout fires.
Fairness ==
  /\ WF_vars(AcquireRead) /\ WF_vars(AcquireWrite) /\ WF_vars(ReadDone)
  /\ WF_vars(WriteDone) /\ WF_vars(FlushDone) /\ WF_vars(WriteFails)
  /\ WF_vars(CloseNotify) /\ WF_vars(DropRead)

FairSpec == Spec /\ Fairness

-----------------------------------------------------------------------------
\* The bytes on the wire are the bytes the server produced, in order, and a
\* write that has succeeded has sent all of them.
SentExact ==
  /\ \A i \in DOMAIN sent : sent[i] = i
  /\ wr = "idle" /\ peer = "here" => Len(sent) = produced

\* The mutex is held exactly by the half that is inside the session: a
\* dropped future leaves no guard behind, and the two halves never use the
\* session at once.
OneInside ==
  /\ lock = "rd" <=> rd = "read"
  /\ lock = "wr" <=> wr \in {"write", "flush"}

\* What is inside the session waits for the peer.
OnPeer ==
  \/ rd = "read" /\ rx = 0 /\ peer = "here"
  \/ wr = "write" /\ room = 0 /\ peer = "here"
  \/ wr = "flush" /\ room < Room /\ peer = "here"
  \/ phase = "closing" /\ room = 0 /\ peer = "here"

Busy == rd # "idle" \/ wr \notin {"idle", "failed"} \/ phase = "closing"

\* The halves never block each other on their own: an operation that never
\* ends waits, itself or through the mutex, for a peer that neither sends nor
\* reads.
OnlyPeerBlocks == [](Busy => <>(~Busy \/ OnPeer))

\* With the server's read timeout the read half gives the mutex back however
\* long the peer is silent: one read never shuts the write half out for good.
ReadLetsGo == timeouts /\ lock = "rd" ~> lock # "rd"
=============================================================================
