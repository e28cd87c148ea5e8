------------------------------- MODULE Server -------------------------------
(***************************************************************************)
(* The bridge's server (crates/zutreexo-bridge/src/server.rs): one thread  *)
(* that accepts a connection, asks the limiter, reads a request, answers   *)
(* and goes on to the next connection, under the time and size limits of   *)
(* limits.rs, until it has handled as many as it was told to or accept     *)
(* returns an error.                                                       *)
(*                                                                         *)
(* A peer on the other end sends and reads as it likes, or stops.  Bytes   *)
(* come in units.  Only blocking calls take time: a tick passes when the   *)
(* thread is in read, write or accept and has nothing to go on with.       *)
(***************************************************************************)
EXTENDS RateLimiter

CONSTANTS
    read_timeout, write_timeout, request_deadline,             \* in ticks
    max_header_bytes, max_body_bytes, max_response_bytes,      \* in units
    Chunk,                  \* the most one read returns
    ReceiveBuffer, SendBuffer,                                 \* of a socket
    Limits,                 \* the connections to handle, serve_with's limit
    Requests                \* what a peer may send: the size of its headers, the body length
                            \* they declare, the lengths at which the body decodes, and the
                            \* size of the answer

ASSUME TimeoutAssumption ==
    /\ read_timeout \in Nat \ {0} /\ write_timeout \in Nat \ {0}
    /\ request_deadline \in Nat
ASSUME SizeAssumption ==
    /\ max_header_bytes \in Nat /\ max_body_bytes \in Nat /\ max_response_bytes \in Nat \ {0}
    /\ Chunk \in Nat \ {0} /\ ReceiveBuffer \in Nat \ {0} /\ SendBuffer \in Nat \ {0}
    /\ Requests \subseteq [header : Nat \ {0}, length : Nat, decodes : SUBSET Nat,
                           answer : Nat \ {0}]

Endless == -1               \* a limit that no run reaches
ASSUME LimitsAssumption == Limits \subseteq Nat \cup {Endless}

VARIABLES
    backlog,                \* peers waiting to be accepted, first come first served
    left,                   \* connections still to handle
    phase,                  \* the thread is in accept, reading headers, a body, or writing;
                            \* serve_with has returned, or has failed
    peer, request,          \* the connection being served, and what its peer means to send
    arrived, closed,        \* its receive buffer; whether the peer has closed its side
    got,                    \* units read
    elapsed, blocked,       \* since the request began, no further than past the deadline;
                            \* in the call the thread is in
    unsent, in_flight,      \* of the response: not yet written; written and not yet read
    reply,                  \* what the response says
    busy                    \* ghost: ticks since this connection was accepted, up to BusyBound + 1

connection == <<peer, request, arrived, closed, got, elapsed, blocked, unsent, in_flight, reply>>
vars == <<limiter, backlog, left, phase, connection, busy>>

NoPeer    == <<>>
NoRequest == <<>>

Waiting(p) == \E i \in DOMAIN backlog : backlog[i] = p

----------------------------------------------------------------------------
(* The peers.                                                              *)

Connect(p) ==
    /\ ~Waiting(p) /\ p # peer
    /\ backlog' = Append(backlog, p)
    /\ UNCHANGED <<limiter, left, phase, connection, busy>>

PeerSends ==
    /\ phase \in {"headers", "body"} /\ ~closed
    /\ arrived < ReceiveBuffer
    /\ arrived' = arrived + 1
    /\ UNCHANGED <<limiter, backlog, left, phase, peer, request, closed, got, elapsed, blocked,
                   unsent, in_flight, reply, busy>>

PeerCloses ==
    /\ phase \in {"headers", "body"} /\ ~closed
    /\ closed' = TRUE
    /\ UNCHANGED <<limiter, backlog, left, phase, peer, request, arrived, got, elapsed, blocked,
                   unsent, in_flight, reply, busy>>

PeerReads ==
    /\ phase = "write" /\ in_flight > 0
    /\ in_flight' = in_flight - 1
    /\ UNCHANGED <<limiter, backlog, left, phase, peer, request, arrived, closed, got, elapsed,
                   blocked, unsent, reply, busy>>

----------------------------------------------------------------------------
(* serve_with.                                                             *)

\* write_response begins: the header and the status are one unit.
Write(status, payload) ==
    /\ phase' = "write" /\ reply' = status /\ unsent' = 1 + payload /\ blocked' = 0

Accept ==
    /\ phase = "accept" /\ left # 0 /\ backlog # <<>>
    /\ left' = IF left = Endless THEN left ELSE left - 1
    /\ peer' = Head(backlog) /\ backlog' = Tail(backlog)
    /\ Allow(Head(backlog))
    /\ IF Allowed(Head(backlog))
       THEN /\ \E r \in Requests : request' = r
            /\ phase' = "headers"
            /\ UNCHANGED <<reply, unsent, blocked>>
       ELSE Write("bad_request", 0) /\ UNCHANGED request
    /\ UNCHANGED <<arrived, closed, got, elapsed, in_flight, busy>>

\* accept()? returns an error, as it does of a connection that was aborted.
AcceptFails ==
    /\ phase = "accept" /\ left # 0
    /\ phase' = "failed"
    /\ UNCHANGED <<limiter, backlog, left, connection, busy>>

\* The last connection has been handled.
Return ==
    /\ phase = "accept" /\ left = 0
    /\ phase' = "returned"
    /\ UNCHANGED <<limiter, backlog, left, connection, busy>>

\* The connection is dropped and the thread goes back to accept.
Close ==
    /\ phase' = "accept" /\ peer' = NoPeer /\ request' = NoRequest
    /\ arrived' = 0 /\ closed' = FALSE /\ got' = 0 /\ elapsed' = 0 /\ blocked' = 0
    /\ unsent' = 0 /\ in_flight' = 0 /\ reply' = "" /\ busy' = 0

----------------------------------------------------------------------------
(* serve_once_with: read_request.                                          *)

\* The body that came: what follows the headers, without what was not declared.
Body == Min({got - request.header, request.length})

\* A request is answered with what came of its body: refused if that does not
\* decode, and not sent if the answer is too large.
Respond(size) ==
    IF size \notin request.decodes THEN Write("bad_request", 0)
    ELSE IF request.answer > max_response_bytes THEN Write("internal", 0)
    ELSE Write("answer", request.answer)

\* What follows once so many units have been read.
Proceed(units) ==
    IF units < request.header THEN phase' = "headers" /\ blocked' = 0 /\ UNCHANGED <<reply, unsent>>
    ELSE IF request.length > max_body_bytes THEN Write("bad_request", 0)
    ELSE IF units < request.header + request.length
         THEN phase' = "body" /\ blocked' = 0 /\ UNCHANGED <<reply, unsent>>
    ELSE Respond(request.length)

\* Mutant: the deadline is looked at while the headers are read only.
OverdueInHeadersOnly == phase = "headers" /\ elapsed > request_deadline

\* The deadline is looked at after a read, never during one.
Overdue == elapsed > request_deadline

Read ==
    /\ phase \in {"headers", "body"} /\ arrived > 0
    /\ LET read == Min({arrived, Chunk}) IN
       /\ got' = got + read /\ arrived' = arrived - read
       /\ IF Overdue \/ (phase = "headers" /\ got + read > max_header_bytes)
          THEN Write("bad_request", 0)
          ELSE Proceed(got + read)
    /\ UNCHANGED <<limiter, backlog, left, peer, request, closed, elapsed, in_flight, busy>>

\* In the headers the end of the stream is an error; it ends a body, however
\* long that was to be, and whatever the time.
ReadEnd ==
    /\ phase \in {"headers", "body"} /\ arrived = 0 /\ closed
    /\ IF phase = "headers" THEN Write("bad_request", 0) ELSE Respond(got - request.header)
    /\ UNCHANGED <<limiter, backlog, left, peer, request, arrived, closed, got, elapsed,
                   in_flight, busy>>

\* Mutant: a read that times out ends the body.
ReadTimesOutAsEnd ==
    /\ phase \in {"headers", "body"} /\ arrived = 0 /\ ~closed /\ blocked = read_timeout
    /\ IF phase = "headers" THEN Write("bad_request", 0) ELSE Respond(got - request.header)
    /\ UNCHANGED <<limiter, backlog, left, peer, request, arrived, closed, got, elapsed,
                   in_flight, busy>>

\* Mutant: a read that times out is tried again.
ReadTimesOutAgain ==
    /\ phase \in {"headers", "body"} /\ arrived = 0 /\ ~closed /\ blocked = read_timeout
    /\ blocked' = 0
    /\ UNCHANGED <<limiter, backlog, left, phase, peer, request, arrived, closed, got, elapsed,
                   unsent, reply, in_flight, busy>>

ReadTimesOut ==
    /\ phase \in {"headers", "body"} /\ arrived = 0 /\ ~closed /\ blocked = read_timeout
    /\ Write("bad_request", 0)
    /\ UNCHANGED <<limiter, backlog, left, peer, request, arrived, closed, got, elapsed,
                   in_flight, busy>>

----------------------------------------------------------------------------
(* write_response: every write call has its own timeout.                   *)

WriteSome ==
    /\ phase = "write" /\ unsent > 0 /\ in_flight < SendBuffer
    /\ LET written == Min({unsent, SendBuffer - in_flight}) IN
       IF written = unsent THEN Close
       ELSE /\ unsent' = unsent - written /\ in_flight' = in_flight + written /\ blocked' = 0
            /\ UNCHANGED <<phase, peer, request, arrived, closed, got, elapsed, reply, busy>>
    /\ UNCHANGED <<limiter, backlog, left>>

WriteTimesOut ==
    /\ phase = "write" /\ in_flight = SendBuffer /\ blocked = write_timeout
    /\ Close
    /\ UNCHANGED <<limiter, backlog, left>>

----------------------------------------------------------------------------
Serve == Accept \/ Return \/ Read \/ ReadEnd \/ ReadTimesOut \/ WriteSome \/ WriteTimesOut

\* The deadline, the read that was under way when it passed, and one write
\* timeout for every unit of the response after the first.
BusyBound == request_deadline + read_timeout + max_response_bytes * write_timeout

BusyLonger == busy' = Min({busy + 1, BusyBound + 1})

\* A tick passes while the thread is blocked.
Tick ==
    /\ \/ phase = "accept" /\ left # 0 /\ backlog = <<>> /\ UNCHANGED <<elapsed, blocked, busy>>
       \/ /\ phase \in {"headers", "body"} /\ arrived = 0 /\ ~closed /\ blocked < read_timeout
          /\ elapsed' = Min({elapsed + 1, request_deadline + 1})
          /\ blocked' = blocked + 1 /\ BusyLonger
       \/ /\ phase = "write" /\ in_flight = SendBuffer /\ blocked < write_timeout
          /\ blocked' = blocked + 1 /\ BusyLonger /\ UNCHANGED elapsed
    /\ LimiterAges
    /\ UNCHANGED <<backlog, left, phase, peer, request, arrived, closed, got, unsent,
                   in_flight, reply>>

Init ==
    /\ LimiterInit
    /\ backlog = <<>> /\ left \in Limits /\ phase = "accept" /\ peer = NoPeer /\ request = NoRequest
    /\ arrived = 0 /\ closed = FALSE /\ got = 0 /\ elapsed = 0 /\ blocked = 0
    /\ unsent = 0 /\ in_flight = 0 /\ reply = "" /\ busy = 0

Next ==
    \/ \E p \in Peer : Connect(p)
    \/ PeerSends \/ PeerCloses \/ PeerReads
    \/ AcceptFails
    \/ Serve
    \/ Tick

\* The thread runs and time passes; no peer has to do anything.
Spec == Init /\ [][Next]_vars /\ WF_vars(Serve) /\ WF_vars(Tick)

----------------------------------------------------------------------------
(* Properties.                                                             *)

\* One connection holds the thread no longer than the deadline, the read that
\* was under way when it passed, and a write timeout for every unit of the
\* response after the first: the deadline bounds the reads only (server.rs,
\* read_request and write_response).
BusyTimeIsBounded == busy <= BusyBound

\* What is answered is a body that decodes, of a declared length that is small
\* enough, and either all of it came in time or the peer ended it: a body that
\* was cut off by a timeout is never answered (server.rs, read_request and
\* serve_once_with).
AnsweredBodiesAreWholeOrEnded ==
    reply = "answer" =>
        /\ Body \in request.decodes /\ request.length <= max_body_bytes
        /\ \/ Body = request.length /\ elapsed <= request_deadline
           \/ Body < request.length /\ closed

\* However the peers before it behave, whoever waits to be accepted is, unless
\* the server ends first: after its last connection, or when accept returns an
\* error (server.rs, serve_with).
EveryoneIsAccepted ==
    \A p \in Peer : Waiting(p) ~> peer = p \/ phase \in {"returned", "failed"}
=============================================================================
