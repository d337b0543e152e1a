---------------------------- MODULE FrameWrites ----------------------------
(***************************************************************************)
(* The frames of one TCP connection, from the server to the client:        *)
(* WriteFrame and its callers (internal/transport/tcp/tcp.go,              *)
(* internal/server/server_secure.go, server_sessions.go, tunnel_types.go)  *)
(* and the two readers, Receive of internal/transport/tcp and              *)
(* readFrameWithTimeout of internal/winclient/frame_io.go.                 *)
(*                                                                         *)
(* A frame is a length and a body, written by two calls.  Each is two      *)
(* units here, so that a deadline may fall inside either.  The goroutine   *)
(* of the connection and the relay write to one socket: replies and        *)
(* packets under the writeMu of their connState, handshake frames and      *)
(* errors under none.                                                      *)
(***************************************************************************)
EXTENDS Naturals, Sequences
CONSTANTS
  MaxStates,   \* connState objects the connection may get (bound)
  MaxFrames,   \* frames the server may begin to write (bound)
  MaxAsks,     \* frames the client may send (bound)
  MaxLength    \* units of a body announced by a misread length (bound)

ASSUME BoundsAreNumbers ==
  MaxStates \in Nat /\ MaxFrames \in Nat /\ MaxAsks \in Nat /\ MaxLength \in Nat

VARIABLES
  open,       \* is the connection open on both sides
  entry,      \* the state conns has for it, or 0
  states,     \* how many states it has had
  tunnelled,  \* the states with tunnelEnabled
  mu,         \* writeMu of each state: its holder
  conn,       \* the goroutine of the connection
  relay,      \* the relay
  frames,     \* history: the frames whose length has been written
  torn,       \* history: pairs of a frame and one written into its middle
  stream,     \* the units the client has not read yet
  kind,       \* the client: "tunnel" is a tunnel session of winclient,
              \*   "asker" is internal/client, or winclient without tunnel
  asks,       \* how many frames it has sent
  unread,     \* how many of those the server has not read
  rd,         \* its reader
  taken,      \* the frames it has accepted
  late        \* history: a deadline fell inside a frame

lock   == <<mu, tunnelled>>
output == <<frames, torn, stream>>
client == <<kind, asks, rd, taken, late>>
vars   == <<open, entry, states, lock, conn, relay, output, unread, client>>

States == 1..MaxStates
\* hs is the ack or ready frame: the handshake is one question and one answer.
Kinds == {"hs", "data", "error"}
Units == [f : 1..MaxFrames, part : 1..4]

\* A writer: its place, the state it writes for, the kind and, once the
\* length is written, the number of the frame.
Writers == [pc : {"read", "lock", "head", "body", "close"}, g : 0..MaxStates,
            kind : Kinds, f : 0..MaxFrames]
Reading(w) == w.pc = "read"
Rest == [pc |-> "read", g |-> 0, kind |-> "data", f |-> 0]

-----------------------------------------------------------------------------
(* WriteFrame.                                                             *)

\* The frames in whose middle the other writer is.
OpenFrames(w) == IF w.pc = "body" THEN {w.f} ELSE {}
Tear(other, f) == torn' = torn \cup (OpenFrames(other) \X {f})
Part(f, i) == [f |-> f, part |-> i]

\* The length goes out, as a number of bytes; the frame gets a number here.
PutHead(w, other) ==
  /\ w.pc = "head" /\ open /\ Len(frames) < MaxFrames
  /\ frames' = Append(frames, [kind |-> w.kind, g |-> w.g])
  /\ stream' = stream \o <<Part(Len(frames) + 1, 1), Part(Len(frames) + 1, 2)>>
  /\ Tear(other, Len(frames) + 1)

PutBody(w, other) ==
  /\ w.pc = "body" /\ open
  /\ stream' = stream \o <<Part(w.f, 3), Part(w.f, 4)>>
  /\ Tear(other, w.f)
  /\ UNCHANGED frames

\* A write to a closed connection fails; a payload above 65535 bytes is
\* refused before its length is written.
PutFails(w) ==
  /\ \/ w.pc = "head" /\ w.kind = "data"
     \/ w.pc \in {"head", "body"} /\ ~open
  /\ UNCHANGED output

\* Mutant: the mutex is not taken.
TakeMu_none(g, who) == UNCHANGED mu
TakeMu(g, who) == mu[g] = "free" /\ mu' = [mu EXCEPT ![g] = who]
\* Mutant: a write that fails returns without it.
LeaveMu_open(w) == mu' = IF w.kind = "data" /\ open THEN [mu EXCEPT ![w.g] = "free"] ELSE mu
\* The deferred Unlock.
LeaveMu(w) == mu' = IF w.kind = "data" THEN [mu EXCEPT ![w.g] = "free"] ELSE mu

-----------------------------------------------------------------------------
(* The goroutine of the connection.                                        *)

Hears ==
  /\ Reading(conn) /\ unread > 0
  /\ unread' = unread - 1

\* getConnState makes a state, the handshake ends and its frame is written
\* without the mutex.
HearHello ==
  /\ Hears
  /\ entry = 0 /\ states < MaxStates
  /\ states' = states + 1 /\ entry' = states + 1
  /\ conn' = [Rest EXCEPT !.pc = "head", !.kind = "hs", !.g = states + 1]
  /\ UNCHANGED <<open, lock, relay, output, client>>

\* A reply to a data frame.
HearEcho ==
  /\ Hears
  /\ entry # 0
  /\ conn' = [Rest EXCEPT !.pc = "lock", !.g = entry]
  /\ UNCHANGED <<open, entry, states, lock, relay, output, client>>

\* failConn begins: its frame is the next to be written.
Failing == [Rest EXCEPT !.pc = "head", !.kind = "error", !.g = entry]

\* A packet for the device; only a tunnel session sends any.  The device may
\* refuse it, after tunnelEnabled was set.
HearPacket ==
  /\ Hears
  /\ entry # 0 /\ kind = "tunnel"
  /\ tunnelled' = tunnelled \cup {entry}
  /\ conn' \in {conn, Failing}
  /\ UNCHANGED <<open, entry, states, mu, relay, output, client>>

\* Every other frame that is refused.
HearBad ==
  /\ Hears
  /\ conn' = Failing
  /\ UNCHANGED <<open, entry, states, lock, relay, output, client>>

ConnLocks ==
  /\ conn.pc = "lock" /\ TakeMu(conn.g, "conn")
  /\ conn' = [conn EXCEPT !.pc = "head"]
  /\ UNCHANGED <<open, entry, states, tunnelled, relay, output, unread, client>>

ConnPutsHead ==
  /\ PutHead(conn, relay)
  /\ conn' = [conn EXCEPT !.pc = "body", !.f = Len(frames) + 1]
  /\ UNCHANGED <<open, entry, states, lock, relay, unread, client>>

\* After an error frame the connection is closed.
After(w) == IF w.kind = "error" THEN [w EXCEPT !.pc = "close"] ELSE Rest

ConnPutsBody ==
  /\ PutBody(conn, relay)
  /\ conn' = After(conn) /\ LeaveMu(conn)
  /\ UNCHANGED <<open, entry, states, tunnelled, relay, unread, client>>

\* removeConnState; failConn ignores the error.
ConnFails ==
  /\ PutFails(conn)
  /\ conn' = After(conn) /\ LeaveMu(conn)
  /\ entry' = IF conn.kind = "error" THEN entry ELSE 0
  /\ UNCHANGED <<open, states, tunnelled, relay, unread, client>>

\* failConn: Close and removeConnState.
ConnCloses ==
  /\ conn.pc = "close"
  /\ conn' = Rest /\ open' = FALSE /\ entry' = 0
  /\ UNCHANGED <<states, lock, relay, output, unread, client>>

-----------------------------------------------------------------------------
(* The relay, the UDP listener, the reaper and the network.                *)

\* findSecureConnState.
RelayPicks ==
  /\ Reading(relay)
  /\ entry \in tunnelled
  /\ relay' = [Rest EXCEPT !.pc = "lock", !.g = entry]
  /\ UNCHANGED <<open, entry, states, lock, conn, output, unread, client>>

RelayLocks ==
  /\ relay.pc = "lock" /\ TakeMu(relay.g, "relay")
  /\ relay' = [relay EXCEPT !.pc = "head"]
  /\ UNCHANGED <<open, entry, states, tunnelled, conn, output, unread, client>>

RelayPutsHead ==
  /\ PutHead(relay, conn)
  /\ relay' = [relay EXCEPT !.pc = "body", !.f = Len(frames) + 1]
  /\ UNCHANGED <<open, entry, states, lock, conn, unread, client>>

RelayPutsBody ==
  /\ PutBody(relay, conn)
  /\ relay' = Rest /\ LeaveMu(relay)
  /\ UNCHANGED <<open, entry, states, tunnelled, conn, unread, client>>

\* The relay ignores the error.
RelayFails ==
  /\ PutFails(relay)
  /\ relay' = Rest /\ LeaveMu(relay)
  /\ UNCHANGED <<open, entry, states, tunnelled, conn, unread, client>>

\* A datagram with a packet: the client has the session id from the ready
\* frame of that state.
UdpPacket ==
  /\ kind = "tunnel" /\ entry # 0
  /\ \E i \in 1..Len(taken) : frames[taken[i]] = [kind |-> "hs", g |-> entry]
  /\ tunnelled' = tunnelled \cup {entry}
  /\ UNCHANGED <<open, entry, states, mu, conn, relay, output, unread, client>>

\* The reaper takes the entry, and closes the connection later.
Reap ==
  /\ entry # 0 /\ entry' = 0
  /\ UNCHANGED <<open, states, lock, conn, relay, output, unread, client>>

Close ==
  /\ open /\ open' = FALSE
  /\ UNCHANGED <<entry, states, lock, conn, relay, output, unread, client>>

-----------------------------------------------------------------------------
(* The client.                                                             *)

InSession == taken # <<>>
NewRead == [pc |-> "head", need |-> 2, got |-> <<>>]
Idle  == [NewRead EXCEPT !.pc = "idle"]
Ended == [NewRead EXCEPT !.pc = "ended"]
server == <<entry, states, lock, conn, relay, frames, torn>>

\* The first frame of a session, and every probe of internal/client.
Ask ==
  /\ rd = Idle /\ asks < MaxAsks
  /\ asks' = asks + 1 /\ unread' = unread + 1
  /\ rd' = NewRead
  /\ UNCHANGED <<server, open, stream, kind, taken, late>>

\* The goroutine from the device to the server sends at any time.
Send ==
  /\ kind = "tunnel" /\ InSession /\ rd.pc # "ended" /\ asks < MaxAsks
  /\ asks' = asks + 1 /\ unread' = unread + 1
  /\ UNCHANGED <<server, open, stream, kind, rd, taken, late>>

\* An error ends the session and closes the connection.
End == rd' = Ended /\ open' = FALSE

\* Receive makes a bufio.Reader for one frame, and loses what it read ahead.
\* Mutant: so does the reader of the tunnel.
ReadsAhead_both == TRUE
ReadsAhead == kind = "asker"
Rests(s) == IF ReadsAhead THEN {SubSeq(s, k, Len(s)) : k \in 1..(Len(s) + 1)} ELSE {s}

\* Only a whole frame of the kind that is due parses and decrypts.
Whole(u) == Len(u) = 2 /\ u[1].part = 3 /\ u[2] = Part(u[1].f, 4)
Accepts(f) == frames[f].kind = IF InSession THEN "data" ELSE "hs"

\* One more unit, the rest of the length or the body still missing.
ReadUnit ==
  /\ rd.pc \in {"head", "body"} /\ stream # <<>>
  /\ Len(rd.got) + 1 < rd.need
  /\ rd' = [rd EXCEPT !.got = Append(@, Head(stream))]
  /\ stream' = Tail(stream)
  /\ UNCHANGED <<server, open, unread, kind, asks, taken, late>>

LastUnit == rd.pc \in {"head", "body"} /\ stream # <<>> /\ Len(rd.got) + 1 = rd.need

\* Any other two units than a length are taken for one; zero is an error.
ReadHead ==
  /\ LastUnit /\ rd.pc = "head"
  /\ LET u == Append(rd.got, Head(stream))
         isLength == u[1].part = 1 /\ u[2] = Part(u[1].f, 2)
     IN  \E k \in IF isLength THEN {2} ELSE 0..MaxLength :
           IF k = 0 THEN End
           ELSE rd' = [pc |-> "body", need |-> k, got |-> <<>>] /\ UNCHANGED open
  /\ stream' = Tail(stream)
  /\ UNCHANGED <<server, unread, kind, asks, taken, late>>

ReadBody ==
  /\ LastUnit /\ rd.pc = "body"
  /\ LET u == Append(rd.got, Head(stream))
         ok == Whole(u) /\ Accepts(u[1].f)
     IN  \/ /\ ok
            /\ taken' = Append(taken, u[1].f)
            /\ rd' = IF kind = "tunnel" THEN NewRead ELSE Idle
            /\ UNCHANGED open
         \/ ~ok /\ End /\ UNCHANGED taken
  /\ stream' \in Rests(Tail(stream))
  /\ UNCHANGED <<server, unread, kind, asks, late>>

\* The tunnel's loop takes any timeout for silence and reads a new frame;
\* everywhere else it is an error.
Timeout ==
  /\ rd.pc \in {"head", "body"}
  /\ \/ /\ kind = "tunnel" /\ InSession
        /\ rd' = NewRead /\ UNCHANGED open
        /\ late' = (late \/ rd # NewRead)
     \/ ~(kind = "tunnel" /\ InSession) /\ End /\ UNCHANGED late
  /\ UNCHANGED <<server, stream, unread, kind, asks, taken>>

\* The end of the stream, or a reset that loses the rest of it.
Eof ==
  /\ rd.pc \in {"head", "body"} /\ ~open
  /\ End
  /\ UNCHANGED <<server, stream, unread, kind, asks, taken, late>>

-----------------------------------------------------------------------------
Init ==
  /\ open = TRUE
  /\ entry = 0 /\ states = 0
  /\ tunnelled = {} /\ mu = [g \in States |-> "free"]
  /\ conn = Rest /\ relay = Rest
  /\ frames = <<>> /\ torn = {} /\ stream = <<>>
  /\ kind \in {"tunnel", "asker"}
  /\ asks = 0 /\ unread = 0
  /\ rd = Idle /\ taken = <<>> /\ late = FALSE

Next ==
  \/ HearHello \/ HearEcho \/ HearPacket \/ HearBad
  \/ ConnLocks \/ ConnPutsHead \/ ConnPutsBody \/ ConnFails \/ ConnCloses
  \/ RelayPicks \/ RelayLocks \/ RelayPutsHead \/ RelayPutsBody \/ RelayFails
  \/ UdpPacket \/ Reap \/ Close
  \/ Ask \/ Send \/ ReadUnit \/ ReadHead \/ ReadBody \/ Timeout \/ Eof

Spec == Init /\ [][Next]_vars

-----------------------------------------------------------------------------
(* Properties.                                                             *)

\* writeMu of a state is held by whoever writes its data, and by nobody else.
Writes(w, g) == w.pc \in {"head", "body"} /\ w.kind = "data" /\ w.g = g
MutexOK ==
  \A g \in States : /\ mu[g] = "conn" <=> Writes(conn, g)
                    /\ mu[g] = "relay" <=> Writes(relay, g)

\* Both ends and the stream between them keep their types, and no path of
\* sendSecurePayload leaves writeMu locked.
TypeOK ==
  /\ MutexOK
  /\ open \in BOOLEAN /\ entry \in 0..MaxStates /\ states \in 0..MaxStates
  /\ tunnelled \subseteq States /\ mu \in [States -> {"free", "conn", "relay"}]
  /\ conn \in Writers /\ relay \in Writers
  /\ frames \in Seq([kind : Kinds, g : 0..MaxStates]) /\ Len(frames) <= MaxFrames
  /\ torn \subseteq (1..MaxFrames) \X (1..MaxFrames)
  /\ stream \in Seq(Units)
  /\ kind \in {"tunnel", "asker"}
  /\ asks \in 0..MaxAsks /\ unread \in 0..MaxAsks
  /\ rd \in [pc : {"idle", "head", "body", "ended"}, need : Nat, got : Seq(Units)]
  /\ taken \in Seq(1..MaxFrames) /\ late \in BOOLEAN

\* No frame is written into another, unless one of them is the error frame
\* of failConn or they belong to two states of the connection.  This covers
\* the ready frame, which is written without writeMu: the relay cannot have its
\* state before the client has read all of it (sendSecurePayload,
\* handleAuthV2Frame, relayTunnelToClient).
WholeFrames ==
  \A p \in torn : \/ "error" \in {frames[p[1]].kind, frames[p[2]].kind}
                  \/ frames[p[1]].g # frames[p[2]].g

\* What the client accepts is what the server wrote, in order, nothing
\* repeated and nothing missing, although frames may be torn and the client
\* may read garbage, unless a deadline of the tunnel's loop fell
\* inside a frame; in particular Receive never loses a frame it read ahead.
TakenInOrder ==
  ~late => \A i \in 1..Len(taken) : taken[i] = i
=============================================================================
