--------------------------- MODULE ServerSessions ---------------------------
(***************************************************************************)
(* The session tables of the server: internal/server/server_secure.go,     *)
(* server_sessions.go, server_udp_secure.go and tunnel_types.go, with the  *)
(* accept and read loop of internal/transport/tcp/tcp.go that calls them.  *)
(*                                                                         *)
(* Four kinds of goroutine work on the two maps conns and bySID:           *)
(*   - one goroutine per TCP connection, which reads a frame and runs      *)
(*     handleTCPPayload on it (variables pc and st);                       *)
(*   - the reaper, which drops idle entries every 15 s (reap);             *)
(*   - the goroutine of the UDP listener (udp);                            *)
(*   - the relay from the tunnel device to the clients (relay).            *)
(* A step of the model ends where the code takes or releases connMu, sidMu *)
(* or writeMu, or where it blocks in a read or a write.  The kind of a     *)
(* frame is chosen where the code looks at it.                             *)
(*                                                                         *)
(* Only the secure mode (ServerPrivateKey set) is modelled: the plain mode *)
(* keeps no state.                                                         *)
(***************************************************************************)
CONSTANTS
  Conns,         \* the TCP connections that may ever be accepted
  States,        \* the connState objects that may ever be allocated (bound)
  Sids,          \* the session ids newSessionID may ever return (bound)
  TunnelOn,      \* is there a tunnel device (s.tunnel # nil)
  HugeReplies,   \* MaxPacketSize so large that a reply may exceed one frame
  None           \* nil, or the empty string

ASSUME NoneIsNoObject == None \notin Conns \cup States \cup Sids
ASSUME ConfigIsBoolean == TunnelOn \in BOOLEAN /\ HugeReplies \in BOOLEAN

VARIABLES
  conns,      \* Server.conns: the entry of each connection
  bySID,      \* Server.bySID: the state each session id is bound to
  owner,      \* connState.conn of each object
  phase,      \* its secureReady and awaitAuthV2
  ver,        \* its protoVersion
  sid,        \* its sessionID
  tunnelled,  \* the states with tunnelEnabled
  idle,       \* the states whose lastSeen is before the cutoff
  udpKnown,   \* the states whose udpAddr is set
  sock,       \* the server's socket of each connection
  pc,         \* where the goroutine of each connection is
  st,         \* the state it works on
  sweeping,   \* does the reaper scan conns, holding connMu
  todo,       \* the connections its loop has not met yet
  cur,        \* the connection it found idle and has not taken yet
  sids,       \* the session ids it is to unbind
  toClose,    \* the connections it is to close
  udp,        \* the goroutine of the UDP listener
  relay,      \* the relay of the tunnel device
  told,       \* history: the session ids a ready frame was written for
  raced       \* history: the states the reaper took from a goroutine that
              \*   still was to bind them

tables  == <<conns, bySID>>
objects == <<owner, phase, ver, sid>>
hand    == <<pc, st>>
reap    == <<sweeping, todo, cur, sids, toClose>>
fields  == <<tunnelled, idle, udpKnown>>
history == <<told, raced>>
vars == <<conns, bySID, objects, fields, sock, hand, reap, udp, relay, history>>

-----------------------------------------------------------------------------
(* The objects.                                                            *)

\* secureReady and awaitAuthV2 as one phase: "await" is awaitAuthV2,
\* "secure" is secureReady; "free" is an object not yet allocated.
Phases == {"free", "new", "await", "secure"}

\* A ProtoVersion other than "v2" is served as "v1".
Versions == {None, "v1", "v2"}

\* Where the goroutine of a connection is.
\*   read    waits for a frame             bind    bindSessionID to come
\*   work    has the state of a frame      write   writes a handshake reply
\*   fail    failConn, before Close        lock    waits for writeMu
\*   drop    removeConnState to come       echo    writes a reply, has writeMu
\*   unbind  removed, its sid is not       exit    has returned
Places == {"none", "read", "work", "bind", "write", "lock", "echo",
           "fail", "drop", "unbind", "exit"}

TypeOK ==
  /\ conns \in [Conns -> States \cup {None}]
  /\ bySID \in [Sids -> States \cup {None}]
  /\ owner \in [States -> Conns \cup {None}]
  /\ phase \in [States -> Phases]
  /\ ver \in [States -> Versions]
  /\ sid \in [States -> Sids \cup {None}]
  /\ tunnelled \subseteq States
  /\ idle \subseteq States
  /\ udpKnown \subseteq States
  /\ sock \in [Conns -> {"open", "cut", "closed"}]
  /\ pc \in [Conns -> Places]
  /\ st \in [Conns -> States \cup {None}]
  /\ sweeping \in BOOLEAN
  /\ todo \subseteq Conns
  /\ cur \in Conns \cup {None}
  /\ sids \subseteq Sids
  /\ toClose \subseteq Conns
  /\ udp \in [st : States \cup {None}, ip : BOOLEAN]
  /\ relay \in [pc : {"wait", "send", "write"}, st : States \cup {None}]
  /\ told \subseteq Sids
  /\ raced \subseteq States

Init ==
  /\ conns = [c \in Conns |-> None]
  /\ bySID = [i \in Sids |-> None]
  /\ owner = [s \in States |-> None]
  /\ phase = [s \in States |-> "free"]
  /\ ver = [s \in States |-> None]
  /\ sid = [s \in States |-> None]
  /\ tunnelled = {} /\ idle = {} /\ udpKnown = {}
  /\ sock = [c \in Conns |-> "open"]
  /\ pc = [c \in Conns |-> "none"]
  /\ st = [c \in Conns |-> None]
  /\ sweeping = FALSE /\ todo = {} /\ cur = None /\ sids = {} /\ toClose = {}
  /\ udp = [st |-> None, ip |-> FALSE]
  /\ relay = [pc |-> "wait", st |-> None]
  /\ told = {} /\ raced = {}

Free == {s \in States : phase[s] = "free"}
HasSid(s) == s # None /\ sid[s] # None
At(c, place) == pc[c] = place
GoTo(c, place, s) ==
  /\ pc' = [pc EXCEPT ![c] = place]
  /\ st' = [st EXCEPT ![c] = s]

\* connMu is held by the reaper for its whole scan of conns; every other
\* critical section of connMu, and each one of sidMu, is one step.
ConnMuFree == ~sweeping

-----------------------------------------------------------------------------
(* The connection and its peer.                                            *)

\* Serve accepts a connection and starts its goroutine.
Accept(c) ==
  /\ At(c, "none")
  /\ GoTo(c, "read", None)
  /\ UNCHANGED <<tables, objects, fields, sock, reap, udp, relay, history>>

\* The peer closes or loses the connection.
PeerCut(c) ==
  /\ pc[c] \notin {"none", "exit"}
  /\ sock[c] = "open"
  /\ sock' = [sock EXCEPT ![c] = "cut"]
  /\ UNCHANGED <<tables, objects, fields, hand, reap, udp, relay, history>>

\* Mutant: the loop goes on after an error.
Exit_continue(c) == At(c, "read") /\ GoTo(c, "read", None) /\ UNCHANGED vars

\* The goroutine returns and its deferred Close runs; nothing tells the
\* tables that the connection is gone.
Exit(c) ==
  /\ At(c, "read")
  /\ GoTo(c, "exit", None)
  /\ sock' = [sock EXCEPT ![c] = "closed"]
  /\ UNCHANGED <<tables, objects, fields, reap, udp, relay, history>>

\* readFrame meets the end of the stream, or the closed socket.
ReadError(c) == sock[c] # "open" /\ Exit(c)

\* readFrame refuses a frame of length zero.
EmptyFrame(c) == sock[c] = "open" /\ Exit(c)

-----------------------------------------------------------------------------
(* The goroutine of a connection: handleTCPPayload.                        *)

\* readFrame returns a frame; what the bufio.Reader holds can still be read
\* after the socket is closed.  A frame above MaxPacketSize*8 fails before the
\* state is looked up.
Oversize(c) ==
  /\ At(c, "read")
  /\ GoTo(c, "fail", None)
  /\ UNCHANGED <<tables, objects, fields, sock, reap, udp, relay, history>>

\* Any other frame: getConnState finds the entry of c or adds a fresh one, under
\* connMu.  Between readFrame and the lock the goroutine touches nothing shared.
\* The bound on States: a frame that needs an object waits for a free one.
Frame(c) ==
  /\ At(c, "read")
  /\ ConnMuFree
  /\ \/ /\ conns[c] # None
        /\ GoTo(c, "work", conns[c])
        /\ UNCHANGED <<conns, owner, phase>>
     \/ /\ conns[c] = None
        /\ \E s \in Free :
             /\ owner' = [owner EXCEPT ![s] = c]
             /\ phase' = [phase EXCEPT ![s] = "new"]
             /\ conns' = [conns EXCEPT ![c] = s]
             /\ GoTo(c, "work", s)
  /\ UNCHANGED <<bySID, ver, sid, fields, sock, reap, udp, relay, history>>

\* The write of lastSeen and what follows it up to the next lock or system
\* call is one step: between them nobody else reads what they write, except
\* the reaper, which skips the entry once lastSeen is new.
Working(c, p) ==
  /\ At(c, "work")
  /\ phase[st[c]] = p
  /\ idle' = idle \ {st[c]}

\* handleHelloFrame on a valid hello: key, version, and for v2 the ticket.
Hello(c, v) ==
  /\ Working(c, "new")
  /\ phase' = [phase EXCEPT ![st[c]] = IF v = "v2" THEN "await" ELSE "secure"]
  /\ ver' = [ver EXCEPT ![st[c]] = v]
  /\ GoTo(c, "write", st[c])
  /\ UNCHANGED <<tables, owner, sid, tunnelled, udpKnown, sock, reap, udp,
                 relay, history>>

\* newSessionID: an id never used before, or the empty one when rand.Read
\* fails.  Mutant: an id that may be in use.
NewSid_reused == Sids \cup {None}
NewSid == {i \in Sids : \A s \in States : sid[s] # i} \cup {None}

\* handleAuthV2Frame sets secureReady.  Mutant: it is forgotten.
Secured_notReady(s) == phase
Secured(s) == [phase EXCEPT ![s] = "secure"]

\* bindSessionID ignores the empty id.  Mutant: no id is bound.
AfterAuth_noBind(i) == "write"
AfterAuth(i) == IF i = None THEN "write" ELSE "bind"

\* handleAuthV2Frame on a valid proof.
Auth(c) ==
  /\ Working(c, "await")
  /\ \E i \in NewSid :
       /\ phase' = Secured(st[c])
       /\ sid' = [sid EXCEPT ![st[c]] = i]
       /\ GoTo(c, AfterAuth(i), st[c])
  /\ UNCHANGED <<tables, owner, ver, tunnelled, udpKnown, sock, reap, udp,
                 relay, history>>

\* bindSessionID, under sidMu, before the ready frame is written.
Bind(c) ==
  /\ At(c, "bind")
  /\ bySID' = [bySID EXCEPT ![sid[st[c]]] = st[c]]
  /\ GoTo(c, "write", st[c])
  /\ UNCHANGED <<conns, objects, fields, sock, reap, udp, relay, history>>

\* handleDataFrameV1 and V2 on an IP packet: the device takes it or not.
Tunnel(c, ok) ==
  /\ TunnelOn
  /\ Working(c, "secure")
  /\ tunnelled' = tunnelled \cup {st[c]}
  /\ GoTo(c, IF ok THEN "read" ELSE "fail", None)
  /\ UNCHANGED <<tables, objects, udpKnown, sock, reap, udp, relay, history>>

\* handleDataFrameV1 and V2 on any other payload: a reply is to be sent.
Echo(c) ==
  /\ Working(c, "secure")
  /\ GoTo(c, "lock", st[c])
  /\ UNCHANGED <<tables, objects, tunnelled, udpKnown, sock, reap, udp, relay,
                 history>>

\* A frame that does not parse, verify or decrypt in the phase it meets.
Reject(c) ==
  /\ \E p \in {"new", "await", "secure"} : Working(c, p)
  /\ GoTo(c, "fail", None)
  /\ UNCHANGED <<tables, objects, tunnelled, udpKnown, sock, reap, udp, relay,
                 history>>

\* writeMu of a state is held by the relay while it writes, and by the
\* goroutine of the connection while it echoes.
WriteMuFree(s) ==
  /\ ~(relay.pc = "write" /\ relay.st = s)
  /\ \A c \in Conns : ~(At(c, "echo") /\ st[c] = s)

\* sendSecurePayload and sendSecurePayloadV2 take writeMu.
LockEcho(c) ==
  /\ At(c, "lock")
  /\ WriteMuFree(st[c])
  /\ GoTo(c, "echo", st[c])
  /\ UNCHANGED <<tables, objects, fields, sock, reap, udp, relay, history>>

\* The write of a handshake frame or of a reply succeeds; for a session with
\* an id, the handshake frame is the ready frame.
WriteOk(c) ==
  /\ pc[c] \in {"write", "echo"}
  /\ sock[c] # "closed"
  /\ told' = told \cup {i \in Sids : At(c, "write") /\ sid[st[c]] = i}
  /\ GoTo(c, "read", None)
  /\ UNCHANGED <<tables, objects, fields, sock, reap, udp, relay, raced>>

\* The write fails on the socket, or because WriteFrame refuses the length.
\* The connection stays open: only its entry is removed.
WriteError(c) ==
  /\ \/ pc[c] \in {"write", "echo"} /\ sock[c] # "open"
     \/ At(c, "echo") /\ HugeReplies
  /\ GoTo(c, "drop", None)
  /\ UNCHANGED <<tables, objects, fields, sock, reap, udp, relay, history>>

\* Mutant: failConn does not close.
Fail_open(c) ==
  /\ At(c, "fail")
  /\ GoTo(c, "drop", None)
  /\ UNCHANGED <<tables, objects, fields, sock, reap, udp, relay, history>>

\* failConn writes its error frame, whatever comes of it, and closes.
Fail(c) ==
  /\ At(c, "fail")
  /\ sock' = [sock EXCEPT ![c] = "closed"]
  /\ GoTo(c, "drop", None)
  /\ UNCHANGED <<tables, objects, fields, reap, udp, relay, history>>

\* Mutant: removeConnState does not unbind.
AfterDrop_noUnbind(s) == "read"
AfterDrop(s) == IF HasSid(s) THEN "unbind" ELSE "read"

\* removeConnState, under connMu: the entry of c is deleted, whichever it is.
Drop(c) ==
  /\ At(c, "drop")
  /\ ConnMuFree
  /\ conns' = [conns EXCEPT ![c] = None]
  /\ GoTo(c, AfterDrop(conns[c]), IF HasSid(conns[c]) THEN conns[c] ELSE None)
  /\ UNCHANGED <<bySID, objects, fields, sock, reap, udp, relay, history>>

\* removeConnState, under sidMu: the session id of the removed state.
Unbind(c) ==
  /\ At(c, "unbind")
  /\ bySID' = [bySID EXCEPT ![sid[st[c]]] = None]
  /\ GoTo(c, "read", None)
  /\ UNCHANGED <<conns, objects, fields, sock, reap, udp, relay, history>>

-----------------------------------------------------------------------------
(* The reaper: dropIdleConnStates every 15 seconds.                        *)

\* Time passes: an entry falls behind the cutoff.  The cutoff of a sweep is
\* taken once at its start, so nothing ages while conns is scanned.
Age(s) ==
  /\ ~sweeping
  /\ \E c \in Conns : conns[c] = s
  /\ s \notin idle
  /\ idle' = idle \cup {s}
  /\ UNCHANGED <<tables, objects, tunnelled, udpKnown, sock, hand, reap, udp,
                 relay,
                 history>>

\* The ticker fires; the cutoff is taken and connMu locked.
SweepStart ==
  /\ ~sweeping
  /\ sids = {} /\ toClose = {}
  /\ sweeping' = TRUE
  /\ todo' = {c \in Conns : conns[c] # None}
  /\ UNCHANGED <<cur, sids, toClose, tables, objects, fields, sock, hand, udp,
                 relay, history>>

\* lastSeen.Before(cutoff).  Mutant: only secure entries expire.
Expired_secure(s) == s \in idle /\ phase[s] = "secure"
Expired(s) == s \in idle

\* The loop reads lastSeen of an entry: it stays, or it is to be taken.
Scan(c) ==
  /\ sweeping
  /\ cur = None
  /\ c \in todo
  /\ todo' = todo \ {c}
  /\ cur' = IF Expired(conns[c]) THEN c ELSE None
  /\ UNCHANGED <<sweeping, sids, toClose, tables, objects, fields, sock, hand,
                 udp, relay, history>>

\* What the loop appends to sids.  Mutants: the empty id too; nothing.
SidsOf_empty(s) == {sid[s]}
SidsOf_none(s) == {}
SidsOf(s) == {sid[s]} \ {None}

\* What the loop appends to toClose.  Mutant: only next to an id.
ToClose_withSid(c) == IF HasSid(conns[c]) THEN {c} ELSE {}
ToClose(c) == {c}

Deleted(c) == [conns EXCEPT ![c] = None]

\* The goroutine of c may still bind the state it holds.
Binding(c) == At(c, "bind") \/ (At(c, "work") /\ phase[st[c]] = "await")

\* The loop notes the session id of an idle entry and deletes the entry.
Take ==
  /\ cur # None
  /\ cur' = None
  /\ sids' = sids \cup SidsOf(conns[cur])
  /\ toClose' = toClose \cup ToClose(cur)
  /\ conns' = Deleted(cur)
  /\ raced' = IF Binding(cur) THEN raced \cup {conns[cur]} ELSE raced
  /\ UNCHANGED <<sweeping, todo, bySID, objects, fields, sock, hand, udp,
                 relay, told>>

\* The loop is over; connMu is unlocked.
SweepEnd ==
  /\ sweeping
  /\ cur = None /\ todo = {}
  /\ sweeping' = FALSE
  /\ UNCHANGED <<todo, cur, sids, toClose, tables, objects, fields, sock, hand,
                 udp, relay, history>>

\* Then unbindSessionID for each id noted ...
ReapUnbind(i) ==
  /\ ~sweeping
  /\ i \in sids
  /\ sids' = sids \ {i}
  /\ bySID' = [bySID EXCEPT ![i] = None]
  /\ UNCHANGED <<sweeping, todo, cur, toClose, conns, objects, fields, sock,
                 hand, udp, relay, history>>

\* ... and Close for each connection taken.
ReapClose(c) ==
  /\ ~sweeping
  /\ sids = {}
  /\ c \in toClose
  /\ toClose' = toClose \ {c}
  /\ sock' = [sock EXCEPT ![c] = "closed"]
  /\ UNCHANGED <<sweeping, todo, cur, sids, tables, objects, fields, hand, udp,
                 relay, history>>

-----------------------------------------------------------------------------
(* The UDP listener: handleUDPPayload.                                     *)

\* A datagram with the id of a session arrives, at any time and any number
\* of times once a peer was told the id, and its state is looked up.  A
\* datagram for no secure v2 state is dropped: nothing changes.  That it holds
\* an IP packet matters only with a device.
UdpLookup(i, ip) ==
  /\ udp.st = None
  /\ i \in told
  /\ bySID[i] # None
  /\ phase[bySID[i]] = "secure" /\ ver[bySID[i]] = "v2"
  /\ udp' = [st |-> bySID[i], ip |-> ip /\ TunnelOn]
  /\ UNCHANGED <<tables, objects, fields, sock, hand, reap, relay, history>>

\* lastSeen and udpAddr are written before the frame is authenticated; an
\* authentic IP packet also enables the tunnel.  The reply of the other
\* frames is a datagram nothing waits for.
UdpHandle ==
  /\ udp.st # None
  /\ idle' = idle \ {udp.st}
  /\ udpKnown' = udpKnown \cup {udp.st}
  /\ tunnelled' = tunnelled \cup {s \in {udp.st} : udp.ip}
  /\ udp' = [st |-> None, ip |-> FALSE]
  /\ UNCHANGED <<tables, objects, sock, hand, reap, relay, history>>

-----------------------------------------------------------------------------
(* The relay: relayTunnelToClient.                                         *)

\* A packet was read from the device: findSecureConnState picks any entry
\* that is secure and tunnelled.  With no such entry the packet is dropped.
RelayPick(c) ==
  /\ TunnelOn
  /\ relay.pc = "wait"
  /\ ConnMuFree
  /\ conns[c] # None
  /\ phase[conns[c]] = "secure" /\ conns[c] \in tunnelled
  /\ relay' = [pc |-> "send", st |-> conns[c]]
  /\ UNCHANGED <<tables, objects, fields, sock, hand, reap, udp, history>>

OverUdp(s) == ver[s] = "v2" /\ sid[s] # None /\ s \in udpKnown

\* A v2 session that has shown an address gets the packet by UDP.
RelayUdp ==
  /\ relay.pc = "send"
  /\ OverUdp(relay.st)
  /\ relay' = [pc |-> "wait", st |-> None]
  /\ UNCHANGED <<tables, objects, fields, sock, hand, reap, udp, history>>

\* Otherwise, and when the datagram cannot be sent, the packet takes the TCP
\* connection, under writeMu.
RelayLock ==
  /\ relay.pc = "send"
  /\ WriteMuFree(relay.st)
  /\ relay' = [relay EXCEPT !.pc = "write"]
  /\ UNCHANGED <<tables, objects, fields, sock, hand, reap, udp, history>>

\* The write returns, with or without an error: the relay ignores it.
RelayWritten ==
  /\ relay.pc = "write"
  /\ relay' = [pc |-> "wait", st |-> None]
  /\ UNCHANGED <<tables, objects, fields, sock, hand, reap, udp, history>>

-----------------------------------------------------------------------------
(* The specification.                                                      *)

Peer(c) == Accept(c) \/ PeerCut(c) \/ Frame(c) \/ Oversize(c) \/ EmptyFrame(c)

Handler(c) ==
  \/ \E v \in {"v1", "v2"} : Hello(c, v)
  \/ Auth(c) \/ Bind(c)
  \/ \E ok \in BOOLEAN : Tunnel(c, ok)
  \/ Echo(c) \/ Reject(c) \/ LockEcho(c) \/ Drop(c) \/ Unbind(c)

Write(c) == WriteOk(c) \/ WriteError(c) \/ Fail(c)

Reaper ==
  \/ SweepStart \/ Take \/ SweepEnd
  \/ \E c \in Conns : Scan(c) \/ ReapClose(c)
  \/ \E i \in Sids : ReapUnbind(i)

RelaySend == RelayUdp \/ RelayLock

Next ==
  \/ \E c \in Conns :
       Peer(c) \/ ReadError(c) \/ Handler(c) \/ Write(c) \/ RelayPick(c)
  \/ \E s \in States : Age(s)
  \/ Reaper
  \/ \E i \in Sids, ip \in BOOLEAN : UdpLookup(i, ip)
  \/ UdpHandle \/ RelaySend \/ RelayWritten

Spec == Init /\ [][Next]_vars

\* The scheduler runs every goroutine, and a Go mutex starves nobody (hence
\* strong fairness where a step waits for one).  What a closed socket left in
\* the buffers is finite, so the read loop meets the error.  A write may block
\* as long as the peer does not read: it is fair only once the connection is
\* cut or closed.  Peers, packets, datagrams and the clock owe nothing.
Fairness ==
  /\ \A c \in Conns :
       /\ SF_vars(Handler(c))
       /\ SF_vars(ReadError(c))
       /\ WF_vars(sock[c] # "open" /\ Write(c))
  /\ WF_vars(Reaper)
  /\ WF_vars(UdpHandle)
  /\ SF_vars(RelaySend)
  /\ WF_vars(/\ relay.pc = "write" /\ sock[owner[relay.st]] # "open"
             /\ RelayWritten)

FairSpec == Spec /\ Fairness

-----------------------------------------------------------------------------
(* Safety.                                                                 *)

\* handleUDPPayload trusts bySID: what a session id is bound to is the secure
\* v2 state that carries this very id (server_udp_secure.go:31-34).
BoundIsSecure ==
  \A i \in Sids : bySID[i] # None =>
    /\ sid[bySID[i]] = i
    /\ phase[bySID[i]] = "secure"
    /\ ver[bySID[i]] = "v2"

\* Once the ready frame is written the client may send datagrams at once:
\* as long as its entry is in conns, its session id finds the same state
\* (bindSessionID before WriteFrame, server_secure.go:116-120, and the order of
\* delete and unbind, server_sessions.go:26-30 and 63-77).
ReadyIsReachable ==
  \A c \in Conns, i \in told :
    conns[c] # None /\ sid[conns[c]] = i => bySID[i] = conns[c]

Orphan(i) == bySID[i] # None /\ conns[owner[bySID[i]]] # bySID[i]

UnbindPending(i) ==
  \/ i \in sids
  \/ \E c \in Conns : At(c, "unbind") /\ sid[st[c]] = i

\* A session id that is bound to a state no longer in conns is about to be
\* unbound, with one exception: the reaper took the entry between getConnState
\* and bindSessionID of the frame that authenticates it (server_secure.go:33 and
\* 115-116, server_sessions.go:63-77).
OrphansOnlyByRace ==
  \A i \in Sids : Orphan(i) => UnbindPending(i) \/ bySID[i] \in raced

\* The relay has one goroutine for all clients and writes without a deadline.
\* Where it may block, the reaper can still reach the connection: while the
\* socket is open it has an entry, or is on the list to be closed.  This needs
\* replies that fit a frame: otherwise a failed reply removes the entry of a
\* connection that stays open (server_secure.go:164-166 and 188-190).
RelayIsReapable ==
  relay.pc # "wait" =>
    LET c == owner[relay.st]
    IN  sock[c] = "open" => conns[c] # None \/ c \in toClose

-----------------------------------------------------------------------------
(* Steps.                                                                  *)

\* A session id a client was told is never bound again once it is unbound, and
\* never moves to another state (server_secure.go:115-116).
RetiredForGood ==
  [][\A i \in Sids :
       /\ bySID[i] # None => bySID'[i] \in {bySID[i], None}
       /\ i \in told /\ bySID[i] = None => bySID'[i] = None]_vars

-----------------------------------------------------------------------------
(* Liveness.                                                               *)

\* An entry behind the cutoff leaves conns, unless a frame or a datagram comes
\* for it; also when its goroutine has exited without telling the tables
\* (tcp.go:48-52, server_sessions.go:63-72).
IdleEntryLeaves ==
  \A c \in Conns, s \in States :
    (conns[c] = s /\ s \in idle) ~> (conns[c] # s \/ s \notin idle)

\* An id whose entry is gone does not stay in bySID, but for the race above
\* (server_sessions.go:29-31 and 75-77).
SidRetired ==
  \A i \in Sids, s \in States :
    (bySID[i] = s /\ Orphan(i) /\ s \notin raced) ~> (bySID[i] # s)

\* The goroutine of a connection the reaper took ends, wherever it was blocked
\* (server_sessions.go:79-81, tcp.go:44-52).
ReapedPeerReleased ==
  \A c \in Conns : (c \in toClose) ~> At(c, "exit")

\* A relay blocked in a write to a client that neither reads nor sends comes
\* free: the reaper closes the connection (server_sessions.go:53-82).
RelayReleased ==
  \A s \in States :
    (relay.pc = "write" /\ relay.st = s /\ s \in idle /\ conns[owner[s]] = s)
      ~> (relay.pc = "wait" \/ s \notin idle)
=============================================================================
