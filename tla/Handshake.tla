----------------------------- MODULE Handshake -----------------------------
(***************************************************************************)
(* The v1 and v2 handshakes and what follows them: both clients            *)
(* (internal/client/client.go, internal/winclient/secure_client.go), the   *)
(* server's handlers (internal/server/server_secure.go and                 *)
(* server_udp_secure.go) and the frames of internal/secureproto they       *)
(* exchange.                                                               *)
(*                                                                         *)
(* Cryptography is symbolic: a MAC is the record of what it covers, a      *)
(* ciphertext carries the key it needs, the X25519 secret of two key pairs *)
(* is the set of the two.  Everyone is honest, but configurations may      *)
(* disagree, connections are cut anywhere, deadlines pass, random numbers  *)
(* run out, and datagrams are lost, repeated and delayed for ever.         *)
(*                                                                         *)
(* A client talks in turns, so that each direction of a connection holds   *)
(* at most one frame.  The steps of one handler are one action here; how   *)
(* they interleave is the subject of ServerSessions.                       *)
(***************************************************************************)
CONSTANTS
  Clients,     \* the client processes
  Conns,       \* the connections they may dial, one after the other (bound)
  Keys,        \* X25519 key pairs; a private and a public key are their pair
  ServerKey,   \* the pair whose private key the server has
  Psks,        \* pre-shared keys
  Sids,        \* the ids newSessionID may return (bound)
  ClientCfgs,  \* the configurations a client may have
  None         \* nil, "", or a key that does not parse

\* plain marks internal/client; the other client is the Windows one.
Configs == [psk : Psks \cup {None}, priv : Keys \cup {None}, pub : Keys \cup {None},
            peer : Keys \cup {None}, ver : {"v1", "v2"}, udp : BOOLEAN, plain : BOOLEAN]

ASSUME NoneIsNothing == None \notin Clients \cup Conns \cup Keys \cup Psks \cup Sids
ASSUME ServerHasKey == ServerKey \in Keys
\* No client has the server's private key.
ASSUME CfgsAreConfigs == ClientCfgs \subseteq {g \in Configs : g.priv # ServerKey}

VARIABLES
  cfg,      \* Client.cfg of each client
  srvPsk,   \* the server's PreSharedKey, or None
  csid,     \* Client.sessionID
  by,       \* the client that dialled each connection
  place,    \* where that client is in its session over it
  ckey,     \* the sessionKey it derived
  up,       \* the frame on its way to the server
  down,     \* the frame on its way to the client
  cut,      \* the connections either end has closed or the network has lost
  entry,    \* the server's connState of each connection
  ver,      \* its protoVersion
  skey,     \* its sessionKey
  sid,      \* its sessionID
  udpAddr,  \* its udpAddr: the connection whose client owns that socket
  bySID,    \* Server.bySID, with a state named by its connection
  net,      \* the datagrams ever sent
  fault     \* history: the connections something went wrong on

config == <<cfg, srvPsk>>
client == <<csid, by, place, ckey>>
server == <<entry, ver, skey, sid, bySID>>
wire   == <<up, down, cut>>
plane  == <<udpAddr, net>>
vars   == <<config, client, wire, server, plane, fault>>

\* hello and auth wait for the server's answer to that frame; asked waits
\* for the answer to a probe; over is a session that has ended.
Places  == {"none", "hello", "auth", "up", "asked", "over"}
\* await is awaitAuthV2, secure is secureReady, gone is out of the table.
Entries == {"none", "await", "secure", "gone"}

Cfg(c) == cfg[by[c]]
Live(c) == place[c] \in {"up", "asked"}

-----------------------------------------------------------------------------
(* The frames (handshake.go, handshake_v2.go, frame_v2.go).                *)

SessionKeys == [secret : SUBSET Keys, cn : Conns, sn : Conns]
Hellos == [type : {"hello"}, ver : {"v1", "v2"}, pub : Keys \cup {None}, cn : Conns,
           tag : [psk : Psks \cup {None}, pub : Keys \cup {None}, cn : Conns]]
Tickets == [key : SessionKeys, sn : Conns]
Data == [type : {"data"}, ver : {"v1", "v2"}, key : SessionKeys]
ToServer ==
  Hellos \cup [type : {"auth"}, proof : [key : SessionKeys, ticket : Tickets]] \cup Data
ToClient ==
  [type : {"challenge"}, sn : Conns, ticket : Tickets]
  \cup [type : {"ready"}, sid : Sids \cup {None},
        mac : [key : SessionKeys, sid : Sids \cup {None}]]
  \cup [type : {"ack"}, sn : Conns, mac : [key : SessionKeys, sn : Conns]] \cup Data
Datagrams == [from : Conns \cup {None}, to : Conns \cup {None}, sid : Sids, key : SessionKeys]

ASSUME NoneIsNoRecord == None \notin SessionKeys \cup ToServer \cup ToClient

\* SharedSecret succeeds on keys that parse.
Parses(priv, pub) == priv # None /\ pub # None
\* Mutant: the server's nonce is left out.
DeriveSessionKey_half(priv, pub, cn, sn) ==
  [secret |-> {priv, pub}, cn |-> cn, sn |-> None]
DeriveSessionKey(priv, pub, cn, sn) == [secret |-> {priv, pub}, cn |-> cn, sn |-> sn]

\* Fresh 16-byte nonces never repeat: each is named by its connection.
BuildHelloAuth(psk, pub, cn) == [psk |-> psk, pub |-> pub, cn |-> cn]
NewHello(g, c) ==
  [type |-> "hello", ver |-> g.ver, pub |-> g.pub, cn |-> c,
   tag |-> BuildHelloAuth(g.psk, g.pub, c)]

Ticket(k, sn) == [key |-> k, sn |-> sn]
BuildChallenge(k, sn) == [type |-> "challenge", sn |-> sn, ticket |-> Ticket(k, sn)]
AuthFrame(k, ticket) == [type |-> "auth", proof |-> [key |-> k, ticket |-> ticket]]
BuildReady(k, i) == [type |-> "ready", sid |-> i, mac |-> [key |-> k, sid |-> i]]
BuildAck(k, sn) == [type |-> "ack", sn |-> sn, mac |-> [key |-> k, sn |-> sn]]
DataFrame(v, k) == [type |-> "data", ver |-> v, key |-> k]

\* A server without a key accepts every tag.
VerifyHelloAuth(f) == srvPsk = None \/ f.tag = BuildHelloAuth(srvPsk, f.pub, f.cn)
\* Mutant: only the ticket is compared, which the client merely returns.
VerifyAuthProof_ticket(k, sn, proof) == proof.ticket = Ticket(k, sn)
VerifyAuthProof(k, sn, proof) == proof = [key |-> k, ticket |-> Ticket(k, sn)]
VerifyReady(k, f) == f.type = "ready" /\ f.mac = [key |-> k, sid |-> f.sid]
\* Mutant: only the type is checked.
VerifyAck_type(k, f) == f.type = "ack"
VerifyAck(k, f) == f.type = "ack" /\ f.mac = [key |-> k, sn |-> f.sn]

\* ParseDataFrameV2 wants the version; the v1 form has none, and a v1 reader
\* takes the v2 form too, whose ciphertext field has the same name.
Readable(v, k, f) == f.type = "data" /\ f.key = k /\ (v = "v2" => f.ver = "v2")

\* A datagram carries the session id in clear; a missing one is refused.
BuildDatagramFrame(from, to, i, k) == [from |-> from, to |-> to, sid |-> i, key |-> k]
Decrypts(k, d) == d.sid # None /\ d.key = k

\* internal/client writes and expects the v2 form whatever its version is.
\* Mutant: so does the other client.
Form_v2(g) == "v2"
Form(g) == IF g.plain THEN "v2" ELSE g.ver

-----------------------------------------------------------------------------
(* The client.                                                             *)

\* The deferred Close of the connection ends the session.
Over(c) ==
  /\ place' = [place EXCEPT ![c] = "over"]
  /\ cut' = cut \cup {c}

Say(c, l, f) ==
  /\ place' = [place EXCEPT ![c] = l]
  /\ up' = [up EXCEPT ![c] = f]

Hello(p, c) ==
  /\ by[c] = None
  /\ \A d \in Conns : by[d] = p => place[d] = "over"
  /\ by' = [by EXCEPT ![c] = p]
  /\ Say(c, "hello", NewHello(cfg[p], c))
  /\ UNCHANGED <<config, csid, ckey, down, cut, server, plane, fault>>

Take(c) == down[c] # None /\ down' = [down EXCEPT ![c] = None]

\* The client does not check the ticket; it derives the key from the nonce.
GetChallenge(c) ==
  /\ place[c] = "hello" /\ Cfg(c).ver = "v2" /\ Take(c)
  /\ LET k == DeriveSessionKey(Cfg(c).priv, Cfg(c).peer, c, down[c].sn)
     IN  \/ /\ down[c].type = "challenge" /\ Parses(Cfg(c).priv, Cfg(c).peer)
            /\ ckey' = [ckey EXCEPT ![c] = k]
            /\ Say(c, "auth", AuthFrame(k, down[c].ticket))
            /\ UNCHANGED cut
         \/ /\ ~(down[c].type = "challenge" /\ Parses(Cfg(c).priv, Cfg(c).peer))
            /\ Over(c)
            /\ UNCHANGED <<ckey, up>>
  /\ UNCHANGED <<config, csid, by, server, plane, fault>>

\* The id of the last session is replaced, also by none.
\* Mutant: it is kept when there is none.
NextId_kept(old, new) == IF new = None THEN old ELSE new
NextId(old, new) == new

GetReady(c) ==
  /\ place[c] = "auth" /\ Take(c)
  /\ \/ /\ VerifyReady(ckey[c], down[c])
        /\ csid' = [csid EXCEPT ![by[c]] = NextId(@, down[c].sid)]
        /\ place' = [place EXCEPT ![c] = "up"]
        /\ UNCHANGED cut
     \/ /\ ~VerifyReady(ckey[c], down[c])
        /\ Over(c)
        /\ UNCHANGED csid
  /\ UNCHANGED <<config, by, ckey, up, server, plane, fault>>

GetAck(c) ==
  /\ place[c] = "hello" /\ Cfg(c).ver = "v1" /\ Take(c)
  /\ LET k == DeriveSessionKey(Cfg(c).priv, Cfg(c).peer, c, down[c].sn)
         ok == Parses(Cfg(c).priv, Cfg(c).peer) /\ VerifyAck(k, down[c])
     IN  \/ /\ ok
            /\ ckey' = [ckey EXCEPT ![c] = k]
            /\ place' = [place EXCEPT ![c] = "up"]
            /\ UNCHANGED cut
         \/ ~ok /\ Over(c) /\ UNCHANGED ckey
  /\ UNCHANGED <<config, csid, by, up, server, plane, fault>>

Probe(c) ==
  /\ place[c] = "up"
  /\ Say(c, "asked", DataFrame(Form(Cfg(c)), ckey[c]))
  /\ UNCHANGED <<config, csid, by, ckey, down, cut, server, plane, fault>>

GetReply(c) ==
  /\ place[c] = "asked" /\ Take(c)
  /\ \/ /\ Readable(Form(Cfg(c)), ckey[c], down[c])
        /\ place' = [place EXCEPT ![c] = "up"]
        /\ UNCHANGED cut
     \/ ~Readable(Form(Cfg(c)), ckey[c], down[c]) /\ Over(c)
  /\ UNCHANGED <<config, csid, by, ckey, up, server, plane, fault>>

\* bindUDPPlane, and later probes over UDP; each session dials a socket.
Datagram(c) ==
  /\ Live(c) /\ Cfg(c).udp /\ Cfg(c).ver = "v2" /\ csid[by[c]] # None
  /\ net' = net \cup {BuildDatagramFrame(c, None, csid[by[c]], ckey[c])}
  /\ UNCHANGED <<config, client, wire, server, udpAddr, fault>>

\* A deadline passes, a read or write fails, or the context is cancelled.
GiveUp(c) ==
  /\ place[c] \notin {"none", "over"}
  /\ Over(c)
  /\ fault' = fault \cup {c}
  /\ UNCHANGED <<config, csid, by, ckey, up, down, server, plane>>

\* Receive ends with the connection.
Eof(c) ==
  /\ place[c] \in {"hello", "auth", "asked"}
  /\ c \in cut /\ down[c] = None
  /\ Over(c)
  /\ UNCHANGED <<config, csid, by, ckey, up, down, server, plane, fault>>

-----------------------------------------------------------------------------
(* The server.                                                             *)

Unbound(c) == [i \in Sids |-> IF i = sid[c] THEN None ELSE bySID[i]]

Read(c, e) ==
  /\ up[c] # None /\ entry[c] = e
  /\ up' = [up EXCEPT ![c] = None]

\* Mutant: the connection stays open.
Fail_open(c) ==
  /\ entry' = [entry EXCEPT ![c] = "gone"]
  /\ bySID' = Unbound(c)
  /\ UNCHANGED <<cut, down, ver, skey, sid>>

\* failConn: the entry goes and the connection is closed.
Fail(c) ==
  /\ entry' = [entry EXCEPT ![c] = "gone"]
  /\ bySID' = Unbound(c)
  /\ cut' = cut \cup {c}
  /\ UNCHANGED <<down, ver, skey, sid>>

\* Writing to a connection that is cut fails or goes nowhere; a write that
\* fails removes the entry.
Answers(c) == IF c \in cut THEN {"lost", "error"} ELSE {"sent"}

Answer(c, how, e, f) ==
  /\ how \in Answers(c)
  /\ entry' = [entry EXCEPT ![c] = IF how = "error" THEN "gone" ELSE e]
  /\ down' = IF how = "sent" THEN [down EXCEPT ![c] = f] ELSE down
  /\ UNCHANGED cut

HelloOk(f) ==
  f.type = "hello" /\ f.pub # None /\ VerifyHelloAuth(f)

GetHello(c) ==
  /\ Read(c, "none")
  /\ LET k == DeriveSessionKey(ServerKey, up[c].pub, up[c].cn, c)
         next == IF up[c].ver = "v2" THEN "await" ELSE "secure"
         reply == IF up[c].ver = "v2" THEN BuildChallenge(k, c) ELSE BuildAck(k, c)
     IN  \/ /\ HelloOk(up[c])
            /\ ver' = [ver EXCEPT ![c] = up[c].ver]
            /\ skey' = [skey EXCEPT ![c] = k]
            /\ \E how \in Answers(c) : Answer(c, how, next, reply)
            /\ UNCHANGED <<sid, bySID, fault>>
         \/ /\ ~HelloOk(up[c])
            /\ Fail(c)
            /\ UNCHANGED fault
         \/ \* the timestamp is too old by now, or there is no random number
            /\ Fail(c)
            /\ fault' = fault \cup {c}
  /\ UNCHANGED <<config, client, plane>>

\* newSessionID gives a fresh id, or "" when there is no random number;
\* bindSessionID ignores the empty one.
NewSid == {i \in Sids : \A c \in Conns : sid[c] # i} \cup {None}

GetAuth(c) ==
  /\ Read(c, "await")
  /\ LET ok == up[c].type = "auth" /\ VerifyAuthProof(skey[c], c, up[c].proof)
     IN  \/ /\ ok
            /\ \E i \in NewSid, how \in Answers(c) :
                 /\ sid' = [sid EXCEPT ![c] = i]
                 /\ bySID' = [j \in Sids |-> IF j # i THEN bySID[j]
                                             ELSE IF how = "error" THEN None ELSE c]
                 /\ Answer(c, how, "secure", BuildReady(skey[c], i))
            /\ UNCHANGED <<ver, skey>>
         \/ ~ok /\ Fail(c)
  /\ UNCHANGED <<config, client, plane, fault>>

\* An echo; a packet for the tunnel gets no reply and ends here.
GetData(c) ==
  /\ Read(c, "secure")
  /\ \/ /\ Readable(ver[c], skey[c], up[c])
        /\ \E how \in Answers(c) :
             /\ Answer(c, how, "secure", DataFrame(ver[c], skey[c]))
             /\ bySID' = IF how = "error" THEN Unbound(c) ELSE bySID
        /\ UNCHANGED <<ver, skey, sid>>
     \/ ~Readable(ver[c], skey[c], up[c]) /\ Fail(c)
  /\ UNCHANGED <<config, client, plane, fault>>

\* The address is noted before the datagram is decrypted.
GetDatagram(d) ==
  /\ d.to = None /\ bySID[d.sid] # None
  /\ LET c == bySID[d.sid]
     IN  /\ entry[c] = "secure" /\ ver[c] = "v2"
         /\ udpAddr' = [udpAddr EXCEPT ![c] = d.from]
         /\ net' = IF Decrypts(skey[c], d)
                   THEN net \cup {BuildDatagramFrame(None, d.from, sid[c], skey[c])}
                   ELSE net
  /\ UNCHANGED <<config, client, wire, server, fault>>

\* The reaper finds the entry idle.
Reap(c) ==
  /\ entry[c] \in {"await", "secure"}
  /\ Fail(c)
  /\ fault' = fault \cup {c}
  /\ UNCHANGED <<config, client, up, plane>>

-----------------------------------------------------------------------------
\* The network loses the connection.
Cut(c) ==
  /\ by[c] # None /\ c \notin cut
  /\ cut' = cut \cup {c}
  /\ fault' = fault \cup {c}
  /\ UNCHANGED <<config, client, up, down, server, plane>>

Init ==
  /\ cfg \in [Clients -> ClientCfgs]
  /\ srvPsk \in Psks \cup {None}
  /\ csid = [p \in Clients |-> None]
  /\ by = [c \in Conns |-> None]
  /\ place = [c \in Conns |-> "none"]
  /\ ckey = [c \in Conns |-> None]
  /\ up = [c \in Conns |-> None]
  /\ down = [c \in Conns |-> None]
  /\ cut = {}
  /\ entry = [c \in Conns |-> "none"]
  /\ ver = [c \in Conns |-> None]
  /\ skey = [c \in Conns |-> None]
  /\ sid = [c \in Conns |-> None]
  /\ udpAddr = [c \in Conns |-> None]
  /\ bySID = [i \in Sids |-> None]
  /\ net = {}
  /\ fault = {}

\* What one of the two ends does with a frame it has been sent, or with the
\* end of the connection.
Handle(c) ==
  \/ GetChallenge(c) \/ GetReady(c) \/ GetAck(c) \/ GetReply(c) \/ Eof(c)
  \/ GetHello(c) \/ GetAuth(c) \/ GetData(c)

Next ==
  \/ \E p \in Clients, c \in Conns : Hello(p, c)
  \/ \E c \in Conns : Handle(c) \/ Probe(c) \/ Datagram(c) \/ GiveUp(c)
                      \/ Reap(c) \/ Cut(c)
  \/ \E d \in net : GetDatagram(d)

\* A frame that has been sent is read and handled in the end.
Spec == Init /\ [][Next]_vars /\ \A c \in Conns : WF_vars(Handle(c))

-----------------------------------------------------------------------------
(* Properties.                                                             *)

\* The variables of both ends and the frames between them keep their types.
TypeOK ==
  /\ cfg \in [Clients -> ClientCfgs] /\ srvPsk \in Psks \cup {None}
  /\ csid \in [Clients -> Sids \cup {None}]
  /\ by \in [Conns -> Clients \cup {None}]
  /\ place \in [Conns -> Places]
  /\ \A c \in Conns : place[c] = "none" <=> by[c] = None
  /\ ckey \in [Conns -> SessionKeys \cup {None}]
  /\ up \in [Conns -> ToServer \cup {None}] /\ down \in [Conns -> ToClient \cup {None}]
  /\ cut \subseteq Conns /\ fault \subseteq Conns
  /\ entry \in [Conns -> Entries]
  /\ ver \in [Conns -> {"v1", "v2", None}]
  /\ skey \in [Conns -> SessionKeys \cup {None}]
  /\ sid \in [Conns -> Sids \cup {None}]
  /\ bySID \in [Sids -> Conns \cup {None}]
  /\ udpAddr \in [Conns -> Conns \cup {None}]
  /\ net \subseteq Datagrams

\* The two ends of a connection are configured for each other.
Matching(c) ==
  /\ srvPsk \in {None, Cfg(c).psk}
  /\ Cfg(c).priv = Cfg(c).pub /\ Cfg(c).priv # None /\ Cfg(c).peer = ServerKey

\* A client that starts its session has a server on the other side that is
\* configured for it, has derived the same key and, for v2, has given the
\* session the id the client will put on its datagrams
\* (doHandshake, handleHelloFrame, handleAuthV2Frame).
ClientKnowsServer ==
  \A c \in Conns : Live(c) =>
    /\ Matching(c)
    /\ skey[c] = ckey[c] /\ ver[c] = Cfg(c).ver
    /\ Cfg(c).ver = "v2" => sid[c] = csid[by[c]]

\* A v2 state becomes secureReady only for a client that has derived the
\* same key (VerifyAuthProof); a v1 state does so before the client answers.
ServerKnowsClient ==
  \A c \in Conns : (entry[c] = "secure" /\ ver[c] = "v2") =>
    Matching(c) /\ ckey[c] = skey[c]

\* Whatever datagrams were lost, repeated or late, the UDP plane of a session
\* leads to the socket of that session's client, and each reply that arrives
\* there can be decrypted with its key (handleUDPPayload).
PlaneIsOwn ==
  /\ \A c \in Conns : udpAddr[c] \in {None, c}
  /\ \A d \in net : d.to # None => d.key = ckey[d.to] /\ d.sid = sid[d.to]

\* A session that ends with no fault on its connection was one of two
\* configurations that do not match, or of internal/client with v1: that
\* handshake succeeds, but the client's probes and the server's replies
\* have different forms (client.go:192-207).
RefusedForAReason ==
  \A c \in Conns : (place[c] = "over" /\ c \notin fault) =>
    ~Matching(c) \/ (Cfg(c).plain /\ Cfg(c).ver = "v1")

\* No end waits for one that waits for it: a client that waits for an answer
\* has a frame on its way to a server that still reads, an answer on its way
\* back, or a connection whose end it will see (failConn closes it).
Waits(c) == place[c] \in {"hello", "auth", "asked"}
NoMutualWait ==
  \A c \in Conns : Waits(c) =>
    (up[c] # None /\ entry[c] # "gone") \/ down[c] # None \/ c \in cut

\* Every handshake comes to an end, in a session or in an error, unless a
\* fault happens on its connection: no end waits for a frame that the other
\* has no reason to send.
HandshakeEnds ==
  \A c \in Conns :
    place[c] \in {"hello", "auth"} ~> place[c] \in {"up", "asked", "over"} \/ c \in fault
=============================================================================
