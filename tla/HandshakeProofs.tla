-------------------------- MODULE HandshakeProofs --------------------------
(* What the two ends of a handshake know, for any clients, keys,           *)
(* configurations and number of connections.                               *)
EXTENDS Handshake, TLAPS

\* A connection that nobody has dialled is untouched; one that is dialled
\* has one owner, who has no other session under way.
DialInv ==
  /\ \A c \in Conns : by[c] = None =>
       /\ up[c] = None /\ down[c] = None /\ ckey[c] = None
       /\ entry[c] = "none" /\ c \notin cut
  /\ \A c, d \in Conns : (c # d /\ by[c] = by[d] /\ by[c] # None) =>
       place[c] = "over" \/ place[d] = "over"

\* Each key is the one its end's configuration and the nonces give, and
\* frames carry the key of the end that sent them.
KeyInv(c) ==
  /\ entry[c] = "none" => skey[c] = None /\ down[c] = None /\ sid[c] = None
  /\ skey[c] # None =>
       /\ srvPsk \in {None, Cfg(c).psk} /\ ver[c] = Cfg(c).ver
       /\ skey[c].secret = {ServerKey, Cfg(c).pub}
  /\ entry[c] \in {"await", "secure"} => skey[c] # None
  /\ place[c] \in {"none", "hello"} => ckey[c] = None
  /\ ckey[c] # None => ckey[c].secret = {Cfg(c).priv, Cfg(c).peer}
  /\ up[c] # None /\ up[c].type = "hello" => up[c] = NewHello(Cfg(c), c)
  /\ up[c] # None /\ up[c].type = "auth" =>
       up[c].proof.key = ckey[c] /\ ckey[c] # None
  /\ down[c] # None /\ down[c].type = "ack" => down[c].mac.key = skey[c]
  /\ down[c] # None /\ down[c].type = "ready" =>
       /\ down[c].mac.key = skey[c] /\ down[c].sid = sid[c]
       /\ entry[c] \in {"secure", "gone"}
  /\ entry[c] = "await" => ver[c] = "v2" /\ sid[c] = None
  /\ Live(c) =>
       /\ ckey[c] # None /\ skey[c] = ckey[c]
       /\ Cfg(c).ver = "v2" => sid[c] = csid[by[c]] /\ entry[c] \in {"secure", "gone"}
  /\ entry[c] = "secure" /\ ver[c] = "v2" => ckey[c] = skey[c]

\* Ids are issued once; every datagram belongs to the session whose socket
\* sent it or is to get it.
SidInv ==
  /\ \A c, d \in Conns : (sid[c] = sid[d] /\ sid[c] # None) => c = d
  /\ \A i \in Sids : bySID[i] # None => sid[bySID[i]] = i

Owner(d) == IF d.to = None THEN d.from ELSE d.to
NetInv ==
  /\ \A d \in net :
       /\ Owner(d) \in Conns
       /\ d.sid = sid[Owner(d)] /\ d.key = ckey[Owner(d)] /\ d.key = skey[Owner(d)]
       /\ place[Owner(d)] \in {"up", "asked", "over"}
       /\ entry[Owner(d)] \in {"secure", "gone"}
  /\ \A c \in Conns : udpAddr[c] \in {None, c}

Served(c) == Matching(c) /\ ~(Cfg(c).plain /\ Cfg(c).ver = "v1")

\* As long as no fault happens between two ends that match, each frame is
\* the one the other end waits for.
OnTrack(c) ==
  /\ place[c] # "over" /\ c \notin cut
  /\ place[c] = "hello" =>
       \/ entry[c] = "none" /\ up[c] = NewHello(Cfg(c), c) /\ down[c] = None
       \/ /\ skey[c] = DeriveSessionKey(ServerKey, Cfg(c).pub, c, c)
          /\ up[c] = None
          /\ \/ Cfg(c).ver = "v2" /\ entry[c] = "await" /\ down[c] = BuildChallenge(skey[c], c)
             \/ Cfg(c).ver = "v1" /\ entry[c] = "secure" /\ down[c] = BuildAck(skey[c], c)
  /\ place[c] = "auth" =>
       /\ Cfg(c).ver = "v2" /\ ckey[c] = skey[c]
       /\ \/ /\ entry[c] = "await" /\ down[c] = None
             /\ up[c] = AuthFrame(skey[c], Ticket(skey[c], c))
          \/ entry[c] = "secure" /\ up[c] = None /\ down[c] = BuildReady(skey[c], sid[c])
  /\ place[c] = "up" => entry[c] = "secure" /\ up[c] = None /\ down[c] = None
  /\ place[c] = "asked" =>
       /\ entry[c] = "secure"
       /\ \/ up[c] = DataFrame(Cfg(c).ver, skey[c]) /\ down[c] = None
          \/ up[c] = None /\ down[c] = DataFrame(Cfg(c).ver, skey[c])

TrackInv ==
  \A c \in Conns : (place[c] # "none" /\ c \notin fault /\ Served(c)) => OnTrack(c)

IInv == TypeOK /\ DialInv /\ (\A c \in Conns : KeyInv(c)) /\ SidInv /\ NetInv /\ TrackInv

-----------------------------------------------------------------------------
\* A step that leaves a connection and its client alone.
SameAt(e) ==
  /\ cfg' = cfg /\ srvPsk' = srvPsk /\ by'[e] = by[e] /\ place'[e] = place[e]
  /\ ckey'[e] = ckey[e] /\ up'[e] = up[e] /\ down'[e] = down[e]
  /\ entry'[e] = entry[e] /\ ver'[e] = ver[e] /\ skey'[e] = skey[e] /\ sid'[e] = sid[e]
  /\ Live(e) => csid'[by[e]] = csid[by[e]]

\* What is known of a connection does not change with the others.
LEMMA KeyElsewhere ==
  ASSUME NEW e \in Conns, KeyInv(e), SameAt(e)
  PROVE  KeyInv(e)'
  BY DEF KeyInv, SameAt, Cfg, Live, NewHello, BuildHelloAuth

\* Nor does it leave its course.
LEMMA TrackElsewhere ==
  ASSUME NEW e \in Conns, SameAt(e), e \in cut' => e \in cut, fault \subseteq fault',
         (place[e] # "none" /\ e \notin fault /\ Served(e)) => OnTrack(e)
  PROVE  ((place[e] # "none" /\ e \notin fault /\ Served(e)) => OnTrack(e))'
<1>1. Cfg(e)' = Cfg(e) /\ Served(e)' = Served(e)
  BY DEF SameAt, Cfg, Served, Matching
<1> QED
  BY <1>1 DEF SameAt, OnTrack, DeriveSessionKey, BuildChallenge, BuildAck, BuildReady,
     AuthFrame, Ticket, DataFrame, NewHello, BuildHelloAuth

\* A session key is no nil.
LEMMA NoneIsNoKey ==
  ASSUME NEW k \in SessionKeys PROVE k # None
  BY NoneIsNoRecord

\* A step on one connection that has been dialled, and that issues no id,
\* binds none and sends no datagram, keeps the invariant if it keeps what
\* is said of that connection.
LEMMA ClientStep ==
  ASSUME IInv, NEW c \in Conns, TypeOK', KeyInv(c)', by[c] # None,
         (c \notin fault' /\ Served(c) /\ OnTrack(c)) => OnTrack(c)',
         \A e \in Conns : e # c => SameAt(e) /\ (e \in cut' <=> e \in cut),
         UNCHANGED <<config, by, ver, skey, sid, bySID, plane>>, fault \subseteq fault',
         place[c] \notin {"none", "over"} \/ place'[c] = place[c], place'[c] # "none",
         place[c] \in {"up", "asked"} => place'[c] \in {"up", "asked", "over"},
         place[c] \in {"up", "asked", "over"} => ckey'[c] = ckey[c],
         entry[c] \in {"secure", "gone"} => entry'[c] \in {"secure", "gone"}
  PROVE  IInv'
<1> USE DEF config, plane
<1>1. DialInv'
  BY DEF IInv, DialInv, SameAt, TypeOK
<1>2. \A e \in Conns : KeyInv(e)'
  BY KeyElsewhere DEF IInv
<1>3. SidInv'
  BY DEF IInv, SidInv
<1>4. NetInv'
  BY DEF IInv, NetInv, SameAt, Owner, TypeOK
<1>5. TrackInv'
  <2>1. Served(c)' = Served(c)
    BY DEF Served, Matching, Cfg
  <2> QED
    BY <2>1, TrackElsewhere DEF IInv, TrackInv, TypeOK
<1> QED
  BY <1>1, <1>2, <1>3, <1>4, <1>5 DEF IInv

\* The invariant holds before anyone dials.
LEMMA InitIInv == Init => IInv
<1> SUFFICES ASSUME Init PROVE IInv
  OBVIOUS
<1>1. TypeOK
  BY DEF Init, TypeOK, Places, Entries
<1>2. DialInv /\ SidInv /\ NetInv /\ TrackInv
  BY NoneIsNothing DEF Init, DialInv, SidInv, NetInv, TrackInv
<1>3. \A c \in Conns : KeyInv(c)
  BY DEF Init, KeyInv, Live
<1> QED
  BY <1>1, <1>2, <1>3 DEF IInv

\* Hello starts on its course.
LEMMA HelloKeeps ==
  ASSUME IInv, NEW p \in Clients, NEW c \in Conns, Hello(p, c)
  PROVE  IInv'
<1> USE DEF Hello, Say, config, client, server, wire, plane
<1>1. /\ by[c] = None /\ place[c] = "none" /\ up[c] = None /\ down[c] = None
      /\ ckey[c] = None /\ entry[c] = "none" /\ c \notin cut
      /\ skey[c] = None /\ sid[c] = None /\ p # None
  BY NoneIsNothing DEF IInv, TypeOK, DialInv, KeyInv
<1>2. /\ by' = [by EXCEPT ![c] = p] /\ by'[c] = p /\ Cfg(c)' = cfg[p]
      /\ place'[c] = "hello" /\ up'[c] = NewHello(cfg[p], c)
      /\ UNCHANGED <<config, csid, ckey, down, cut, server, plane, fault>>
  BY DEF IInv, TypeOK, Cfg
<1>3. \A e \in Conns : e # c => SameAt(e)
  BY DEF SameAt, IInv, TypeOK
<1>4. TypeOK'
  <2>1. NewHello(cfg[p], c) \in Hellos
    <3>1. cfg[p] \in Configs
      BY CfgsAreConfigs DEF IInv, TypeOK
    <3> QED
      BY <3>1 DEF Hellos, NewHello, BuildHelloAuth, Configs
  <2>2. up' \in [Conns -> ToServer \cup {None}]
    BY <2>1 DEF IInv, TypeOK, ToServer
  <2> QED
    BY <1>1, <1>2, <2>2 DEF IInv, TypeOK, Places
<1>5. DialInv'
  BY <1>1, <1>2, <1>3 DEF IInv, TypeOK, DialInv, SameAt
<1>6. \A e \in Conns : KeyInv(e)'
  <2>1. KeyInv(c)'
    BY <1>1, <1>2 DEF IInv, KeyInv, Live, NewHello
  <2> QED
    BY <1>3, <2>1, KeyElsewhere DEF IInv
<1>7. SidInv'
  BY <1>2 DEF IInv, SidInv
<1>8. NetInv'
  BY <1>1, <1>2, <1>3 DEF IInv, NetInv, SameAt, Owner
<1>9. TrackInv'
  <2>1. OnTrack(c)'
    BY <1>1, <1>2 DEF OnTrack
  <2> QED
    BY <1>2, <1>3, <2>1, TrackElsewhere DEF IInv, TrackInv
<1> QED
  BY <1>4, <1>5, <1>6, <1>7, <1>8, <1>9 DEF IInv

\* GetChallenge derives the key and sends the proof, or ends the session.
LEMMA GetChallengeKeeps ==
  ASSUME IInv, NEW c \in Conns, GetChallenge(c)
  PROVE  IInv'
<1> USE DEF GetChallenge, Take, Say, Over, config, client, server, wire, plane
<1> DEFINE k == DeriveSessionKey(Cfg(c).priv, Cfg(c).peer, c, down[c].sn)
           ok == down[c].type = "challenge" /\ Parses(Cfg(c).priv, Cfg(c).peer)
<1>1. /\ place[c] = "hello" /\ Cfg(c).ver = "v2" /\ by[c] # None /\ ckey[c] = None
      /\ down[c] # None /\ down'[c] = None /\ Cfg(c) \in Configs /\ entry[c] # "none"
      /\ UNCHANGED <<config, csid, by, server, plane, fault>>
  <2>1. by[c] # None /\ by[c] \in Clients
    BY NoneIsNothing DEF IInv, TypeOK
  <2>2. Cfg(c) \in Configs
    BY <2>1, CfgsAreConfigs DEF IInv, TypeOK, Cfg
  <2> QED
    BY <2>1, <2>2 DEF IInv, TypeOK, KeyInv
<1>2. \A e \in Conns : e # c => SameAt(e) /\ (e \in cut' <=> e \in cut)
  BY <1>1 DEF SameAt, IInv, TypeOK
<1>3. CASE ok
  <2>1. /\ ckey' = [ckey EXCEPT ![c] = k] /\ place' = [place EXCEPT ![c] = "auth"]
        /\ up' = [up EXCEPT ![c] = AuthFrame(k, down[c].ticket)] /\ cut' = cut
    BY <1>3
  <2>2. k \in SessionKeys /\ down[c].ticket \in Tickets
    BY <1>1, <1>3 DEF IInv, TypeOK, ToClient, Data, Parses, DeriveSessionKey, SessionKeys, Configs
  <2>3. TypeOK'
    <3>1. up' \in [Conns -> ToServer \cup {None}]
      BY <2>1, <2>2 DEF IInv, TypeOK, ToServer, AuthFrame
    <3> QED
      BY <1>1, <2>1, <2>2, <3>1 DEF IInv, TypeOK, Places
  <2>4. k # None
    BY <1>1, <1>3, <2>2, NoneIsNoKey
  <2>5. KeyInv(c)'
    BY <1>1, <2>1, <2>2, <2>4 DEF IInv, TypeOK, KeyInv, Live, Cfg, AuthFrame, DeriveSessionKey
  <2>6. ASSUME OnTrack(c), Served(c) PROVE OnTrack(c)'
    <3>1. /\ c \notin cut /\ up[c] = None /\ entry[c] = "await"
          /\ down[c] = BuildChallenge(skey[c], c)
          /\ skey[c] = DeriveSessionKey(ServerKey, Cfg(c).pub, c, c)
      BY <1>1, <2>6 DEF OnTrack
    <3>2. k = skey[c] /\ down[c].ticket = Ticket(skey[c], c)
      BY <2>6, <3>1, SMTT(30) DEF Served, Matching, DeriveSessionKey, BuildChallenge
    <3>3. /\ place'[c] = "auth" /\ ckey'[c] = skey[c] /\ down'[c] = None
          /\ up'[c] = AuthFrame(skey[c], Ticket(skey[c], c))
      BY <1>1, <2>1, <3>2 DEF IInv, TypeOK
    <3> QED
      BY <1>1, <2>1, <3>1, <3>3 DEF OnTrack, Cfg
  <2> QED
    BY <1>1, <1>2, <2>1, <2>3, <2>5, <2>6, ClientStep
<1>4. CASE ~ok
  <2>1. /\ place' = [place EXCEPT ![c] = "over"] /\ cut' = cut \cup {c}
        /\ UNCHANGED <<ckey, up>>
    BY <1>4
  <2>2. TypeOK'
    BY <1>1, <2>1 DEF IInv, TypeOK, Places
  <2>3. KeyInv(c)'
    BY <1>1, <2>1 DEF IInv, TypeOK, KeyInv, Live, Cfg
  <2>4. OnTrack(c) /\ Served(c) => FALSE
    BY <1>1, <1>4, ServerHasKey, NoneIsNothing DEF OnTrack, Served, Matching, Parses, BuildChallenge
  <2> QED
    BY <1>1, <1>2, <2>1, <2>2, <2>3, <2>4, ClientStep
<1> QED
  BY <1>3, <1>4

\* GetReady: the mac names the server's key and id.
LEMMA GetReadyKeeps ==
  ASSUME IInv, NEW c \in Conns, GetReady(c)
  PROVE  IInv'
<1> USE DEF GetReady, Take, Over, config, client, server, wire, plane
<1>1. /\ place[c] = "auth" /\ by[c] # None /\ by[c] \in Clients /\ down[c] # None
      /\ down'[c] = None /\ UNCHANGED <<config, by, ckey, up, server, plane, fault>>
  BY NoneIsNothing DEF IInv, TypeOK, KeyInv
<1>2. \A e \in Conns : e # c => SameAt(e) /\ (e \in cut' <=> e \in cut)
  BY <1>1 DEF SameAt, IInv, TypeOK, DialInv, Live
<1>3. CASE VerifyReady(ckey[c], down[c])
  <2>1. /\ csid' = [csid EXCEPT ![by[c]] = down[c].sid]
        /\ place' = [place EXCEPT ![c] = "up"] /\ cut' = cut
    BY <1>3 DEF NextId
  <2>2. /\ down[c].type = "ready" /\ down[c].mac.key = ckey[c] /\ down[c].mac.key = skey[c]
        /\ down[c].mac.key \in SessionKeys /\ down[c].sid = sid[c]
        /\ entry[c] \in {"secure", "gone"}
    BY <1>1, <1>3 DEF VerifyReady, IInv, TypeOK, KeyInv, ToClient, Data
  <2>3. TypeOK'
    BY <1>1, <2>1, <2>2 DEF IInv, TypeOK, Places
  <2>4. KeyInv(c)'
    <3>1. /\ ckey[c] # None /\ skey[c] = ckey[c]
          /\ csid'[by[c]] = sid[c] /\ place'[c] = "up" /\ Cfg(c)' = Cfg(c)
      BY <1>1, <2>1, <2>2, NoneIsNoKey DEF IInv, TypeOK, Cfg
    <3> QED
      BY <1>1, <2>1, <2>2, <3>1 DEF IInv, KeyInv, Live
  <2>5. (OnTrack(c) /\ Served(c)) => OnTrack(c)'
    BY <1>1, <2>1, <2>2 DEF OnTrack, BuildReady, IInv, TypeOK
  <2> QED
    BY <1>1, <1>2, <2>1, <2>3, <2>4, <2>5, ClientStep
<1>4. CASE ~VerifyReady(ckey[c], down[c])
  <2>1. /\ place' = [place EXCEPT ![c] = "over"] /\ cut' = cut \cup {c} /\ csid' = csid
    BY <1>4
  <2>2. TypeOK'
    BY <1>1, <2>1 DEF IInv, TypeOK, Places
  <2>3. KeyInv(c)'
    BY <1>1, <2>1 DEF IInv, TypeOK, KeyInv, Live, Cfg
  <2>4. ~OnTrack(c)
    BY <1>1, <1>4 DEF OnTrack, BuildReady, VerifyReady
  <2> QED
    BY <1>1, <1>2, <2>1, <2>2, <2>3, <2>4, ClientStep
<1> QED
  BY <1>3, <1>4

\* GetAck: the mac names the server's key.
LEMMA GetAckKeeps ==
  ASSUME IInv, NEW c \in Conns, GetAck(c)
  PROVE  IInv'
<1> USE DEF GetAck, Take, Over, config, client, server, wire, plane
<1> DEFINE k == DeriveSessionKey(Cfg(c).priv, Cfg(c).peer, c, down[c].sn)
           ok == Parses(Cfg(c).priv, Cfg(c).peer) /\ VerifyAck(k, down[c])
<1>1. /\ place[c] = "hello" /\ Cfg(c).ver = "v1" /\ by[c] # None /\ ckey[c] = None
      /\ down[c] # None /\ down'[c] = None /\ entry[c] # "none"
      /\ UNCHANGED <<config, csid, by, up, server, plane, fault>>
  BY NoneIsNothing DEF IInv, TypeOK, KeyInv
<1>2. \A e \in Conns : e # c => SameAt(e) /\ (e \in cut' <=> e \in cut)
  BY <1>1 DEF SameAt, IInv, TypeOK
<1>3. CASE ok
  <2>1. /\ ckey' = [ckey EXCEPT ![c] = k] /\ place' = [place EXCEPT ![c] = "up"] /\ cut' = cut
    BY <1>3
  <2>2. /\ down[c].type = "ack" /\ down[c].mac.key = k /\ skey[c] = k /\ k \in SessionKeys
    BY <1>1, <1>3 DEF VerifyAck, IInv, TypeOK, KeyInv, ToClient, Data
  <2>3. TypeOK'
    BY <1>1, <2>1, <2>2 DEF IInv, TypeOK, Places
  <2>4. KeyInv(c)'
    BY <1>1, <2>1, <2>2, NoneIsNoKey, ZenonT(30) DEF IInv, TypeOK, KeyInv, Live, Cfg, DeriveSessionKey
  <2>5. OnTrack(c) => OnTrack(c)'
    BY <1>1, <2>1, <2>2 DEF OnTrack, BuildAck, IInv, TypeOK
  <2> QED
    BY <1>1, <1>2, <2>1, <2>3, <2>4, <2>5, ClientStep
<1>4. CASE ~ok
  <2>1. /\ place' = [place EXCEPT ![c] = "over"] /\ cut' = cut \cup {c} /\ ckey' = ckey
    BY <1>4
  <2>2. TypeOK'
    BY <1>1, <2>1 DEF IInv, TypeOK, Places
  <2>3. KeyInv(c)'
    BY <1>1, <2>1 DEF IInv, TypeOK, KeyInv, Live, Cfg
  <2>4. ASSUME OnTrack(c), Served(c) PROVE FALSE
    <3>1. /\ down[c] = BuildAck(skey[c], c)
          /\ skey[c] = DeriveSessionKey(ServerKey, Cfg(c).pub, c, c)
      BY <1>1, <2>4 DEF OnTrack
    <3>2. k = skey[c]
      BY <2>4, <3>1 DEF Served, Matching, DeriveSessionKey, BuildAck
    <3> QED
      BY <1>4, <2>4, <3>1, <3>2, ServerHasKey, NoneIsNothing
      DEF Served, Matching, Parses, VerifyAck, BuildAck
  <2> QED
    BY <1>1, <1>2, <2>1, <2>2, <2>3, <2>4, ClientStep
<1> QED
  BY <1>3, <1>4

\* The session: a probe, its answer, the end of either kind.
LEMMA SessionKeeps ==
  ASSUME IInv, NEW c \in Conns,
         Probe(c) \/ GetReply(c) \/ Eof(c) \/ GiveUp(c) \/ Cut(c)
  PROVE  IInv'
<1> USE DEF Probe, GetReply, Eof, GiveUp, Cut, Take, Over, Say, config, client, server, wire, plane
<1>1. /\ by[c] # None /\ UNCHANGED <<config, csid, by, ckey, server, plane>>
      /\ place[c] \notin {"none", "over"} \/ (Cut(c) /\ fault \subseteq fault')
  BY NoneIsNothing DEF IInv, TypeOK
<1>2. \A e \in Conns : e # c => SameAt(e) /\ (e \in cut' <=> e \in cut)
  BY <1>1 DEF SameAt, IInv, TypeOK
<1>3. CASE Probe(c)
  <2>1. /\ Form(Cfg(c)) \in {"v1", "v2"} /\ ckey[c] \in SessionKeys /\ ckey[c] # None
    <3>1. Cfg(c) \in Configs
      BY <1>1, CfgsAreConfigs DEF IInv, TypeOK, Cfg
    <3> QED
      BY <1>3, <3>1 DEF Form, Configs, IInv, TypeOK, KeyInv, Live
  <2>2. TypeOK'
    <3>1. up' \in [Conns -> ToServer \cup {None}]
      BY <1>3, <2>1 DEF IInv, TypeOK, ToServer, Data, DataFrame
    <3> QED
      BY <1>1, <1>3, <3>1 DEF IInv, TypeOK, Places
  <2>3. KeyInv(c)'
    BY <1>1, <1>3 DEF IInv, TypeOK, KeyInv, Live, Cfg, DataFrame
  <2>4. Served(c) => Form(Cfg(c)) = Cfg(c).ver
    <3>1. Cfg(c) \in Configs
      BY <1>1, CfgsAreConfigs DEF IInv, TypeOK, Cfg
    <3> QED
      BY <3>1 DEF Served, Form, Configs
  <2>5. (OnTrack(c) /\ Served(c)) => OnTrack(c)'
    BY <1>1, <1>3, <2>4 DEF OnTrack, Cfg, IInv, TypeOK, KeyInv, Live
  <2> QED
    BY <1>1, <1>2, <1>3, <2>2, <2>3, <2>5, ClientStep
<1>4. CASE GetReply(c)
  <2>1. TypeOK'
    BY <1>1, <1>4 DEF IInv, TypeOK, Places
  <2>2. KeyInv(c)'
    BY <1>1, <1>4 DEF IInv, TypeOK, KeyInv, Live, Cfg
  <2>3. Served(c) => Form(Cfg(c)) = Cfg(c).ver
    <3>1. Cfg(c) \in Configs
      BY <1>1, CfgsAreConfigs DEF IInv, TypeOK, Cfg
    <3> QED
      BY <3>1 DEF Served, Form, Configs
  <2>4. (OnTrack(c) /\ Served(c)) => Readable(Form(Cfg(c)), ckey[c], down[c])
    BY <1>4, <2>3 DEF OnTrack, Readable, DataFrame, IInv, KeyInv, Live
  <2>5. (OnTrack(c) /\ Served(c)) => OnTrack(c)'
    BY <1>1, <1>4, <2>4 DEF OnTrack, Cfg, IInv, TypeOK
  <2> QED
    <3>1. place'[c] \in {"up", "over"} /\ fault' = fault
      BY <1>4 DEF IInv, TypeOK
    <3> QED
      BY <1>1, <1>2, <1>4, <2>1, <2>2, <2>5, <3>1, ClientStep
<1>5. CASE Eof(c) \/ GiveUp(c) \/ Cut(c)
  <2>1. /\ UNCHANGED <<up, down>>
        /\ \/ place' = [place EXCEPT ![c] = "over"]
           \/ place' = place
        /\ c \in fault' \/ c \in cut
    BY <1>5 DEF IInv, TypeOK
  <2>2. TypeOK'
    BY <1>1, <1>5 DEF IInv, TypeOK, Places
  <2>3. KeyInv(c)'
    BY <1>1, <2>1 DEF IInv, TypeOK, KeyInv, Live, Cfg
  <2>4. OnTrack(c) => c \in fault'
    BY <2>1 DEF OnTrack
  <2>5. place'[c] # "none" /\ fault \subseteq fault'
    BY <1>1, <1>5 DEF IInv, TypeOK
  <2> QED
    BY <1>1, <1>2, <1>5, <2>1, <2>2, <2>3, <2>4, <2>5, ClientStep DEF IInv, TypeOK
<1> QED
  BY <1>3, <1>4, <1>5

\* A step of the server on one connection keeps the invariant if it keeps
\* what is said of that connection and of the ids.
LEMMA ServerStep ==
  ASSUME IInv, NEW c \in Conns, TypeOK', KeyInv(c)', SidInv', by[c] # None,
         (c \notin fault' /\ Served(c) /\ OnTrack(c)) => OnTrack(c)',
         \A e \in Conns : e # c => SameAt(e) /\ (e \in cut' <=> e \in cut),
         UNCHANGED <<config, client, plane>>, fault \subseteq fault',
         entry[c] \in {"secure", "gone"} =>
           sid'[c] = sid[c] /\ skey'[c] = skey[c] /\ entry'[c] \in {"secure", "gone"}
  PROVE  IInv'
<1> USE DEF config, client, plane
<1>1. DialInv'
  BY DEF IInv, DialInv, SameAt, TypeOK
<1>2. \A e \in Conns : KeyInv(e)'
  BY KeyElsewhere DEF IInv
<1>3. NetInv'
  BY DEF IInv, NetInv, SameAt, Owner, TypeOK
<1>4. TrackInv'
  <2>1. Served(c)' = Served(c)
    BY DEF Served, Matching, Cfg
  <2> QED
    BY <2>1, TrackElsewhere DEF IInv, TrackInv, TypeOK
<1> QED
  BY <1>1, <1>2, <1>3, <1>4 DEF IInv

\* failConn on a dialled connection keeps all but the course.
LEMMA FailKeeps ==
  ASSUME IInv, NEW c \in Conns, Fail(c), by[c] # None, entry[c] # "none" \/ sid[c] = None,
         UNCHANGED <<config, client, plane>>, fault' \in {fault, fault \cup {c}},
         up' \in {up, [up EXCEPT ![c] = None]}, ~OnTrack(c) \/ ~Served(c) \/ c \in fault'
  PROVE  IInv'
<1> USE DEF Fail, config, client, server, wire, plane
<1>1. TypeOK'
  <2>1. bySID' \in [Sids -> Conns \cup {None}]
    BY DEF Unbound, IInv, TypeOK
  <2>2. up' \in [Conns -> ToServer \cup {None}]
    BY DEF IInv, TypeOK
  <2> QED
    BY <2>1, <2>2 DEF IInv, TypeOK, Entries
<1>2. \A e \in Conns : e # c => SameAt(e) /\ (e \in cut' <=> e \in cut)
  BY DEF SameAt, IInv, TypeOK
<1>3. KeyInv(c)'
  <2>1. entry'[c] = "gone" /\ up'[c] \in {up[c], None} /\ Cfg(c)' = Cfg(c)
    BY DEF IInv, TypeOK, Cfg
  <2> QED
    BY <2>1 DEF IInv, KeyInv, Live
<1>4. SidInv'
  BY DEF IInv, SidInv, Unbound
<1>5. (c \notin fault' /\ Served(c) /\ OnTrack(c)) => OnTrack(c)'
  OBVIOUS
<1> QED
  BY <1>1, <1>2, <1>3, <1>4, <1>5, ServerStep DEF IInv, TypeOK

\* GetHello derives the key and answers, or refuses.
LEMMA GetHelloKeeps ==
  ASSUME IInv, NEW c \in Conns, GetHello(c)
  PROVE  IInv'
<1> USE DEF GetHello, Read, config, client, server, wire, plane
<1> DEFINE k == DeriveSessionKey(ServerKey, up[c].pub, up[c].cn, c)
           next == IF up[c].ver = "v2" THEN "await" ELSE "secure"
           reply == IF up[c].ver = "v2" THEN BuildChallenge(k, c) ELSE BuildAck(k, c)
<1>1. /\ by[c] # None /\ up[c] # None /\ entry[c] = "none"
      /\ skey[c] = None /\ sid[c] = None /\ down[c] = None
      /\ up' = [up EXCEPT ![c] = None] /\ UNCHANGED <<config, client, plane>>
  BY DEF IInv, DialInv, KeyInv
<1>2. Cfg(c) \in Configs
  BY <1>1, CfgsAreConfigs DEF IInv, TypeOK, Cfg
<1>3. CASE /\ HelloOk(up[c])
           /\ ver' = [ver EXCEPT ![c] = up[c].ver]
           /\ skey' = [skey EXCEPT ![c] = k]
           /\ \E how \in Answers(c) : Answer(c, how, next, reply)
           /\ UNCHANGED <<sid, bySID, fault>>
  <2>1. PICK how \in Answers(c) : Answer(c, how, next, reply)
    BY <1>3
  <2>2. /\ up[c] = NewHello(Cfg(c), c) /\ up[c].ver = Cfg(c).ver /\ up[c].pub = Cfg(c).pub
        /\ up[c].cn = c /\ Cfg(c).pub # None /\ srvPsk \in {None, Cfg(c).psk}
    BY <1>1, <1>3 DEF HelloOk, IInv, KeyInv, NewHello, VerifyHelloAuth, BuildHelloAuth
  <2>3. k \in SessionKeys /\ k # None /\ k = DeriveSessionKey(ServerKey, Cfg(c).pub, c, c)
    BY <1>2, <2>2, ServerHasKey, NoneIsNoKey DEF DeriveSessionKey, SessionKeys, Configs
  <2>4. reply \in ToClient /\ reply # None
    BY <2>3, NoneIsNoRecord DEF BuildChallenge, BuildAck, ToClient, Tickets, Ticket
  <2>5. /\ cut' = cut /\ entry'[c] \in {next, "gone"} /\ down'[c] \in {None, reply}
        /\ c \notin cut => entry'[c] = next /\ down'[c] = reply
        /\ Cfg(c)' = Cfg(c) /\ skey'[c] = k /\ ver'[c] = Cfg(c).ver /\ up'[c] = None
    BY <1>1, <1>3, <2>1, <2>2 DEF Answer, Answers, IInv, TypeOK, Cfg
  <2>6. TypeOK'
    <3>1. down' \in [Conns -> ToClient \cup {None}] /\ entry' \in [Conns -> Entries]
      BY <2>1, <2>4 DEF Answer, IInv, TypeOK, Entries
    <3>2. up' \in [Conns -> ToServer \cup {None}]
      BY <1>1 DEF IInv, TypeOK
    <3>3. ver' \in [Conns -> {"v1", "v2", None}] /\ skey' \in [Conns -> SessionKeys \cup {None}]
      BY <1>2, <1>3, <2>2, <2>3 DEF IInv, TypeOK, Configs
    <3> QED
      BY <1>1, <1>3, <2>5, <3>1, <3>2, <3>3 DEF IInv, TypeOK
  <2>7. \A e \in Conns : e # c => SameAt(e) /\ (e \in cut' <=> e \in cut)
    BY <1>1, <1>3, <2>1 DEF SameAt, Answer, IInv, TypeOK
  <2>8. ~Live(c) /\ ~Live(c)'
    BY <1>1 DEF IInv, KeyInv, Live
  <2>9. KeyInv(c)'
    <3> HIDE DEF GetHello
    <3>1. KeyInv(c)
      BY DEF IInv
    <3>2. place'[c] = place[c] /\ ckey'[c] = ckey[c] /\ sid'[c] = None
      BY <1>1, <1>3
    <3>3. Cfg(c).ver \in {"v1", "v2"} /\ k.secret = {ServerKey, Cfg(c).pub}
      BY <1>2, <2>3 DEF Configs, DeriveSessionKey
    <3>4. CASE Cfg(c).ver = "v2"
      <4>1. entry'[c] \in {"await", "gone"} /\ down'[c] \in {None, BuildChallenge(k, c)}
        BY <2>2, <2>5, <3>4
      <4> QED
        BY <1>1, <2>2, <2>3, <2>5, <2>8, <3>1, <3>2, <3>3, <3>4, <4>1 DEF KeyInv, BuildChallenge
    <3>5. CASE Cfg(c).ver = "v1"
      <4>1. entry'[c] \in {"secure", "gone"} /\ down'[c] \in {None, BuildAck(k, c)}
        BY <2>2, <2>5, <3>5
      <4> QED
        BY <1>1, <2>2, <2>3, <2>5, <2>8, <3>1, <3>2, <3>3, <3>5, <4>1 DEF KeyInv, BuildAck
    <3> QED
      BY <3>3, <3>4, <3>5
  <2>10. SidInv'
    BY <1>3 DEF IInv, SidInv
  <2>11. OnTrack(c) => OnTrack(c)'
    BY <1>1, <1>2, <2>2, <2>3, <2>5 DEF OnTrack, Configs
  <2> HIDE DEF GetHello, Read
  <2>12. /\ UNCHANGED <<config, client, plane>> /\ fault \subseteq fault'
         /\ entry[c] \notin {"secure", "gone"} /\ by[c] # None
    BY <1>1, <1>3
  <2> QED
    BY <2>6, <2>7, <2>9, <2>10, <2>11, <2>12, ServerStep
<1>4. CASE ~HelloOk(up[c]) /\ Fail(c) /\ UNCHANGED fault
  <2>1. ~OnTrack(c) \/ ~Served(c)
    <3> HIDE DEF GetHello, Read
    <3> SUFFICES ASSUME OnTrack(c), Served(c) PROVE HelloOk(up[c])
      BY <1>4
    <3>1. place[c] \in {"hello", "auth", "up", "asked"}
      BY <1>1 DEF OnTrack, IInv, TypeOK, Places
    <3>2. up[c] = NewHello(Cfg(c), c)
      BY <1>1, <3>1 DEF OnTrack
    <3> QED
      BY <3>2 DEF Served, Matching, HelloOk, NewHello, VerifyHelloAuth, BuildHelloAuth
  <2> QED
    BY <1>1, <1>4, <2>1, FailKeeps
<1>5. CASE Fail(c) /\ fault' = fault \cup {c}
  BY <1>1, <1>5, FailKeeps
<1> QED
  BY <1>3, <1>4, <1>5

\* GetAuth: the proof names the client's key, and the id is new.
LEMMA GetAuthKeeps ==
  ASSUME IInv, NEW c \in Conns, GetAuth(c)
  PROVE  IInv'
<1> USE DEF Read, config, client, server, wire, plane
<1> DEFINE ok == up[c].type = "auth" /\ VerifyAuthProof(skey[c], c, up[c].proof)
<1>1. /\ by[c] # None /\ up[c] # None /\ entry[c] = "await" /\ ver[c] = "v2"
      /\ skey[c] \in SessionKeys /\ skey[c] # None /\ sid[c] = None
      /\ up' = [up EXCEPT ![c] = None] /\ UNCHANGED <<config, client, plane, fault>>
  BY DEF GetAuth, IInv, DialInv, KeyInv, TypeOK
<1>2. CASE /\ ok
           /\ \E i \in NewSid, how \in Answers(c) :
                 /\ sid' = [sid EXCEPT ![c] = i]
                 /\ bySID' = [j \in Sids |-> IF j # i THEN bySID[j]
                                             ELSE IF how = "error" THEN None ELSE c]
                 /\ Answer(c, how, "secure", BuildReady(skey[c], i))
           /\ UNCHANGED <<ver, skey>>
  <2>1. PICK i \in NewSid, how \in Answers(c) :
          /\ sid' = [sid EXCEPT ![c] = i]
          /\ bySID' = [j \in Sids |-> IF j # i THEN bySID[j]
                                      ELSE IF how = "error" THEN None ELSE c]
          /\ Answer(c, how, "secure", BuildReady(skey[c], i))
    BY <1>2
  <2>2. i \in Sids \cup {None} /\ (i # None => \A e \in Conns : sid[e] # i)
    BY DEF NewSid
  <2>3. BuildReady(skey[c], i) \in ToClient /\ BuildReady(skey[c], i) # None
    BY <1>1, <2>2, NoneIsNoRecord DEF BuildReady, ToClient
  <2>4. /\ cut' = cut /\ entry'[c] \in {"secure", "gone"} /\ sid'[c] = i /\ up'[c] = None
        /\ down'[c] \in {down[c], BuildReady(skey[c], i)}
        /\ c \notin cut => entry'[c] = "secure" /\ down'[c] = BuildReady(skey[c], i)
        /\ Cfg(c)' = Cfg(c) /\ skey' = skey /\ ver' = ver
    BY <1>1, <1>2, <2>1 DEF Answer, Answers, IInv, TypeOK, Cfg
  <2>5. TypeOK'
    <3>1. down' \in [Conns -> ToClient \cup {None}] /\ entry' \in [Conns -> Entries]
      BY <2>1, <2>3 DEF Answer, IInv, TypeOK, Entries
    <3>2. up' \in [Conns -> ToServer \cup {None}]
      BY <1>1 DEF IInv, TypeOK
    <3>3. sid' \in [Conns -> Sids \cup {None}] /\ bySID' \in [Sids -> Conns \cup {None}]
      BY <2>1, <2>2 DEF IInv, TypeOK
    <3> QED
      BY <1>1, <2>4, <3>1, <3>2, <3>3 DEF IInv, TypeOK
  <2>6. \A e \in Conns : e # c => SameAt(e) /\ (e \in cut' <=> e \in cut)
    BY <1>1, <2>1, <2>4 DEF SameAt, Answer, IInv, TypeOK
  <2>7. skey[c] = ckey[c] /\ place[c] \notin {"none", "hello"}
    BY <1>1, <1>2 DEF VerifyAuthProof, IInv, KeyInv
  <2>8. ~(Live(c) /\ Cfg(c).ver = "v2") /\ Cfg(c).ver = "v2"
    BY <1>1 DEF IInv, KeyInv
  <2>9. KeyInv(c)'
    <3>1. KeyInv(c) /\ ~Live(c)'
      BY <1>1, <2>8 DEF IInv, Live
    <3>2. /\ down[c] # None => down[c].type # "ready"
          /\ down[c] # None /\ down[c].type = "ack" => down[c].mac.key = skey[c]
          /\ srvPsk \in {None, Cfg(c).psk} /\ skey[c].secret = {ServerKey, Cfg(c).pub}
          /\ ckey[c] # None => ckey[c].secret = {Cfg(c).priv, Cfg(c).peer}
      BY <1>1 DEF IInv, KeyInv
    <3>3. /\ (down'[c] # None /\ down'[c].type = "ack") => down'[c].mac.key = skey[c]
          /\ (down'[c] # None /\ down'[c].type = "ready") =>
               down'[c].mac.key = skey[c] /\ down'[c].sid = i
      BY <2>4, <3>2 DEF BuildReady
    <3>4. place'[c] = place[c] /\ ckey'[c] = ckey[c] /\ srvPsk' = srvPsk /\ ver'[c] = "v2"
      BY <1>1, <2>4
    <3>5. skey'[c] = skey[c] /\ entry'[c] \in {"secure", "gone"} /\ up'[c] = None
          /\ sid'[c] = i /\ Cfg(c)' = Cfg(c) /\ ver[c] = Cfg(c).ver
      BY <1>1, <2>4, <2>8
    <3>6. entry'[c] # "none" /\ entry'[c] # "await"
      BY <3>5
    <3>7. /\ skey'[c] # None =>
               /\ srvPsk' \in {None, Cfg(c)'.psk} /\ ver'[c] = Cfg(c)'.ver
               /\ skey'[c].secret = {ServerKey, Cfg(c)'.pub}
          /\ ckey'[c] # None => ckey'[c].secret = {Cfg(c)'.priv, Cfg(c)'.peer}
      BY <1>1, <2>8, <3>2, <3>4, <3>5
    <3>8. skey'[c] # None /\ place'[c] \notin {"none", "hello"} /\ ckey'[c] = skey'[c]
      BY <1>1, <2>7, <3>4, <3>5
    <3> HIDE DEF ok
    <3> QED
      BY <3>1, <3>3, <3>4, <3>5, <3>6, <3>7, <3>8 DEF KeyInv
  <2>10. SidInv'
    <3>1. ASSUME NEW d \in Conns, NEW e \in Conns, sid'[d] = sid'[e], sid'[d] # None
          PROVE  d = e
      BY <2>1, <2>2, <3>1 DEF IInv, SidInv, TypeOK
    <3>2. ASSUME NEW j \in Sids, bySID'[j] # None
          PROVE  sid'[bySID'[j]] = j
      <4>1. CASE j = i
        BY <2>1, <3>2, <4>1 DEF IInv, TypeOK
      <4>2. CASE j # i
        <5>1. bySID'[j] = bySID[j] /\ bySID[j] \in Conns /\ sid[bySID[j]] = j
          BY <2>1, <3>2, <4>2 DEF IInv, TypeOK, SidInv
        <5>2. bySID[j] # c
          BY <1>1, <5>1, NoneIsNothing
        <5> QED
          BY <2>1, <5>1, <5>2 DEF IInv, TypeOK
      <4> QED
        BY <4>1, <4>2
    <3> QED
      BY <3>1, <3>2 DEF SidInv
  <2>11. OnTrack(c) => OnTrack(c)'
    BY <1>1, <2>4, <2>7 DEF OnTrack
  <2>12. /\ UNCHANGED <<config, client, plane>> /\ fault \subseteq fault'
         /\ entry[c] \notin {"secure", "gone"} /\ by[c] # None
    BY <1>1
  <2> QED
    BY <2>5, <2>6, <2>9, <2>10, <2>11, <2>12, ServerStep
<1>3. CASE ~ok /\ Fail(c)
  <2>1. ~OnTrack(c) \/ ~Served(c)
    <3> SUFFICES ASSUME OnTrack(c) PROVE ok
      BY <1>3
    <3>1. place[c] \in {"hello", "auth", "up", "asked"}
      BY <1>1 DEF OnTrack, IInv, TypeOK, Places
    <3>2. up[c] = AuthFrame(skey[c], Ticket(skey[c], c))
      BY <1>1, <3>1 DEF OnTrack
    <3> QED
      BY <3>2 DEF AuthFrame, VerifyAuthProof
  <2> QED
    BY <1>1, <1>3, <2>1, FailKeeps
<1> QED
  BY <1>2, <1>3 DEF GetAuth

\* GetData answers a frame it can read.
LEMMA GetDataKeeps ==
  ASSUME IInv, NEW c \in Conns, GetData(c)
  PROVE  IInv'
<1> USE DEF Read, config, client, server, wire, plane
<1> DEFINE ok == Readable(ver[c], skey[c], up[c])
<1>1. /\ by[c] # None /\ up[c] # None /\ entry[c] = "secure"
      /\ skey[c] \in SessionKeys /\ skey[c] # None /\ ver[c] = Cfg(c).ver
      /\ up' = [up EXCEPT ![c] = None] /\ UNCHANGED <<config, client, plane, fault>>
  BY DEF GetData, IInv, DialInv, KeyInv, TypeOK
<1>2. Cfg(c) \in Configs
  BY <1>1, CfgsAreConfigs DEF IInv, TypeOK, Cfg
<1>3. CASE /\ ok
           /\ \E how \in Answers(c) :
                /\ Answer(c, how, "secure", DataFrame(ver[c], skey[c]))
                /\ bySID' = IF how = "error" THEN Unbound(c) ELSE bySID
           /\ UNCHANGED <<ver, skey, sid>>
  <2>1. PICK how \in Answers(c) :
          /\ Answer(c, how, "secure", DataFrame(ver[c], skey[c]))
          /\ bySID' = IF how = "error" THEN Unbound(c) ELSE bySID
    BY <1>3
  <2>3. DataFrame(ver[c], skey[c]) \in ToClient
    BY <1>1, <1>2 DEF DataFrame, ToClient, Data, Configs
  <2>4. /\ cut' = cut /\ entry'[c] \in {"secure", "gone"} /\ up'[c] = None
        /\ down'[c] \in {down[c], DataFrame(ver[c], skey[c])}
        /\ c \notin cut => entry'[c] = "secure" /\ down'[c] = DataFrame(ver[c], skey[c])
        /\ Cfg(c)' = Cfg(c) /\ skey' = skey /\ ver' = ver /\ sid' = sid
    BY <1>1, <1>3, <2>1 DEF Answer, Answers, IInv, TypeOK, Cfg
  <2>5. bySID' \in [Sids -> Conns \cup {None}]
        /\ \A i \in Sids : bySID'[i] \in {bySID[i], None}
    BY <2>1 DEF Unbound, IInv, TypeOK
  <2>6. TypeOK'
    <3>1. down' \in [Conns -> ToClient \cup {None}] /\ entry' \in [Conns -> Entries]
      BY <2>1, <2>3 DEF Answer, IInv, TypeOK, Entries
    <3>2. up' \in [Conns -> ToServer \cup {None}]
      BY <1>1 DEF IInv, TypeOK
    <3> QED
      BY <1>1, <2>4, <2>5, <3>1, <3>2 DEF IInv, TypeOK
  <2>7. \A e \in Conns : e # c => SameAt(e) /\ (e \in cut' <=> e \in cut)
    BY <1>1, <2>1, <2>4 DEF SameAt, Answer, IInv, TypeOK
  <2>8. KeyInv(c)'
    <3>1. KeyInv(c) /\ Live(c)' = Live(c)
      BY <1>1 DEF IInv, Live
    <3> QED
      BY <1>1, <2>4, <3>1 DEF KeyInv, DataFrame
  <2>9. SidInv'
    BY <2>4, <2>5 DEF IInv, SidInv
  <2>10. (OnTrack(c) /\ Served(c)) => OnTrack(c)'
    <3> SUFFICES ASSUME OnTrack(c) PROVE OnTrack(c)'
      OBVIOUS
    <3>1. place[c] = "asked"
      BY <1>1 DEF OnTrack, IInv, TypeOK, Places
    <3> QED
      BY <1>1, <2>4, <3>1 DEF OnTrack
  <2>11. /\ UNCHANGED <<config, client, plane>> /\ fault \subseteq fault' /\ by[c] # None
    BY <1>1
  <2> QED
    BY <2>4, <2>6, <2>7, <2>8, <2>9, <2>10, <2>11, ServerStep
<1>4. CASE ~ok /\ Fail(c)
  <2>1. ~OnTrack(c) \/ ~Served(c)
    <3> SUFFICES ASSUME OnTrack(c) PROVE ok
      BY <1>4
    <3>1. place[c] \in {"hello", "auth", "up", "asked"}
      BY <1>1 DEF OnTrack, IInv, TypeOK, Places
    <3>2. up[c] = DataFrame(Cfg(c).ver, skey[c])
      BY <1>1, <3>1 DEF OnTrack
    <3> QED
      BY <1>1, <3>2 DEF DataFrame, Readable
  <2> QED
    BY <1>1, <1>4, <2>1, FailKeeps
<1> QED
  BY <1>3, <1>4 DEF GetData

\* Reap is a failConn by the reaper.
LEMMA ReapKeeps ==
  ASSUME IInv, NEW c \in Conns, Reap(c)
  PROVE  IInv'
<1>1. /\ by[c] # None /\ entry[c] # "none" /\ Fail(c) /\ fault' = fault \cup {c}
      /\ up' = up /\ UNCHANGED <<config, client, plane>>
  BY DEF Reap, IInv, DialInv
<1> QED
  BY <1>1, FailKeeps

\* A datagram is sent by a live session, with its id and its key.
LEMMA DatagramKeeps ==
  ASSUME IInv, NEW c \in Conns, Datagram(c)
  PROVE  IInv'
<1> USE DEF config, client, server, wire, plane
<1> DEFINE d == BuildDatagramFrame(c, None, csid[by[c]], ckey[c])
<1>1. /\ UNCHANGED <<config, client, wire, server, udpAddr, fault>> /\ net' = net \cup {d}
      /\ Live(c) /\ Cfg(c).ver = "v2" /\ csid[by[c]] # None
  BY DEF Datagram
<1>2. by[c] \in Clients /\ by[c] # None
  BY <1>1, NoneIsNothing DEF IInv, TypeOK, Live
<1>3. /\ csid[by[c]] \in Sids /\ ckey[c] \in SessionKeys
      /\ sid[c] = csid[by[c]] /\ skey[c] = ckey[c] /\ entry[c] \in {"secure", "gone"}
  BY <1>1, <1>2 DEF IInv, TypeOK, KeyInv
<1>4. TypeOK'
  BY <1>1, <1>3 DEF IInv, TypeOK, Datagrams, BuildDatagramFrame
<1>5. NetInv'
  BY <1>1, <1>3 DEF IInv, NetInv, Owner, BuildDatagramFrame, Live
<1>6. DialInv' /\ SidInv'
  BY <1>1 DEF IInv, DialInv, SidInv
<1>7. \A e \in Conns : SameAt(e)
  BY <1>1 DEF SameAt
<1> QED
  BY <1>1, <1>4, <1>5, <1>6, <1>7, KeyElsewhere, TrackElsewhere DEF IInv, TrackInv

\* A datagram that arrives finds the session it came from.
LEMMA GetDatagramKeeps ==
  ASSUME IInv, NEW d \in net, GetDatagram(d)
  PROVE  IInv'
<1> USE DEF config, client, server, wire, plane
<1> DEFINE c == bySID[d.sid]
<1>1. /\ UNCHANGED <<config, client, wire, server, fault>> /\ d.to = None /\ c # None
      /\ entry[c] = "secure" /\ udpAddr' = [udpAddr EXCEPT ![c] = d.from]
      /\ net' \in {net, net \cup {BuildDatagramFrame(None, d.from, sid[c], skey[c])}}
  BY DEF GetDatagram
<1>2. d \in Datagrams /\ d.sid \in Sids /\ c \in Conns /\ sid[c] = d.sid
  BY <1>1 DEF IInv, TypeOK, SidInv, Datagrams
<1>3. /\ d.from = c /\ d.key = skey[c] /\ skey[c] = ckey[c] /\ skey[c] \in SessionKeys
      /\ place[c] \in {"up", "asked", "over"}
  BY <1>1, <1>2, NoneIsNothing DEF IInv, SidInv, NetInv, Owner, Datagrams
<1>4. TypeOK'
  BY <1>1, <1>2, <1>3 DEF IInv, TypeOK, Datagrams, BuildDatagramFrame
<1>5. NetInv'
  BY <1>1, <1>2, <1>3, NoneIsNothing DEF IInv, TypeOK, NetInv, Owner, BuildDatagramFrame
<1>6. DialInv' /\ SidInv'
  BY <1>1 DEF IInv, DialInv, SidInv
<1>7. \A e \in Conns : SameAt(e)
  BY <1>1 DEF SameAt
<1> QED
  BY <1>1, <1>4, <1>5, <1>6, <1>7, KeyElsewhere, TrackElsewhere DEF IInv, TrackInv

-----------------------------------------------------------------------------
\* Every step keeps the invariant.
LEMMA StepIInv == IInv /\ [Next]_vars => IInv'
<1> SUFFICES ASSUME IInv, [Next]_vars PROVE IInv'
  OBVIOUS
<1>1. ASSUME NEW p \in Clients, NEW c \in Conns, Hello(p, c) PROVE IInv'
  BY <1>1, HelloKeeps
<1>2. ASSUME NEW c \in Conns,
             Handle(c) \/ Probe(c) \/ Datagram(c) \/ GiveUp(c) \/ Reap(c) \/ Cut(c)
      PROVE IInv'
  BY <1>2, GetChallengeKeeps, GetReadyKeeps, GetAckKeeps, SessionKeeps, GetHelloKeeps,
     GetAuthKeeps, GetDataKeeps, DatagramKeeps, ReapKeeps DEF Handle
<1>3. ASSUME NEW d \in net, GetDatagram(d) PROVE IInv'
  BY <1>3, GetDatagramKeeps
<1>4. CASE UNCHANGED vars
  <2> USE DEF vars, config, client, server, wire, plane
  <2>1. TypeOK' /\ DialInv' /\ SidInv' /\ NetInv'
    BY <1>4 DEF IInv, TypeOK, DialInv, SidInv, NetInv, Owner
  <2>2. \A e \in Conns : SameAt(e)
    BY <1>4 DEF SameAt
  <2> QED
    BY <1>4, <2>1, <2>2, KeyElsewhere, TrackElsewhere DEF IInv, TrackInv
<1> QED
  BY <1>1, <1>2, <1>3, <1>4 DEF Next

LEMMA Invariant == Spec => []IInv
  BY InitIInv, StepIInv, PTL DEF Spec

\* The variables of both ends keep their types.
THEOREM Typing == Spec => []TypeOK
<1>1. IInv => TypeOK
  BY DEF IInv
<1> QED
  BY <1>1, Invariant, PTL

\* Equal keys mean matching configurations: no client has the server's
\* private key, so that the secrets agree only if both have the other's
\* public key.
LEMMA EqualKeysMatch ==
  ASSUME IInv, NEW c \in Conns, ckey[c] # None, skey[c] = ckey[c]
  PROVE  Matching(c)
<1>1. by[c] # None
  BY DEF IInv, DialInv
<1>2. Cfg(c).priv # ServerKey
  BY <1>1, CfgsAreConfigs DEF IInv, TypeOK, Cfg
<1>3. {ServerKey, Cfg(c).pub} = {Cfg(c).priv, Cfg(c).peer} /\ srvPsk \in {None, Cfg(c).psk}
  BY DEF IInv, KeyInv
<1>4. Cfg(c).peer = ServerKey
  <2>1. ServerKey \in {Cfg(c).priv, Cfg(c).peer}
    BY <1>3
  <2> QED
    BY <1>2, <2>1
<1>5. Cfg(c).priv = Cfg(c).pub
  <2>1. Cfg(c).priv \in {ServerKey, Cfg(c).pub}
    BY <1>3
  <2> QED
    BY <1>2, <2>1
<1>6. Cfg(c).priv # None
  <2>1. ckey[c] \in SessionKeys
    BY DEF IInv, TypeOK
  <2>2. Cfg(c).priv \in ckey[c].secret
    BY DEF IInv, KeyInv
  <2> QED
    BY <2>1, <2>2, NoneIsNothing DEF SessionKeys
<1> QED
  BY <1>3, <1>4, <1>5, <1>6 DEF Matching

\* A client with a session has a matching server with the same key and id.
THEOREM ClientKnowsServerAlways == Spec => []ClientKnowsServer
<1>1. IInv => ClientKnowsServer
  BY EqualKeysMatch DEF IInv, KeyInv, ClientKnowsServer
<1> QED
  BY <1>1, Invariant, PTL

\* A secure v2 state has a matching client with the same key.
THEOREM ServerKnowsClientAlways == Spec => []ServerKnowsClient
<1>1. IInv => ServerKnowsClient
  BY EqualKeysMatch DEF IInv, KeyInv, ServerKnowsClient
<1> QED
  BY <1>1, Invariant, PTL

\* The UDP plane of a session leads to its own client.
THEOREM PlaneIsOwnAlways == Spec => []PlaneIsOwn
<1>1. IInv => PlaneIsOwn
  BY DEF IInv, NetInv, PlaneIsOwn, Owner
<1> QED
  BY <1>1, Invariant, PTL

\* Without a fault, only ends that do not match part.
THEOREM RefusedForAReasonAlways == Spec => []RefusedForAReason
<1>1. IInv => RefusedForAReason
  BY DEF IInv, TrackInv, OnTrack, Served, RefusedForAReason
<1> QED
  BY <1>1, Invariant, PTL

-----------------------------------------------------------------------------
(* No end waits for one that waits for it.                                 *)

\* An entry leaves the table only with its connection: failConn closes it, and
\* a write that fails fails because it is closed.
GoneIsCut == \A c \in Conns : entry[c] = "gone" => c \in cut

WaitInv == GoneIsCut /\ NoMutualWait

\* What WaitInv says of one connection.
WaitAt(c) ==
  /\ entry[c] = "gone" => c \in cut
  /\ Waits(c) => (up[c] # None /\ entry[c] # "gone") \/ down[c] # None \/ c \in cut

LEMMA WaitElsewhere ==
  ASSUME WaitInv, NEW c \in Conns, WaitAt(c)', cut \subseteq cut',
         \A e \in Conns \ {c} : /\ place'[e] = place[e] /\ up'[e] = up[e]
                                /\ down'[e] = down[e] /\ entry'[e] = entry[e]
  PROVE  WaitInv'
BY DEF WaitInv, GoneIsCut, NoMutualWait, WaitAt, Waits

\* The frames are frames, which None is not.
LEMMA FramesAreSomething ==
  ASSUME NEW v \in {"v1", "v2"}, NEW k \in SessionKeys, NEW c \in Conns,
         NEW i \in Sids \cup {None}
  PROVE  /\ DataFrame(v, k) # None /\ \A t \in Tickets : AuthFrame(k, t) # None
         /\ BuildChallenge(k, c) # None /\ BuildAck(k, c) # None /\ BuildReady(k, i) # None
<1>1. Ticket(k, c) \in Tickets
  BY DEF Ticket, Tickets
<1>2. DataFrame(v, k) \in ToServer /\ \A t \in Tickets : AuthFrame(k, t) \in ToServer
  BY DEF ToServer, Data, DataFrame, AuthFrame
<1>3. BuildChallenge(k, c) \in ToClient /\ BuildAck(k, c) \in ToClient /\ BuildReady(k, i) \in ToClient
  BY <1>1 DEF ToClient, BuildChallenge, BuildAck, BuildReady
<1> QED
  BY <1>2, <1>3, NoneIsNoRecord

\* A client that begins to wait has sent a frame; what it is sent or the end
\* of the connection ends its wait.
LEMMA ClientWaits ==
  ASSUME IInv, WaitInv, NEW c \in Conns,
         \/ \E p \in Clients : Hello(p, c)
         \/ GetChallenge(c) \/ GetReady(c) \/ GetAck(c) \/ GetReply(c) \/ Eof(c)
         \/ Probe(c) \/ GiveUp(c)
  PROVE  WaitInv'
<1> USE DEF server, wire, client, config
<1>1. /\ entry' = entry /\ cut \subseteq cut'
      /\ \A e \in Conns \ {c} : place'[e] = place[e] /\ up'[e] = up[e] /\ down'[e] = down[e]
  BY DEF Hello, GetChallenge, GetReady, GetAck, GetReply, Eof, Probe, GiveUp, Say, Over, Take,
    IInv, TypeOK
<1>2. place'[c] \in {"hello", "auth", "asked"} => up'[c] # None
  <2>1. ASSUME NEW p \in Clients, Hello(p, c) PROVE up'[c] # None
    <3>1. up'[c] = NewHello(cfg[p], c) /\ cfg[p] \in Configs
      BY <2>1, CfgsAreConfigs DEF Hello, Say, IInv, TypeOK
    <3>2. NewHello(cfg[p], c) \in ToServer
      BY <3>1 DEF NewHello, BuildHelloAuth, ToServer, Hellos, Configs
    <3> QED
      BY <3>1, <3>2, NoneIsNoRecord
  <2>2. CASE GetChallenge(c)
    <3> DEFINE k == DeriveSessionKey(Cfg(c).priv, Cfg(c).peer, c, down[c].sn)
               ok == down[c].type = "challenge" /\ Parses(Cfg(c).priv, Cfg(c).peer)
    <3>1. CASE ok
      <4>1. Cfg(c) \in Configs /\ down[c] \in ToClient
        <5>1. by[c] \in Clients
          BY <2>2, NoneIsNothing DEF GetChallenge, IInv, TypeOK
        <5> QED
          BY <2>2, <5>1, CfgsAreConfigs DEF GetChallenge, Take, IInv, TypeOK, Cfg
      <4>2. k \in SessionKeys /\ down[c].ticket \in Tickets
        BY <3>1, <4>1 DEF ToClient, Data, Parses, DeriveSessionKey, SessionKeys, Configs
      <4>3. up'[c] = AuthFrame(k, down[c].ticket)
        BY <2>2, <3>1 DEF GetChallenge, Say, IInv, TypeOK
      <4> HIDE DEF k
      <4> QED
        BY <4>2, <4>3, FramesAreSomething
    <3>2. CASE ~ok
      BY <2>2, <3>2 DEF GetChallenge, Over, IInv, TypeOK
    <3> QED
      BY <3>1, <3>2
  <2>3. CASE Probe(c)
    <3>1. ckey[c] \in SessionKeys /\ Form(Cfg(c)) \in {"v1", "v2"}
      <4>1. Cfg(c) \in Configs
        BY <2>3, CfgsAreConfigs, NoneIsNothing DEF Probe, IInv, TypeOK, Cfg
      <4> QED
        BY <2>3, <4>1 DEF Probe, IInv, TypeOK, KeyInv, Live, Form, Configs
    <3>2. up'[c] = DataFrame(Form(Cfg(c)), ckey[c])
      BY <2>3 DEF Probe, Say, IInv, TypeOK
    <3> QED
      BY <3>1, <3>2, FramesAreSomething
  <2>4. CASE GetReady(c) \/ GetAck(c) \/ GetReply(c) \/ Eof(c) \/ GiveUp(c)
    BY <2>4 DEF GetReady, GetAck, GetReply, Eof, GiveUp, Over, IInv, TypeOK
  <2> QED
    BY <2>1, <2>2, <2>3, <2>4
<1>3. WaitAt(c)'
  BY <1>1, <1>2 DEF WaitAt, WaitInv, GoneIsCut, Waits
<1> QED
  BY <1>1, <1>3, WaitElsewhere

\* The server answers what it reads, or the connection is cut.
LEMMA ServerWaits ==
  ASSUME IInv, WaitInv, NEW c \in Conns, GetHello(c) \/ GetAuth(c) \/ GetData(c) \/ Reap(c)
  PROVE  WaitInv'
<1> USE DEF client, config
<1>1. /\ place' = place /\ cut \subseteq cut'
      /\ \A e \in Conns \ {c} : up'[e] = up[e] /\ down'[e] = down[e] /\ entry'[e] = entry[e]
  BY DEF GetHello, GetAuth, GetData, Reap, Read, Fail, Answer, IInv, TypeOK
<1>2. ASSUME NEW how \in Answers(c), NEW e \in {"await", "secure"}, NEW f, f # None,
             Answer(c, how, e, f)
      PROVE  c \in cut' \/ (entry'[c] # "gone" /\ down'[c] # None)
  BY <1>2 DEF Answer, Answers, IInv, TypeOK
<1>3. c \in cut' \/ (entry'[c] # "gone" /\ down'[c] # None)
  <2>1. CASE Fail(c)
    BY <2>1 DEF Fail
  <2>2. CASE GetHello(c) /\ ~Fail(c)
    <3> DEFINE k == DeriveSessionKey(ServerKey, up[c].pub, up[c].cn, c)
    <3>1. up[c] \in Hellos /\ up[c].pub # None
      BY <2>2 DEF GetHello, Read, HelloOk, IInv, TypeOK, ToServer, Data
    <3>2. k \in SessionKeys
      BY <3>1, ServerHasKey DEF Hellos, DeriveSessionKey, SessionKeys
    <3>3. \E how \in Answers(c) :
            Answer(c, how, IF up[c].ver = "v2" THEN "await" ELSE "secure",
                   IF up[c].ver = "v2" THEN BuildChallenge(k, c) ELSE BuildAck(k, c))
      BY <2>2 DEF GetHello
    <3>4. BuildChallenge(k, c) # None /\ BuildAck(k, c) # None
      <4> HIDE DEF k
      <4> QED
        BY <3>2, FramesAreSomething
    <3> HIDE DEF k
    <3> QED
      BY <1>2, <3>3, <3>4
  <2>3. CASE GetAuth(c) /\ ~Fail(c)
    <3>1. skey[c] \in SessionKeys
      BY <2>3 DEF GetAuth, Read, IInv, TypeOK, KeyInv
    <3>2. PICK i \in NewSid, how \in Answers(c) :
            Answer(c, how, "secure", BuildReady(skey[c], i))
      BY <2>3 DEF GetAuth
    <3>3. BuildReady(skey[c], i) # None
      BY <3>1, FramesAreSomething DEF NewSid
    <3> QED
      BY <1>2, <3>2, <3>3
  <2>4. CASE GetData(c) /\ ~Fail(c)
    <3>1. skey[c] \in SessionKeys /\ ver[c] \in {"v1", "v2"}
      <4>1. by[c] # None /\ skey[c] # None
        BY <2>4 DEF GetData, Read, IInv, DialInv, KeyInv
      <4>2. Cfg(c) \in Configs
        BY <4>1, CfgsAreConfigs DEF IInv, TypeOK, Cfg
      <4> QED
        BY <4>1, <4>2 DEF IInv, TypeOK, KeyInv, Configs
    <3>2. PICK how \in Answers(c) : Answer(c, how, "secure", DataFrame(ver[c], skey[c]))
      BY <2>4 DEF GetData
    <3>3. DataFrame(ver[c], skey[c]) # None
      BY <3>1, FramesAreSomething
    <3> QED
      BY <1>2, <3>2, <3>3
  <2>5. CASE Reap(c)
    BY <2>5 DEF Reap, Fail
  <2> QED
    BY <2>1, <2>2, <2>3, <2>4, <2>5
<1>4. WaitAt(c)'
  <2>1. entry'[c] = "gone" => c \in cut'
    BY <1>3
  <2> QED
    BY <1>3, <2>1 DEF WaitAt
<1> QED
  BY <1>1, <1>4, WaitElsewhere

LEMMA NextWaits == IInv /\ WaitInv /\ [Next]_vars => WaitInv'
<1> SUFFICES ASSUME IInv, WaitInv, [Next]_vars PROVE WaitInv'
  OBVIOUS
<1> USE DEF WaitInv, GoneIsCut, NoMutualWait, Waits, client, wire, server, plane, config
<1>1. ASSUME NEW c \in Conns, Datagram(c) \/ Cut(c) PROVE WaitInv'
  BY <1>1 DEF Datagram, Cut
<1>2. ASSUME NEW d \in net, GetDatagram(d) PROVE WaitInv'
  BY <1>2 DEF GetDatagram
<1>3. CASE UNCHANGED vars
  BY <1>3 DEF vars
<1> QED
  BY <1>1, <1>2, <1>3, ClientWaits, ServerWaits DEF Next, Handle

\* A client that waits has something to wait for: its frame before a server
\* that reads, an answer, or the end of the connection.
THEOREM NoMutualWaitAlways == Spec => []NoMutualWait
<1>1. Init => WaitInv
  BY DEF Init, WaitInv, GoneIsCut, NoMutualWait, Waits
<1>2. WaitInv => NoMutualWait
  BY DEF WaitInv
<1> QED
  BY <1>1, <1>2, Invariant, NextWaits, PTL DEF Spec
=============================================================================
