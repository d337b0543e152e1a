---------------------------- MODULE ClientPolicy ----------------------------
(***************************************************************************)
(* The probing client: the loop of internal/client/client.go with the      *)
(* transport policy of internal/policy/policy.go.                          *)
(*                                                                         *)
(* A session is one TCP connection and, when the server gave it an id, one *)
(* UDP socket.  Every three seconds the client sends a probe: over UDP if  *)
(* the policy says so, and over TCP when that brings no answer.  Any       *)
(* failure over TCP ends the session.  The UDP socket loses, duplicates    *)
(* and reorders; the client takes whatever reply it reads as its answer,   *)
(* without a look at the sequence number.                                  *)
(*                                                                         *)
(* Replies are named by the request they answer, seen from now: "cur" the  *)
(* probe under way, "old" an earlier probe or the bind of this session.    *)
(* Only ProtocolVersion "v2" is modelled, and VerifyReady's verdict is its *)
(* first result, the one doHandshake means to test.                        *)
(***************************************************************************)
EXTENDS Naturals

CONSTANTS
  DefaultMode,     \* TransportMode: "udp" or "tcp"
  MultiTransport,  \* EnableMultiTransport, with a ServerUDP
  MaxFailures      \* the counters stop here (bound); the code compares with 2 and 3

ASSUME ConfigOk == DefaultMode \in {"udp", "tcp"} /\ MultiTransport \in BOOLEAN
ASSUME BoundOk == MaxFailures \in Nat /\ MaxFailures > 3

VARIABLES
  e,          \* policy.Engine
  pc,         \* where the client is
  uc,         \* is there a UDP socket
  air,        \* the replies the UDP socket may still deliver
  wire,       \* the replies the TCP connection may still deliver
  slow,       \* has the probe under way waited for UDP in vain
  cancelled,  \* ctx.Done()
  answer,     \* history: the last answer, and how it came
  tcpFailed   \* history: has a probe failed over TCP since the last success

session == <<uc, air, wire, slow>>
vars == <<e, pc, session, cancelled, answer, tcpFailed>>

-----------------------------------------------------------------------------
(* policy.Engine.                                                          *)

\* lastRTT, as far as the code compares it: none yet, below 120 ms, below
\* 250 ms, longer.  since: the time since lastSwitchAt, as 0 (up to 2 s),
\* 1 (above 2 s) or 2 (above 8 s).
RTTs == {"none", "lt120", "lt250", "long"}
Engines == [current : {"udp", "tcp"}, failuresUDP : 0..MaxFailures,
            consecutiveFailures : 0..MaxFailures, since : 0..2, lastRTT : RTTs,
            profile : {"stealth", "recovery", "aggressive"}]

NewEngine == [current |-> DefaultMode, failuresUDP |-> 0, consecutiveFailures |-> 0,
              since |-> 0, lastRTT |-> "none", profile |-> "stealth"]

Profile(failures, rtt, mode) ==
  IF failures >= 2 THEN "recovery"
  ELSE IF rtt = "lt120" /\ mode = "udp" THEN "aggressive" ELSE "stealth"

\* One more failure.  Mutant: the second counter is forgotten.
Incr(n) == IF n < MaxFailures THEN n + 1 ELSE n
ConsecutiveAfter_same(n) == n
ConsecutiveAfter(n) == Incr(n)

\* Mutant: one failure is enough.
Enough_one(c, f) == c >= 1 \/ f >= 3
Enough(c, f) == c >= 2 \/ f >= 3

\* Observe(false, 0)
ObserveFail ==
  LET c == ConsecutiveAfter(e.consecutiveFailures)
      f == Incr(e.failuresUDP)
      switch == e.current = "udp" /\ Enough(c, f) /\ e.since >= 1
      mode == IF switch THEN "tcp" ELSE e.current
  IN  [current |-> mode, failuresUDP |-> f, consecutiveFailures |-> c,
       since |-> IF switch THEN 0 ELSE e.since, lastRTT |-> e.lastRTT,
       profile |-> Profile(c, e.lastRTT, mode)]

\* Mutant: only a reply below 120 ms leads back to UDP.
FastEnough_120(rtt) == rtt = "lt120"
FastEnough(rtt) == rtt \in {"lt120", "lt250"}

\* Observe(true, rtt)
ObserveOk(rtt) ==
  LET switch == e.current # "udp" /\ FastEnough(rtt) /\ e.since = 2
      mode == IF switch THEN "udp" ELSE e.current
  IN  [current |-> mode, failuresUDP |-> 0, consecutiveFailures |-> 0,
       since |-> IF switch THEN 0 ELSE e.since, lastRTT |-> rtt,
       profile |-> Profile(0, rtt, mode)]

-----------------------------------------------------------------------------
(* The client.                                                             *)

Places == {"dial", "shake", "bind", "idle", "udp", "tcp", "sleep", "stopped"}
Replies == {"cur", "old"}

TypeOK ==
  /\ e \in Engines
  /\ pc \in Places
  /\ uc \in BOOLEAN
  /\ air \subseteq Replies
  /\ wire \subseteq Replies
  /\ slow \in BOOLEAN
  /\ cancelled \in BOOLEAN
  /\ answer \in [via : {"none", "udp", "tcp"}, to : Replies]
  /\ tcpFailed \in BOOLEAN
  /\ pc \in {"bind", "udp"} => uc

Init ==
  /\ e = NewEngine
  /\ pc = "dial"
  /\ uc = FALSE /\ air = {} /\ wire = {} /\ slow = FALSE
  /\ cancelled = FALSE
  /\ answer = [via |-> "none", to |-> "cur"]
  /\ tcpFailed = FALSE

\* tcp.Dial, and Run's pause of two seconds when it fails.  A new connection
\* and a new socket know nothing of the replies to the last ones.
Dial(ok) ==
  /\ pc = "dial"
  /\ pc' = IF ok THEN "shake" ELSE "sleep"
  /\ uc' = FALSE /\ air' = {} /\ wire' = {}
  /\ UNCHANGED <<e, slow, cancelled, answer, tcpFailed>>

\* doHandshake fails, at any of its steps.
ShakeFail ==
  /\ pc = "shake"
  /\ pc' = "sleep"
  /\ UNCHANGED <<e, session, cancelled, answer, tcpFailed>>

\* doHandshake succeeds, and the UDP plane is dialled: not without a session
\* id, which the server may fail to make, and udp.Dial may fail as well.
Shake(plane) ==
  /\ pc = "shake"
  /\ uc' = (plane /\ MultiTransport)
  /\ pc' = IF uc' THEN "bind" ELSE "idle"
  /\ UNCHANGED <<e, air, wire, slow, cancelled, answer, tcpFailed>>

\* bindUDPPlane waits up to two seconds and ignores what comes of it; its reply
\* may be read there, come later, or never.
BindUDP ==
  /\ pc = "bind"
  /\ pc' = "idle"
  /\ air' \in {air, air \cup {"old"}}
  /\ UNCHANGED <<e, uc, wire, slow, cancelled, answer, tcpFailed>>

Older(replies) == {"old" : k \in replies}

\* Mutant: nobody looks whether there is a socket.
UseUDP_anyway == e.current = "udp"
UseUDP == e.current = "udp" /\ uc

\* The ticker: a probe goes out over UDP, and its reply may come or not.
TickUDP ==
  /\ pc = "idle"
  /\ UseUDP
  /\ pc' = "udp"
  /\ air' \in {Older(air), Older(air) \cup {"cur"}}
  /\ wire' = Older(wire)
  /\ slow' = FALSE
  /\ UNCHANGED <<e, uc, cancelled, answer, tcpFailed>>

\* The ticker: a probe goes out over TCP.
TickTCP ==
  /\ pc = "idle"
  /\ ~UseUDP
  /\ pc' = "tcp"
  /\ air' = Older(air)
  /\ wire' \in {Older(wire), Older(wire) \cup {"cur"}}
  /\ slow' = FALSE
  /\ UNCHANGED <<e, uc, cancelled, answer, tcpFailed>>

\* A probe that waited three seconds for UDP has no short round trip.
RTTok(rtt) == rtt # "none" /\ (slow => rtt = "long")

\* uc.Receive returns a reply, be it a late or a duplicated one.
UdpReply(k, rtt) ==
  /\ pc = "udp"
  /\ k \in air
  /\ RTTok(rtt)
  /\ pc' = "idle"
  /\ air' \in {air, air \ {k}}
  /\ e' = ObserveOk(rtt)
  /\ answer' = [via |-> "udp", to |-> k]
  /\ tcpFailed' = FALSE
  /\ UNCHANGED <<uc, wire, slow, cancelled>>

\* The datagram cannot be sent, no reply comes within three seconds, or it
\* does not decrypt: the policy is told and the probe goes out over TCP.
UdpFault(waited) ==
  /\ pc = "udp"
  /\ pc' = "tcp"
  /\ e' = ObserveFail
  /\ slow' = waited
  /\ wire' \in {wire, wire \cup {"cur"}}
  /\ UNCHANGED <<uc, air, cancelled, answer, tcpFailed>>

\* tc.Receive returns a reply.
TcpReply(k, rtt) ==
  /\ pc = "tcp"
  /\ k \in wire
  /\ RTTok(rtt)
  /\ pc' = "idle"
  /\ wire' = wire \ {k}
  /\ e' = ObserveOk(rtt)
  /\ answer' = [via |-> "tcp", to |-> k]
  /\ tcpFailed' = FALSE
  /\ UNCHANGED <<uc, air, slow, cancelled>>

\* Mutant: a failed probe does not end the session.
AfterTcpFail_stay == "idle"
AfterTcpFail == "sleep"

\* Send or Receive fails or times out, or the reply does not decrypt: the
\* session ends.
TcpFail ==
  /\ pc = "tcp"
  /\ pc' = AfterTcpFail
  /\ e' = ObserveFail
  /\ tcpFailed' = TRUE
  /\ UNCHANGED <<session, cancelled, answer>>

\* Two seconds later Run starts over.
Wake ==
  /\ pc = "sleep"
  /\ pc' = "dial"
  /\ UNCHANGED <<e, session, cancelled, answer, tcpFailed>>

Elapse ==
  /\ e.since < 2
  /\ e' = [e EXCEPT !.since = @ + 1]
  /\ UNCHANGED <<pc, session, cancelled, answer, tcpFailed>>

Cancel ==
  /\ ~cancelled
  /\ cancelled' = TRUE
  /\ UNCHANGED <<e, pc, session, answer, tcpFailed>>

\* Only the two selects see ctx.Done(): the one of a session returns to the
\* one of Run.
StopSession ==
  /\ cancelled
  /\ pc = "idle"
  /\ pc' = "sleep"
  /\ UNCHANGED <<e, session, cancelled, answer, tcpFailed>>

\* Mutant: Run does not look at the context.
StopRun_never == FALSE /\ UNCHANGED vars
StopRun ==
  /\ cancelled
  /\ pc = "sleep"
  /\ pc' = "stopped"
  /\ UNCHANGED <<e, session, cancelled, answer, tcpFailed>>

-----------------------------------------------------------------------------
(* The specification.  Run is one goroutine and never waits without a      *)
(* deadline; a select with two ready cases picks either, so that a         *)
(* cancelled context is seen in the end.                                   *)

Proceed ==
  \/ \E ok \in BOOLEAN : Dial(ok)
  \/ ShakeFail
  \/ \E plane \in BOOLEAN : Shake(plane)
  \/ BindUDP
  \/ TickUDP
  \/ TickTCP
  \/ \E k \in Replies, rtt \in RTTs : UdpReply(k, rtt)
  \/ \E waited \in BOOLEAN : UdpFault(waited)
  \/ \E k \in Replies, rtt \in RTTs : TcpReply(k, rtt)
  \/ TcpFail
  \/ Wake
  \/ StopSession
  \/ StopRun

Next == Proceed \/ Elapse \/ Cancel

Fairness == WF_vars(Proceed) /\ WF_vars(Elapse) /\ SF_vars(StopSession) /\ SF_vars(StopRun)

Spec == Init /\ [][Next]_vars /\ Fairness

-----------------------------------------------------------------------------
(* Properties.                                                             *)

\* The two failure counters of the policy are one number as long as Observe
\* alone writes them, so that "three UDP failures" never decides a switch that
\* "two in a row" did not; and the profile is the one of this very state.
EngineConsistent ==
  /\ e.failuresUDP = e.consecutiveFailures
  /\ e.profile = Profile(e.consecutiveFailures, e.lastRTT, e.current)

\* A UDP path that is dead while TCP works never moves the policy to TCP: the
\* reply over TCP clears the failure just counted.  The policy leaves UDP only
\* when a probe has failed over TCP, too, since the last one answered.
LeavesUdpOnlyAfterTcpFailed ==
  [][e.current = "udp" /\ e'.current = "tcp" => tcpFailed']_vars

\* A reply read from TCP answers the probe under way: no reply to an earlier
\* one is left on the connection, because the failure that left it there ends
\* the session.  (A reply read from UDP may be a late one.)
TcpAnswersInStep == answer.via = "tcp" => answer.to = "cur"

\* From some time on TCP answers every probe, and fast if UDP did not hold it up.
TcpIsWell ==
  <>[][pc = "tcp" /\ pc' # "tcp" =>
         ~tcpFailed' /\ (~slow => e'.lastRTT \in {"lt120", "lt250"})]_vars

\* The policy does not stay on TCP: when TCP answers fast and the client goes
\* on probing, it comes back to UDP and stays there.
ReturnsToUdp ==
  TcpIsWell /\ []<>(pc = "idle") => <>[](e.current = "udp")

\* A cancelled context ends Run, whatever the session was waiting for.
StopsWhenCancelled == cancelled ~> pc = "stopped"
=============================================================================
