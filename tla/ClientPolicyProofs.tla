------------------------- MODULE ClientPolicyProofs -------------------------
(* What holds of the probing client for every configuration and however    *)
(* the two transports behave.                                              *)
EXTENDS ClientPolicy, TLAPS

\* Nothing is left on the connection when a probe starts.
WireInv ==
  /\ pc \in {"shake", "bind", "idle", "udp"} => wire = {}
  /\ pc = "tcp" => wire \subseteq {"cur"}

\* Without a failure over TCP there is at most the one failure over UDP that
\* the probe under way has counted.
FailuresInv ==
  ~tcpFailed => e.consecutiveFailures <= (IF pc = "tcp" THEN 1 ELSE 0)

IInv == TypeOK /\ EngineConsistent /\ TcpAnswersInStep /\ WireInv /\ FailuresInv

\* A failure is counted in both counters alike.
LEMMA FailTyped ==
  ASSUME e \in Engines, e.failuresUDP = e.consecutiveFailures
  PROVE  /\ ObserveFail \in Engines
         /\ ObserveFail.failuresUDP = ObserveFail.consecutiveFailures
         /\ ObserveFail.profile =
              Profile(ObserveFail.consecutiveFailures, ObserveFail.lastRTT, ObserveFail.current)
         /\ ObserveFail.consecutiveFailures <= e.consecutiveFailures + 1
BY BoundOk, ConfigOk DEF Engines, RTTs, ObserveFail, ConsecutiveAfter, Incr, Profile

\* A success clears both counters.
LEMMA OkTyped ==
  ASSUME e \in Engines, NEW rtt \in RTTs
  PROVE  /\ ObserveOk(rtt) \in Engines
         /\ ObserveOk(rtt).failuresUDP = 0
         /\ ObserveOk(rtt).consecutiveFailures = 0
         /\ ObserveOk(rtt).profile = Profile(0, ObserveOk(rtt).lastRTT, ObserveOk(rtt).current)
         /\ ObserveOk(rtt).current # "tcp" \/ e.current = "tcp"
BY BoundOk, ConfigOk DEF Engines, RTTs, ObserveOk, Profile

\* The invariant holds before the first connection.
LEMMA InitIInv == Init => IInv
<1> SUFFICES ASSUME Init PROVE IInv
  OBVIOUS
<1>1. e \in Engines /\ EngineConsistent /\ e.consecutiveFailures = 0
  BY BoundOk, ConfigOk DEF Init, NewEngine, Engines, RTTs, EngineConsistent, Profile
<1>2. answer \in [via : {"none", "udp", "tcp"}, to : Replies] /\ answer.via = "none"
  BY DEF Init, Replies
<1>3. WireInv /\ TcpAnswersInStep
  BY <1>2 DEF Init, WireInv, TcpAnswersInStep
<1>4. FailuresInv
  BY <1>1 DEF FailuresInv
<1>5. TypeOK
  BY <1>1, <1>2 DEF Init, TypeOK, Places, Replies
<1> QED
  BY <1>1, <1>3, <1>4, <1>5 DEF IInv

\* Every step of the client keeps the invariant.
LEMMA NextIInv == IInv /\ [Next]_vars => IInv'
<1> SUFFICES ASSUME IInv, [Next]_vars PROVE IInv'
  OBVIOUS
<1> USE DEF IInv, TypeOK, EngineConsistent, TcpAnswersInStep, WireInv, FailuresInv, session
<1>1. ASSUME NEW ok \in BOOLEAN, Dial(ok) PROVE IInv'
  BY <1>1 DEF Dial, Places
<1>2. CASE ShakeFail
  BY <1>2 DEF ShakeFail, Places
<1>3. ASSUME NEW plane \in BOOLEAN, Shake(plane) PROVE IInv'
  BY <1>3, ConfigOk DEF Shake, Places
<1>4. CASE BindUDP
  BY <1>4 DEF BindUDP, Places, Replies
<1>5. CASE TickUDP
  BY <1>5 DEF TickUDP, UseUDP, Older, Places, Replies
<1>6. CASE TickTCP
  <2>1. Older(wire) = {} /\ Older(air) \subseteq Replies
    BY <1>6 DEF TickTCP, Older, Replies
  <2>2. wire' \subseteq {"cur"} /\ air' \subseteq Replies
    BY <1>6, <2>1 DEF TickTCP
  <2>3. FailuresInv'
    <3> e' = e /\ tcpFailed' = tcpFailed /\ e.consecutiveFailures \in Nat
      BY <1>6, BoundOk DEF TickTCP, Engines
    <3> QED
      BY <1>6 DEF TickTCP
  <2> QED
    BY <1>6, <2>2, <2>3 DEF TickTCP, Places, Replies
<1>7. ASSUME NEW k \in Replies, NEW rtt \in RTTs, UdpReply(k, rtt) PROVE IInv'
  <2>1. e' \in Engines /\ EngineConsistent' /\ e'.consecutiveFailures = 0
    BY <1>7, OkTyped DEF UdpReply
  <2>2. /\ answer' \in [via : {"none", "udp", "tcp"}, to : Replies]
        /\ answer'.via = "udp"
    BY <1>7 DEF UdpReply
  <2>4. FailuresInv'
    BY <2>1
  <2>5. WireInv' /\ TcpAnswersInStep'
    BY <1>7, <2>1, <2>2 DEF UdpReply
  <2>6. TypeOK'
    BY <1>7, <2>1, <2>2 DEF UdpReply, Places, Replies
  <2> QED
    BY <2>1, <2>2, <2>4, <2>5, <2>6
<1>8. ASSUME NEW waited \in BOOLEAN, UdpFault(waited) PROVE IInv'
  <2>1. ~tcpFailed => e.consecutiveFailures = 0
    BY <1>8, BoundOk DEF UdpFault, Engines
  <2>2. /\ e' \in Engines /\ EngineConsistent'
        /\ e'.consecutiveFailures <= e.consecutiveFailures + 1
    BY <1>8, FailTyped DEF UdpFault
  <2>3. FailuresInv'
    BY <1>8, <2>1, <2>2 DEF UdpFault
  <2>4. wire' \subseteq {"cur"}
    BY <1>8 DEF UdpFault
  <2> QED
    BY <1>8, <2>2, <2>3, <2>4 DEF UdpFault, Places, Replies
<1>9. ASSUME NEW k \in Replies, NEW rtt \in RTTs, TcpReply(k, rtt) PROVE IInv'
  <2>1. k = "cur" /\ wire' = {}
    BY <1>9 DEF TcpReply
  <2>2. e' \in Engines /\ EngineConsistent' /\ e'.consecutiveFailures = 0
    BY <1>9, OkTyped DEF TcpReply
  <2>3. /\ answer' \in [via : {"none", "udp", "tcp"}, to : Replies]
        /\ answer'.to = "cur"
    BY <1>9, <2>1 DEF TcpReply
  <2>4. FailuresInv'
    BY <2>2
  <2>5. WireInv' /\ TcpAnswersInStep'
    BY <1>9, <2>1, <2>2, <2>3 DEF TcpReply
  <2>6. TypeOK'
    BY <1>9, <2>1, <2>2, <2>3 DEF TcpReply, Places, Replies
  <2> QED
    BY <2>1, <2>2, <2>3, <2>4, <2>5, <2>6
<1>10. CASE TcpFail
  BY <1>10, FailTyped DEF TcpFail, AfterTcpFail, Places
<1>11. CASE Wake
  BY <1>11 DEF Wake, Places
<1>12. CASE StopSession
  BY <1>12 DEF StopSession, Places
<1>13. CASE StopRun
  BY <1>13 DEF StopRun, Places
<1>14. CASE Elapse
  BY <1>14, BoundOk DEF Elapse, Engines
<1>15. CASE Cancel
  BY <1>15 DEF Cancel
<1>16. CASE UNCHANGED vars
  BY <1>16 DEF vars
<1> QED
  BY <1>1, <1>2, <1>3, <1>4, <1>5, <1>6, <1>7, <1>8, <1>9, <1>10, <1>11, <1>12,
     <1>13, <1>14, <1>15, <1>16 DEF Next, Proceed

\* The client's state is well formed, and no probe goes to a socket there is not.
THEOREM Typing == Spec => []TypeOK
<1>1. IInv => TypeOK
  BY DEF IInv
<1> QED
  BY InitIInv, NextIInv, <1>1, PTL DEF Spec

\* The two counters of the policy are always equal and the profile is fresh.
THEOREM EngineConsistentAlways == Spec => []EngineConsistent
<1>1. IInv => EngineConsistent
  BY DEF IInv
<1> QED
  BY InitIInv, NextIInv, <1>1, PTL DEF Spec

\* A reply taken from TCP answers the probe under way.
THEOREM TcpAnswersInStepAlways == Spec => []TcpAnswersInStep
<1>1. IInv => TcpAnswersInStep
  BY DEF IInv
<1> QED
  BY InitIInv, NextIInv, <1>1, PTL DEF Spec

\* UDP faults alone never move the policy to TCP: every step that leaves UDP is
\* taken with a failure over TCP since the last answer.
THEOREM LeavesUdpOnlyAfterTcpFailedAlways == Spec => LeavesUdpOnlyAfterTcpFailed
<1> DEFINE A == e.current = "udp" /\ e'.current = "tcp" => tcpFailed'
<1>1. IInv /\ [Next]_vars => [A]_vars
  <2> SUFFICES ASSUME IInv, Next, e.current = "udp", e'.current = "tcp" PROVE tcpFailed'
    BY DEF vars
  <2>1. ASSUME NEW waited \in BOOLEAN, UdpFault(waited) PROVE tcpFailed'
    <3> SUFFICES ASSUME ~tcpFailed PROVE FALSE
      BY <2>1 DEF UdpFault, IInv, TypeOK
    <3>1. e.consecutiveFailures = 0 /\ e.failuresUDP = 0
      BY <2>1 DEF UdpFault, IInv, FailuresInv, TypeOK, Engines, EngineConsistent
    <3>2. ~Enough(ConsecutiveAfter(e.consecutiveFailures), Incr(e.failuresUDP))
      BY <3>1, BoundOk DEF Enough, ConsecutiveAfter, Incr
    <3> QED
      BY <2>1, <3>2 DEF UdpFault, ObserveFail
  <2>2. CASE TcpFail
    BY <2>2 DEF TcpFail
  <2>3. ASSUME NEW rtt \in RTTs, e' = ObserveOk(rtt) PROVE FALSE
    BY <2>3, OkTyped DEF IInv, TypeOK
  <2>4. CASE Elapse
    BY <2>4 DEF Elapse, IInv, TypeOK, Engines
  <2>5. CASE UNCHANGED e
    BY <2>5
  <2> QED
    BY <2>1, <2>2, <2>3, <2>4, <2>5
       DEF Next, Proceed, Dial, ShakeFail, Shake, BindUDP, TickUDP, TickTCP, UdpReply,
           TcpReply, Wake, StopSession, StopRun, Cancel
<1> QED
  BY InitIInv, NextIInv, <1>1, PTL DEF Spec, LeavesUdpOnlyAfterTcpFailed
=============================================================================
