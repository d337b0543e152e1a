-------------------------- MODULE WinTunnelProofs --------------------------
(* What holds of the Windows client in every configuration, for ever.      *)
EXTENDS WinTunnel, TLAPS

\* The device is open exactly while runTunnelSession has it.
DeviceInv ==
  dev <=> main \in {"address", "bypass", "default", "dns", "start", "probe", "run",
                     "wait", "cleanup", "close"}

\* Nothing is set up without TunSetDefaultRoute; and outside of set-up and
\* clean-up there is only what a failed command has left.
RoutesInv ==
  /\ main \in {"bypass", "default", "dns"} => cfg.default
  /\ ~cfg.default => routes = {}
  /\ main \in {"dial", "shake", "ping", "open", "address", "close", "pause", "stopped"}
       => routes \subseteq left

IInv == TypeOK /\ ThreadsWithinSession /\ DeviceInv /\ RoutesInv

\* The invariant holds when Run is called.
LEMMA InitIInv == Init => IInv
<1> SUFFICES ASSUME Init PROVE IInv
  OBVIOUS
<1>1. TypeOK
  <2>1. th \in [Threads -> {"gone", "top", "read", "write", "fail", "send"}]
    BY DEF Init
  <2>2. errs \in 0..Cap
    BY DEF Init, Cap
  <2>3. routes \subseteq {"default", "bypass", "dns"} /\ left \subseteq {"default", "bypass", "dns"}
    BY DEF Init
  <2> QED
    BY <2>1, <2>2, <2>3 DEF Init, TypeOK
<1>2. ThreadsWithinSession /\ DeviceInv /\ RoutesInv
  BY DEF Init, ThreadsWithinSession, DeviceInv, RoutesInv
<1> QED
  BY <1>1, <1>2 DEF IInv

\* A command of the set-up keeps the types, whatever comes of it.
LEMMA RanTyped ==
  ASSUME TypeOK, NEW ok \in BOOLEAN, NEW next, NEW else,
         NEW adds \in SUBSET {"default", "bypass", "dns"}, Ran(ok, next, else, adds),
         next \in {"bypass", "default", "dns", "start", "probe"},
         else \in {"bypass", "default", "dns", "start", "probe", "close"}
  PROVE  TypeOK' /\ main' \in {next, else} /\ UNCHANGED <<cfg, th, dev>>
<1>1. main' \in {next, else} /\ UNCHANGED <<cfg, th, errs, quit, cancelled, dev, udp, aligned>>
  BY DEF Ran
<1>2. routes' \in {routes, routes \cup adds, routes \ adds} /\ left' \in {left, left \cup routes'}
  BY DEF Ran
<1>3. routes' \subseteq {"default", "bypass", "dns"} /\ left' \subseteq {"default", "bypass", "dns"}
  BY <1>2 DEF TypeOK
<1> QED
  BY <1>1, <1>3 DEF TypeOK

\* A step of a goroutine stays within the session.
LEMMA MoveIInv ==
  ASSUME IInv, NEW x \in Threads, th[x] # "gone",
         NEW place \in {"gone", "top", "read", "write", "fail", "send"}, Move(x, place),
         errs' \in 0..Cap, aligned' \in BOOLEAN
  PROVE  IInv'
<1>1. main \in {"run", "wait"} /\ dev
  BY DEF IInv, ThreadsWithinSession
<1>2. th' \in [Threads -> {"gone", "top", "read", "write", "fail", "send"}]
  BY DEF IInv, TypeOK, Move
<1> QED
  BY <1>1, <1>2 DEF IInv, TypeOK, ThreadsWithinSession, DeviceInv, RoutesInv, Move

\* Every step of the client keeps the invariant.
LEMMA NextIInv == IInv /\ [Next]_vars => IInv'
<1> SUFFICES ASSUME IInv, [Next]_vars PROVE IInv'
  OBVIOUS
<1> USE DEF Cap
<1>1. ASSUME NEW ok \in BOOLEAN, Dial(ok) PROVE IInv'
  BY <1>1 DEF Dial, IInv, TypeOK, ThreadsWithinSession, DeviceInv, RoutesInv
<1>2. ASSUME NEW ok \in BOOLEAN, NEW plane \in BOOLEAN, Shake(ok, plane) PROVE IInv'
  BY <1>2 DEF Shake, IInv, TypeOK, ThreadsWithinSession, DeviceInv, RoutesInv
<1>3. ASSUME NEW ok \in BOOLEAN, Open(ok) PROVE IInv'
  <2>1. TypeOK'
    BY <1>3 DEF Open, NoDevice, IInv, TypeOK
  <2>2. UNCHANGED <<cfg, th, routes, left>> /\ (\A x \in Threads : th[x] = "gone")
    BY <1>3 DEF Open, IInv, ThreadsWithinSession
  <2> QED
    BY <1>3, <2>1, <2>2 DEF Open, NoDevice, IInv, ThreadsWithinSession, DeviceInv, RoutesInv
<1>4. ASSUME NEW ok \in BOOLEAN, Address(ok) PROVE IInv'
  <2>1. CASE cfg.default
    <3>1. TypeOK' /\ main' \in {"bypass", "close"} /\ UNCHANGED <<cfg, th, dev>>
      BY <1>4, <2>1, RanTyped DEF Address, IInv
    <3> QED
      BY <1>4, <2>1, <3>1
         DEF Address, Ran, IInv, TypeOK, ThreadsWithinSession, DeviceInv, RoutesInv
  <2>2. CASE ~cfg.default
    <3>1. TypeOK' /\ main' \in {Ready, "close"} /\ UNCHANGED <<cfg, th, dev>>
      BY <1>4, <2>2, RanTyped DEF Address, IInv, Ready
    <3> QED
      BY <1>4, <2>2, <3>1
         DEF Address, Ran, Ready, IInv, TypeOK, ThreadsWithinSession, DeviceInv, RoutesInv
  <2> QED
    BY <2>1, <2>2
<1>5. ASSUME NEW ok \in BOOLEAN, Bypass(ok) PROVE IInv'
  <2>1. TypeOK' /\ main' = "default" /\ UNCHANGED <<cfg, th, dev>>
    BY <1>5, RanTyped DEF Bypass, IInv
  <2> QED
    BY <1>5, <2>1 DEF Bypass, Ran, IInv, ThreadsWithinSession, DeviceInv, RoutesInv
<1>6. ASSUME NEW ok \in BOOLEAN, DefaultRoute(ok) PROVE IInv'
  <2>1. TypeOK' /\ main' \in {"dns", "close"} /\ UNCHANGED <<cfg, th, dev>>
    BY <1>6, RanTyped DEF DefaultRoute, IInv
  <2> QED
    BY <1>6, <2>1 DEF DefaultRoute, Ran, IInv, TypeOK, ThreadsWithinSession, DeviceInv, RoutesInv
<1>7. ASSUME NEW ok \in BOOLEAN, Dns(ok) PROVE IInv'
  <2>1. TypeOK' /\ main' = Ready /\ UNCHANGED <<cfg, th, dev>>
    BY <1>7, RanTyped DEF Dns, IInv, Ready
  <2> QED
    BY <1>7, <2>1 DEF Dns, Ran, Ready, IInv, ThreadsWithinSession, DeviceInv, RoutesInv
<1>8. CASE Cleanup
  <2>1. CASE cfg.default
    <3>1. PICK failed \in SUBSET Undone :
            routes' = routes \ (Undone \ failed) /\ left' = routes \cap failed
      BY <1>8, <2>1 DEF Cleanup
    <3>2. TypeOK'
      BY <1>8, <3>1 DEF Cleanup, IInv, TypeOK
    <3>3. routes' \subseteq left'
      BY <3>1 DEF IInv, TypeOK, Undone
    <3> QED
      BY <1>8, <2>1, <3>2, <3>3 DEF Cleanup, IInv, ThreadsWithinSession, DeviceInv, RoutesInv
  <2>2. CASE ~cfg.default
    <3>1. routes' = {} /\ UNCHANGED <<routes, left>>
      BY <1>8, <2>2 DEF Cleanup, IInv, RoutesInv
    <3> QED
      BY <1>8, <2>2, <3>1 DEF Cleanup, IInv, TypeOK, ThreadsWithinSession, DeviceInv, RoutesInv
  <2> QED
    BY <2>1, <2>2
<1>9. CASE Close
  <2>1. errs' \in 0..Cap
    BY <1>9 DEF Close
  <2>2. TypeOK'
    BY <1>9, <2>1 DEF Close, NoDevice, IInv, TypeOK
  <2>3. ~(\E x \in Threads : th'[x] # "gone")
    BY <1>9 DEF Close, IInv, ThreadsWithinSession
  <2> QED
    BY <1>9, <2>2, <2>3 DEF Close, NoDevice, IInv, ThreadsWithinSession, DeviceInv, RoutesInv
<1>10. CASE Start
  <2>1. errs' \in 0..Cap
    BY <1>10 DEF Start
  <2>2. th' \in [Threads -> {"gone", "top", "read", "write", "fail", "send"}]
    BY <1>10 DEF Start
  <2>3. TypeOK'
    BY <1>10, <2>1, <2>2 DEF Start, IInv, TypeOK
  <2> QED
    BY <1>10, <2>3 DEF Start, IInv, ThreadsWithinSession, DeviceInv, RoutesInv
<1>11. CASE EndRun
  <2>1. errs' \in 0..Cap
    BY <1>11 DEF EndRun, AfterCancel, IInv, TypeOK
  <2> QED
    BY <1>11, <2>1 DEF EndRun, IInv, TypeOK, ThreadsWithinSession, DeviceInv, RoutesInv
<1>12. CASE Wait
  BY <1>12 DEF Wait, Gone, IInv, TypeOK, ThreadsWithinSession, DeviceInv, RoutesInv
<1>13. CASE LoopEnds
  <2>1. main \in {"ping", "probe"} /\ \A x \in Threads : th[x] = "gone"
    BY <1>13 DEF LoopEnds, IInv, ThreadsWithinSession
  <2>2. TypeOK'
    BY <1>13 DEF LoopEnds, NoDevice, IInv, TypeOK
  <2> QED
    BY <1>13, <2>1, <2>2
       DEF LoopEnds, NoDevice, IInv, ThreadsWithinSession, DeviceInv, RoutesInv
<1>14. CASE Wake
  BY <1>14 DEF Wake, IInv, TypeOK, ThreadsWithinSession, DeviceInv, RoutesInv
<1>15. CASE StopRun
  BY <1>15 DEF StopRun, IInv, TypeOK, ThreadsWithinSession, DeviceInv, RoutesInv
<1>16. CASE Cancel
  BY <1>16 DEF Cancel, IInv, TypeOK, ThreadsWithinSession, DeviceInv, RoutesInv
<1>17. ASSUME NEW x \in Threads, Local(x) PROVE IInv'
  <2>1. CASE Top(x)
    BY <2>1, MoveIInv DEF Top, At, IInv, TypeOK
  <2>2. CASE Check(x)
    BY <2>2, MoveIInv DEF Check, At, IInv, TypeOK
  <2>3. CASE Report(x)
    <3>1. errs' \in 0..Cap
      BY <2>3 DEF Report, IInv, TypeOK
    <3> QED
      BY <2>3, <3>1, MoveIInv DEF Report, At, IInv, TypeOK
  <2> QED
    BY <1>17, <2>1, <2>2, <2>3 DEF Local
<1>18. ASSUME NEW x \in Threads, Waits(x) PROVE IInv'
  <2>1. CASE Nothing(x)
    BY <2>1, MoveIInv DEF Nothing, At, IInv, TypeOK
  <2>2. CASE Packet(x)
    BY <2>2, MoveIInv DEF Packet, At, IInv, TypeOK
  <2>3. CASE Passed(x)
    BY <2>3, MoveIInv DEF Passed, At, IInv, TypeOK
  <2>4. CASE Fails(x)
    BY <2>4, MoveIInv DEF Fails, At, IInv, TypeOK
  <2> QED
    BY <1>18, <2>1, <2>2, <2>3, <2>4 DEF Waits
<1>19. CASE UNCHANGED vars
  BY <1>19 DEF vars, IInv, TypeOK, ThreadsWithinSession, DeviceInv, RoutesInv
<1> QED
  BY <1>1, <1>2, <1>3, <1>4, <1>5, <1>6, <1>7, <1>8, <1>9, <1>10, <1>11, <1>12, <1>13,
     <1>14, <1>15, <1>16, <1>17, <1>18, <1>19 DEF Next, Run

\* The client's state is well formed; errCh never holds more than it can.
THEOREM Typing == Spec => []TypeOK
<1>1. IInv => TypeOK
  BY DEF IInv
<1> QED
  BY InitIInv, NextIInv, <1>1, PTL DEF Spec

\* No goroutine outlives its session, touches a closed device or a udpClient that
\* is gone, in whatever order they fail.
THEOREM ThreadsWithinSessionAlways == Spec => []ThreadsWithinSession
<1>1. IInv => ThreadsWithinSession
  BY DEF IInv
<1> QED
  BY InitIInv, NextIInv, <1>1, PTL DEF Spec

\* After any number of sessions, however each of them ended, the only routes that
\* stay are those of a set-up that failed half way or whose removal failed.
THEOREM RoutesRestoredAlways == Spec => []RoutesRestored
<1>1. IInv => RoutesRestored
  BY DEF IInv, RoutesInv, RoutesRestored
<1> QED
  BY InitIInv, NextIInv, <1>1, PTL DEF Spec

-----------------------------------------------------------------------------
(* errCh.                                                                  *)

\* An error in errCh is of a goroutine that is gone: one that has its error still
\* to send finds room, the select of runTunnelSession having taken any or none.
ErrChHasRoom == \A x \in Threads : th[x] = "send" => errs < Cap

\* Each goroutine takes up room for one error, from Start until it is gone.
Claim(x) == IF th[x] = "gone" THEN 0 ELSE 1
RoomInv == errs + Claim("dev") + Claim("tcp") + Claim("udp") <= Cap

\* A goroutine that goes on, or leaves without an error, claims no more than before.
LEMMA MoveRoom ==
  ASSUME IInv, RoomInv, NEW x \in Threads, th[x] # "gone", NEW place, Move(x, place), errs' = errs
  PROVE  RoomInv'
<1>1. th' = [th EXCEPT ![x] = place] /\ th \in [Threads -> {"gone", "top", "read", "write", "fail", "send"}]
  BY DEF Move, IInv, TypeOK
<1>2. \A y \in Threads : Claim(y)' = Claim(y) \/ (Claim(y)' = 0 /\ Claim(y) = 1)
  BY <1>1 DEF Claim
<1>3. errs \in Nat /\ \A y \in Threads : Claim(y) \in {0, 1}
  BY DEF IInv, TypeOK, Claim, Cap
<1> QED
  BY <1>2, <1>3 DEF RoomInv, Threads, Cap

\* Sending an error makes room for it.
LEMMA ReportRoom ==
  ASSUME IInv, RoomInv, NEW x \in Threads, Report(x)
  PROVE  RoomInv'
<1>1. /\ th[x] = "send" /\ errs' = errs + 1 /\ th' = [th EXCEPT ![x] = "gone"]
      /\ th \in [Threads -> {"gone", "top", "read", "write", "fail", "send"}]
  BY DEF Report, At, Move, IInv, TypeOK
<1>2. Claim(x) = 1 /\ Claim(x)' = 0 /\ \A y \in Threads \ {x} : Claim(y)' = Claim(y)
  BY <1>1 DEF Claim
<1>3. errs \in Nat /\ \A y \in Threads : Claim(y) \in {0, 1}
  BY DEF IInv, TypeOK, Claim, Cap
<1>4. CASE x = "dev"
  BY <1>1, <1>2, <1>3, <1>4 DEF RoomInv, Threads, Cap
<1>5. CASE x = "tcp"
  BY <1>1, <1>2, <1>3, <1>5 DEF RoomInv, Threads, Cap
<1>6. CASE x = "udp"
  BY <1>1, <1>2, <1>3, <1>6 DEF RoomInv, Threads, Cap
<1> QED
  BY <1>4, <1>5, <1>6 DEF Threads

LEMMA NextRoom == IInv /\ RoomInv /\ [Next]_vars => RoomInv'
<1> SUFFICES ASSUME IInv, RoomInv, [Next]_vars PROVE RoomInv'
  OBVIOUS
<1>1. errs \in Nat /\ \A y \in Threads : Claim(y) \in {0, 1}
  BY DEF IInv, TypeOK, Claim, Cap
<1>2. CASE UNCHANGED <<th, errs>>
  <2>1. \A y \in Threads : Claim(y)' = Claim(y)
    BY <1>2 DEF Claim
  <2> QED
    BY <1>2, <2>1 DEF RoomInv, Threads
<1>3. CASE Start
  <2>1. errs' = 0 /\ \A y \in Threads : Claim(y)' \in {0, 1}
    BY <1>3 DEF Start, Claim
  <2> QED
    BY <2>1 DEF RoomInv, Threads, Cap
<1>4. CASE Close
  <2>1. errs' = 0 /\ \A y \in Threads : Claim(y)' \in {0, 1}
    BY <1>4 DEF Close, Claim
  <2> QED
    BY <2>1 DEF RoomInv, Threads, Cap
<1>5. CASE EndRun
  <2>1. errs' \in {errs, errs - 1} /\ th' = th
    BY <1>5 DEF EndRun, AfterCancel
  <2>2. \A y \in Threads : Claim(y)' = Claim(y)
    BY <2>1 DEF Claim
  <2> QED
    BY <1>1, <2>1, <2>2 DEF RoomInv, Threads, Cap
<1>6. ASSUME NEW x \in Threads, Local(x) \/ Waits(x) PROVE RoomInv'
  <2>1. CASE Report(x)
    BY <2>1, ReportRoom
  <2>2. CASE Top(x)
    BY <2>2, MoveRoom DEF Top, At
  <2>3. CASE Check(x)
    BY <2>3, MoveRoom DEF Check, At
  <2>4. CASE Nothing(x)
    BY <2>4, MoveRoom DEF Nothing, At
  <2>5. CASE Packet(x)
    BY <2>5, MoveRoom DEF Packet, At
  <2>6. CASE Passed(x)
    BY <2>6, MoveRoom DEF Passed, At
  <2>7. CASE Fails(x)
    BY <2>7, MoveRoom DEF Fails, At
  <2> QED
    BY <1>6, <2>1, <2>2, <2>3, <2>4, <2>5, <2>6, <2>7 DEF Local, Waits
<1>7. CASE UNCHANGED vars
  BY <1>2, <1>7 DEF vars
<1>8. CASE Wait \/ Cleanup \/ LoopEnds \/ Wake \/ StopRun \/ Cancel
  BY <1>2, <1>8 DEF Wait, Cleanup, LoopEnds, Wake, StopRun, Cancel
<1>9. ASSUME NEW ok \in BOOLEAN, Dial(ok) \/ Open(ok) \/ Address(ok) \/ Bypass(ok)
                                \/ DefaultRoute(ok) \/ Dns(ok)
      PROVE  RoomInv'
  BY <1>2, <1>9 DEF Dial, Open, Address, Bypass, DefaultRoute, Dns, Ran
<1>10. ASSUME NEW ok \in BOOLEAN, NEW plane \in BOOLEAN, Shake(ok, plane) PROVE RoomInv'
  BY <1>2, <1>10 DEF Shake
<1> QED
  BY <1>3, <1>4, <1>5, <1>6, <1>7, <1>8, <1>9, <1>10 DEF Next, Run

\* No goroutine of runTunnelSession ever blocks in its send to errCh, so that
\* nothing but the device can keep wg.Wait waiting: three places are enough for
\* three goroutines, in whatever order they fail and whichever case of the select
\* runs.
THEOREM ErrChHasRoomAlways == Spec => []ErrChHasRoom
<1>1. Init => RoomInv
  <2> SUFFICES ASSUME Init PROVE RoomInv
    OBVIOUS
  <2>1. errs = 0 /\ \A x \in Threads : Claim(x) = 0
    BY DEF Init, Claim
  <2> QED
    BY <2>1 DEF RoomInv, Threads, Cap
<1>2. IInv /\ RoomInv => ErrChHasRoom
  <2> SUFFICES ASSUME IInv, RoomInv, NEW x \in Threads, th[x] = "send" PROVE errs < Cap
    BY DEF ErrChHasRoom
  <2>1. errs \in Nat /\ Claim(x) = 1 /\ \A y \in Threads : Claim(y) \in {0, 1}
    BY DEF IInv, TypeOK, Claim, Cap
  <2> QED
    BY <2>1 DEF RoomInv, Threads, Cap
<1> QED
  BY InitIInv, NextIInv, NextRoom, <1>1, <1>2, PTL DEF Spec
=============================================================================
