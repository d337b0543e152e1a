----------------------------- MODULE WinTunnel -----------------------------
(***************************************************************************)
(* The Windows client: internal/winclient/secure_client.go with the device *)
(* and the routes of tunnel_device*.go.                                    *)
(*                                                                         *)
(* Run makes one session after another.  A session is a TCP connection, a  *)
(* UDP socket when one can be had, and, in tunnel mode, the wintun device  *)
(* with three goroutines: "dev" from the device to the server, "tcp" and   *)
(* "udp" from the server to the device.  The first of them that fails ends *)
(* the session, which waits for all three before it undoes the routes and  *)
(* closes the device; the connection is closed last of all.                *)
(*                                                                         *)
(* Only ProtocolVersion "v2" is modelled.                                  *)
(***************************************************************************)
EXTENDS Naturals

VARIABLES
  cfg,        \* the Config: "ping" without EnableTunnel, "probe" with TunProbeOnly,
              \* else "tunnel"; and TunSetDefaultRoute
  main,       \* where Run is
  th,         \* where the three goroutines are
  errs,       \* how many errors are in errCh
  quit,       \* has the session called cancel
  cancelled,  \* ctx.Done()
  dev,        \* is the device open
  udp,        \* is udpClient there
  aligned,    \* does the next read of the connection start at a frame
  routes,     \* what configureTunnelInterface has left in the system
  left        \* history: the routes that a set-up which failed, or a removal which
              \* failed, has left there

vars == <<cfg, main, th, errs, quit, cancelled, dev, udp, aligned, routes, left>>

Threads == {"dev", "tcp", "udp"}

\* The capacity of errCh.  Mutant: room for one error.
Cap_one == 1
Cap == 3

Init ==
  /\ cfg \in [mode : {"ping", "probe", "tunnel"}, default : BOOLEAN]
  /\ main = "dial"
  /\ th = [x \in Threads |-> "gone"]
  /\ errs = 0
  /\ quit = FALSE /\ cancelled = FALSE
  /\ dev = FALSE /\ udp = FALSE /\ aligned = TRUE
  /\ routes = {}
  /\ left = {}

-----------------------------------------------------------------------------
(* Run and runOneSession.                                                  *)

\* A session without a device ends: nothing but the two sockets is to be closed.
NoDevice == main' = "pause" /\ udp' = FALSE

\* net.DialTimeout.
Dial(ok) ==
  /\ main = "dial"
  /\ main' = IF ok THEN "shake" ELSE "pause"
  /\ aligned' = TRUE
  /\ UNCHANGED <<cfg, th, errs, quit, cancelled, dev, udp, routes, left>>

\* doHandshake and initUDPPlane.  Without an id, or when the socket cannot be
\* made, there is no udpClient; when only the bind cannot be sent, there is one.
Shake(ok, plane) ==
  /\ main = "shake"
  /\ main' = IF ~ok THEN "pause" ELSE IF cfg.mode = "ping" THEN "ping" ELSE "open"
  /\ udp' = (ok /\ plane)
  /\ UNCHANGED <<cfg, th, errs, quit, cancelled, dev, aligned, routes, left>>

\* The ping or probe loop: a request that is answered changes nothing; when one
\* fails or times out, or the context is cancelled, the session ends.
LoopEnds ==
  /\ \/ main = "ping" /\ NoDevice
     \/ main = "probe" /\ main' = "cleanup" /\ UNCHANGED udp
  /\ UNCHANGED <<cfg, th, errs, quit, cancelled, dev, aligned, routes, left>>

\* Run's pause of ReconnectSec.
Wake ==
  /\ main = "pause"
  /\ main' = "dial"
  /\ UNCHANGED <<cfg, th, errs, quit, cancelled, dev, udp, aligned, routes, left>>

StopRun ==
  /\ main = "pause"
  /\ cancelled
  /\ main' = "stopped"
  /\ UNCHANGED <<cfg, th, errs, quit, cancelled, dev, udp, aligned, routes, left>>

Cancel ==
  /\ ~cancelled
  /\ cancelled' = TRUE
  /\ UNCHANGED <<cfg, main, th, errs, quit, dev, udp, aligned, routes, left>>

-----------------------------------------------------------------------------
(* The device and the routes.                                              *)

Open(ok) ==
  /\ main = "open"
  /\ \/ ok /\ main' = "address" /\ dev' = TRUE /\ UNCHANGED udp
     \/ ~ok /\ NoDevice /\ UNCHANGED dev
  /\ UNCHANGED <<cfg, th, errs, quit, cancelled, aligned, routes, left>>

\* A command of the set-up ran: the next one.  Or it failed, and may have done its
\* work or only removed what was there: what its error leads to.
Ran(ok, next, else, adds) ==
  /\ \/ /\ ok
        /\ main' = next
        /\ routes' = routes \cup adds
        /\ UNCHANGED left
     \/ /\ ~ok
        /\ main' = else
        /\ routes' \in {routes, routes \cup adds, routes \ adds}
        /\ left' = IF else = "close" THEN left \cup routes' ELSE left
  /\ UNCHANGED <<cfg, th, errs, quit, cancelled, dev, udp, aligned>>

Ready == IF cfg.mode = "probe" THEN "probe" ELSE "start"

\* The address comes with the gateway when the default route is wanted; an error
\* of configureTunnelInterface is not followed by cleanupTunnelInterface.
Address(ok) ==
  /\ main = "address"
  /\ Ran(ok, IF cfg.default THEN "bypass" ELSE Ready, "close",
         IF cfg.default THEN {"default"} ELSE {})

\* ensureServerBypassRoute hides its errors.
Bypass(ok) == main = "bypass" /\ Ran(ok, "default", "default", {"bypass"})

\* The gateway's route is deleted, if it can be, and the default route added.
DefaultRoute(ok) == main = "default" /\ Ran(ok, "dns", "close", {"default"})

Dns(ok) == main = "dns" /\ Ran(ok, Ready, Ready, {"dns"})

\* cleanupTunnelInterface hides its errors, too; of its two commands for the
\* default route one has to succeed.  Mutant: the bypass stays.
Undone_bypassStays == {"default", "dns"}
Undone == {"default", "bypass", "dns"}
Cleanup ==
  /\ main = "cleanup"
  /\ main' = "close"
  /\ IF cfg.default
     THEN \E failed \in SUBSET Undone :
            routes' = routes \ (Undone \ failed) /\ left' = routes \cap failed
     ELSE UNCHANGED <<routes, left>>
  /\ UNCHANGED <<cfg, th, errs, quit, cancelled, dev, udp, aligned>>

\* cancel, dev.Close, closeUDP and conn.Close.
Close ==
  /\ main = "close"
  /\ dev' = FALSE
  /\ errs' = 0
  /\ NoDevice
  /\ UNCHANGED <<cfg, th, quit, cancelled, aligned, routes, left>>

-----------------------------------------------------------------------------
(* runTunnelSession and its three goroutines.                              *)

Start ==
  /\ main = "start"
  /\ main' = "run"
  /\ th' = [x \in Threads |-> "top"]
  /\ errs' = 0
  /\ quit' = FALSE
  /\ UNCHANGED <<cfg, cancelled, dev, udp, aligned, routes, left>>

\* The select.  Mutants: it does not look at the context; the case of the context
\* takes an error from errCh as well.
MustEnd_errOnly == errs > 0
MustEnd == cancelled \/ errs > 0
AfterCancel_takes == errs - 1
AfterCancel == errs
EndRun ==
  /\ main = "run"
  /\ MustEnd
  /\ main' = "wait"
  /\ quit' = TRUE
  /\ \/ cancelled /\ errs' = AfterCancel
     \/ errs > 0 /\ errs' = errs - 1
  /\ UNCHANGED <<cfg, th, cancelled, dev, udp, aligned, routes, left>>

\* wg.Wait.  Mutant: nobody waits for the UDP goroutine.
Gone_twoOnly == th["dev"] = "gone" /\ th["tcp"] = "gone"
Gone == \A x \in Threads : th[x] = "gone"
Wait ==
  /\ main = "wait"
  /\ Gone
  /\ main' = "cleanup"
  /\ UNCHANGED <<cfg, th, errs, quit, cancelled, dev, udp, aligned, routes, left>>

At(x, place) == th[x] = place
Move(x, place) ==
  /\ th' = [th EXCEPT ![x] = place]
  /\ UNCHANGED <<cfg, main, quit, cancelled, dev, udp, routes, left>>

\* sessionCtx.Done(): sessionCtx is derived from ctx.
Over == quit \/ cancelled

\* The top of a loop looks at sessionCtx.
Top(x) ==
  /\ At(x, "top")
  /\ Move(x, IF Over THEN "gone" ELSE "read")
  /\ UNCHANGED <<errs, aligned>>

\* Nothing comes, or nothing for the other side.  A timeout of the TCP read may
\* fall within a frame, whose first part is lost.  The UDP goroutine takes
\* every error for this, and goes to sleep here when there is no socket.
Nothing(x) ==
  /\ At(x, "read")
  /\ Move(x, "top")
  /\ aligned' \in {aligned} \cup (IF x = "tcp" THEN {FALSE} ELSE {})
  /\ UNCHANGED errs

\* A packet comes.  What is read across frames does not decrypt.
Packet(x) ==
  /\ At(x, "read")
  /\ x = "tcp" => aligned
  /\ x = "udp" => udp
  /\ Move(x, "write")
  /\ UNCHANGED <<errs, aligned>>

\* It is passed on: to the device, over UDP or, when that fails, over TCP.
Passed(x) ==
  /\ At(x, "write")
  /\ Move(x, "top")
  /\ UNCHANGED <<errs, aligned>>

Fails(x) ==
  /\ x # "udp" \/ At(x, "write")
  /\ At(x, "read") \/ At(x, "write")
  /\ Move(x, "fail")
  /\ UNCHANGED <<errs, aligned>>

\* An error counts only while the session is on.
Check(x) ==
  /\ At(x, "fail")
  /\ Move(x, IF Over THEN "gone" ELSE "send")
  /\ UNCHANGED <<errs, aligned>>

Report(x) ==
  /\ At(x, "send")
  /\ errs < Cap
  /\ errs' = errs + 1
  /\ Move(x, "gone")
  /\ UNCHANGED aligned

-----------------------------------------------------------------------------
(* The specification.                                                      *)

\* What Run does of itself: every one of these has a deadline, or is a command.
Run ==
  \/ \E ok \in BOOLEAN : Dial(ok) \/ Open(ok) \/ Address(ok) \/ Bypass(ok)
                         \/ DefaultRoute(ok) \/ Dns(ok)
  \/ \E ok, plane \in BOOLEAN : Shake(ok, plane)
  \/ Wake \/ Cleanup \/ Close \/ Start \/ EndRun \/ Wait

\* What a goroutine does without waiting, and what it waits for.
Local(x) == Top(x) \/ Check(x) \/ Report(x)
Waits(x) == Nothing(x) \/ Packet(x) \/ Passed(x) \/ Fails(x)

Next ==
  \/ Run \/ LoopEnds \/ StopRun \/ Cancel
  \/ \E x \in Threads : Local(x) \/ Waits(x)

\* Both readers have deadlines (60 s and 3 s) and wintun takes a packet at once;
\* but nothing makes the device give a packet, or the server read.  A cancelled
\* context is seen in the end where a select looks for it.
Fairness ==
  /\ WF_vars(Run)
  /\ SF_vars(cancelled /\ LoopEnds) /\ SF_vars(StopRun)
  /\ \A x \in Threads : WF_vars(Local(x))
  /\ \A x \in {"tcp", "udp"} : WF_vars(Waits(x))

Spec == Init /\ [][Next]_vars /\ Fairness

-----------------------------------------------------------------------------
(* Properties.                                                             *)

TypeOK ==
  /\ cfg \in [mode : {"ping", "probe", "tunnel"}, default : BOOLEAN]
  /\ main \in {"dial", "shake", "ping", "probe", "open", "address", "bypass", "default",
               "dns", "start", "run", "wait", "cleanup", "close", "pause", "stopped"}
  /\ th \in [Threads -> {"gone", "top", "read", "write", "fail", "send"}]
  /\ errs \in 0..Cap
  /\ quit \in BOOLEAN /\ cancelled \in BOOLEAN
  /\ dev \in BOOLEAN /\ udp \in BOOLEAN /\ aligned \in BOOLEAN
  /\ routes \subseteq {"default", "bypass", "dns"}
  /\ left \subseteq {"default", "bypass", "dns"}

\* The three goroutines live within their session: none of them touches the
\* device after Close, or udpClient when closeUDP has taken it away, and none
\* is left over when the next session starts its own.
ThreadsWithinSession ==
  (\E x \in Threads : th[x] # "gone") => main \in {"run", "wait"} /\ dev

\* Between sessions, however they ended, the routes are as they were, except those
\* of a set-up that failed half way, which nothing undoes, and those whose removal
\* failed; and these only until a later session has removed them.
RoutesRestored ==
  main \in {"dial", "pause", "stopped"} => routes \subseteq left

\* The comment of configureTunnelInterface: in safe or probe mode no default
\* gateway is injected at all (tunnel_device.go:33).  The code asks
\* TunSetDefaultRoute alone.
ProbeKeepsDefaultRoute == cfg.mode = "probe" => "default" \notin routes

\* The device goroutine holds up the end of a session: it is in ReadPacket,
\* which returns only with a packet or after Close, or in a write to a server
\* that does not read; the other two are gone.
DeviceHolds ==
  /\ main = "wait"
  /\ th["dev"] \in {"read", "write"}
  /\ th["tcp"] = "gone" /\ th["udp"] = "gone"

\* An error of any goroutine ends the session, and nobody but the device
\* goroutine can hold that up: errCh has room for all three.
ErrorEndsSession == errs > 0 ~> main = "pause" \/ DeviceHolds

\* A cancelled context stops Run, with the same exception.
StopsWhenCancelled == cancelled ~> main = "stopped" \/ DeviceHolds
=============================================================================
