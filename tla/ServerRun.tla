----------------------------- MODULE ServerRun -----------------------------
(***************************************************************************)
(* A server process from its start to its end, and the next one: New and   *)
(* Run (internal/server/server.go), the tunnel device and its firewall     *)
(* rules (internal/server/tunnel_linux.go), the accept loops of            *)
(* internal/transport, main (cmd/server/main.go) and the restart by        *)
(* systemd.                                                                *)
(*                                                                         *)
(* The rules are the kernel's and outlive the process.  What the           *)
(* goroutines do with frames and packets is the subject of ServerSessions. *)
(***************************************************************************)
EXTENDS Naturals
CONSTANTS
  Bins,       \* the iptables programs detectIPTablesBin may find
  Fixed,      \* the rules that do not depend on the upstream (the code has three)
  Upstreams,  \* the interfaces that may lead to the internet
  MaxStarts,  \* starts of the process (bound)
  None

ASSUME StartsAreCounted == MaxStarts \in Nat
ASSUME NoneIsNoUpstream == None \notin Upstreams

VARIABLES
  tunnel,     \* cfg.EnableTunnel
  enabled,    \* the listeners with EnableUDP or EnableTCP
  starts,     \* how often the process was started
  main,       \* where its main goroutine is
  device,     \* is there a tunnel device, newTunnelDevice's or Server.tunnel
  todo,       \* the rules ensureIPTablesRule has not been called for yet
  adding,     \* the rule it found missing, or None
  table,      \* the kernel's rules: how many of each
  thread,     \* the goroutines of Run
  errors,     \* errors in errCh
  udpSrv,     \* the socket of Server.udpSrv
  cancelled,  \* the context that SIGINT and SIGTERM cancel
  busy,       \* the listeners that are never idle for a second
  wrong       \* history: the rules a command about which went wrong

setup   == <<device, todo, adding, table, wrong>>
running == <<thread, errors, udpSrv, cancelled>>
vars    == <<tunnel, enabled, starts, main, setup, running, busy>>

Listeners == {"udp", "tcp"}
Threads == {"reaper", "relay"} \cup Listeners
\* off is no process; new is New; select and wait are in Run; out and failed
\* are after it.
Mains == {"off", "new", "select", "wait", "out", "failed"}
\* listen is before Listen; read and send are the relay in ReadPacket and in
\* a write to a client.
Places == {"none", "listen", "loop", "read", "send", "done"}

\* The masquerading rule names the upstream interface.
Kinds == Fixed \cup {"nat"}
Rules == [bin : Bins, kind : Kinds, up : Upstreams \cup {None}]
ASSUME NoneIsNoFirewallRule == None \notin Rules
RulesFor(bin, up) ==
  {[bin |-> bin, kind |-> k, up |-> IF k = "nat" THEN up ELSE None] : k \in Kinds}

\* Run's goroutines; a WaitGroup counts them.
Started == {"reaper"} \cup enabled \cup IF tunnel THEN {"relay"} ELSE {}
Nothing == [t \in Threads |-> "none"]
GoTo(t, place) == thread' = [thread EXCEPT ![t] = place]
InRun == main \in {"select", "wait"}

-----------------------------------------------------------------------------
(* main and New.                                                           *)

\* systemd starts the program, again after each end.
Start ==
  /\ main = "off" /\ starts < MaxStarts
  /\ starts' = starts + 1
  /\ main' = "new"
  /\ UNCHANGED <<tunnel, enabled, setup, running, busy>>

\* The process ends, whatever its goroutines do, and its device with it.
Ends ==
  /\ main' = "off"
  /\ device' = FALSE /\ todo' = {} /\ adding' = None
  /\ thread' = Nothing /\ errors' = 0 /\ udpSrv' = "nil" /\ cancelled' = FALSE
  /\ busy' = {}
  /\ UNCHANGED <<tunnel, enabled, starts, table, wrong>>

\* main returns, or log.Fatalf does not.
Exit == main \in {"out", "failed"} /\ Ends
\* A crash, SIGKILL, or a signal before NotifyContext.
Kill == main # "off" /\ Ends

\* newTunnelDevice: the device, its address, its state, the upstream.
OpenDevice ==
  /\ main = "new" /\ tunnel /\ ~device
  /\ \E bin \in Bins, up \in Upstreams : todo' = RulesFor(bin, up)
  /\ device' = TRUE
  /\ UNCHANGED <<tunnel, enabled, starts, main, adding, table, wrong, running, busy>>

\* A command fails, the device is closed again, and main gives up.
OpenFails ==
  /\ main = "new" /\ tunnel /\ ~device
  /\ main' = "failed"
  /\ UNCHANGED <<tunnel, enabled, starts, setup, running, busy>>

\* Mutant: the rule is added without a look.
Missing_always(r) == TRUE
Missing(r) == table[r] = 0

\* iptables -C; it fails for a missing rule and for any other reason.
CheckRule(r) ==
  /\ r \in todo /\ adding = None
  /\ todo' = todo \ {r}
  /\ \/ ~Missing(r) /\ UNCHANGED <<adding, wrong>>
     \/ Missing(r) /\ adding' = r /\ UNCHANGED wrong
     \/ adding' = r /\ wrong' = wrong \cup {r}
  /\ UNCHANGED <<tunnel, enabled, starts, main, device, table, running, busy>>

\* iptables -A; nobody looks whether it worked.
AddRule ==
  /\ adding # None /\ adding' = None
  /\ \/ table' = [table EXCEPT ![adding] = @ + 1] /\ UNCHANGED wrong
     \/ wrong' = wrong \cup {adding} /\ UNCHANGED table
  /\ UNCHANGED <<tunnel, enabled, starts, main, device, todo, running, busy>>

\* Run starts its goroutines.
Run ==
  /\ main = "new" /\ device = tunnel /\ todo = {} /\ adding = None
  /\ main' = "select"
  /\ thread' = [t \in Threads |->
       IF t \notin Started THEN "none" ELSE IF t \in Listeners THEN "listen" ELSE "loop"]
  /\ UNCHANGED <<tunnel, enabled, starts, setup, errors, udpSrv, cancelled, busy>>

-----------------------------------------------------------------------------
(* The goroutines of Run.  An error is put into errCh, which has room for   *)
(* three; a listener that returns closes its socket.                        *)

ErrCap == 3

\* Mutant: the error is only logged.
Tell_log == UNCHANGED errors
Tell == errors < ErrCap /\ errors' = errors + 1

Listen(l) ==
  /\ thread[l] = "listen"
  /\ GoTo(l, "loop")
  /\ udpSrv' = IF l = "udp" THEN "open" ELSE udpSrv
  /\ UNCHANGED <<tunnel, enabled, starts, main, setup, errors, cancelled, busy>>

Shut(l) ==
  /\ udpSrv' = IF l = "udp" /\ udpSrv = "open" THEN "closed" ELSE udpSrv
  /\ busy' = busy \ {l}

\* Listen fails, or Serve returns an error: Accept refuses for lack of
\* descriptors, say, or ReadFromUDP for a reason that is not a timeout.
ListenerFails(l) ==
  /\ thread[l] \in {"listen", "loop"}
  /\ Tell /\ GoTo(l, "done") /\ Shut(l)
  /\ UNCHANGED <<tunnel, enabled, starts, main, setup, cancelled>>

\* Serve looks at the context only after a second without a client.
\* Mutant: it never looks.
Looks_never(l) == FALSE
Looks(l) == l \notin busy
ListenerStops(l) ==
  /\ thread[l] = "loop" /\ cancelled /\ Looks(l)
  /\ GoTo(l, "done") /\ Shut(l)
  /\ UNCHANGED <<tunnel, enabled, starts, main, setup, errors, cancelled>>

ReaperStops ==
  /\ thread["reaper"] = "loop" /\ cancelled
  /\ GoTo("reaper", "done")
  /\ UNCHANGED <<tunnel, enabled, starts, main, setup, errors, udpSrv, cancelled, busy>>

RelayLooks ==
  /\ thread["relay"] = "loop"
  /\ GoTo("relay", IF cancelled THEN "done" ELSE "read")
  /\ UNCHANGED <<tunnel, enabled, starts, main, setup, errors, udpSrv, cancelled, busy>>

\* ReadPacket returns a packet, which has a client or not, or an error.
RelayReads ==
  /\ thread["relay"] = "read"
  /\ \E place \in {"loop", "send"} : GoTo("relay", place)
  /\ UNCHANGED <<tunnel, enabled, starts, main, setup, errors, udpSrv, cancelled, busy>>

\* A datagram goes out by udpSrv; without it, or when it is closed, the packet
\* goes to a TCP connection, which may not take it for ever.
RelaySends ==
  /\ thread["relay"] = "send"
  /\ GoTo("relay", "loop")
  /\ UNCHANGED <<tunnel, enabled, starts, main, setup, errors, udpSrv, cancelled, busy>>

-----------------------------------------------------------------------------
(* Run itself, and the world.                                              *)

SelectDone ==
  /\ main = "select" /\ cancelled
  /\ main' = "wait"
  /\ UNCHANGED <<tunnel, enabled, starts, setup, running, busy>>

SelectError ==
  /\ main = "select" /\ errors > 0
  /\ errors' = errors - 1
  /\ main' = "failed"
  /\ UNCHANGED <<tunnel, enabled, starts, setup, thread, udpSrv, cancelled, busy>>

WaitEnds ==
  /\ main = "wait" /\ \A t \in Started : thread[t] = "done"
  /\ main' = "out"
  /\ UNCHANGED <<tunnel, enabled, starts, setup, running, busy>>

Signal ==
  /\ InRun /\ ~cancelled /\ cancelled' = TRUE
  /\ UNCHANGED <<tunnel, enabled, starts, main, setup, thread, errors, udpSrv, busy>>

\* Clients begin or cease to come without a pause.
Traffic(l) ==
  /\ thread[l] = "loop"
  /\ busy' = IF l \in busy THEN busy \ {l} ELSE busy \cup {l}
  /\ UNCHANGED <<tunnel, enabled, starts, main, setup, running>>

Init ==
  /\ tunnel \in BOOLEAN /\ enabled \in SUBSET Listeners
  /\ starts = 0 /\ main = "off"
  /\ device = FALSE /\ todo = {} /\ adding = None
  /\ table = [r \in Rules |-> 0] /\ wrong = {}
  /\ thread = Nothing /\ errors = 0 /\ udpSrv = "nil" /\ cancelled = FALSE
  /\ busy = {}

\* What the program does by itself, once it can.
Runs ==
  \/ Exit \/ SelectDone \/ SelectError \/ WaitEnds
Stops(t) ==
  CASE t = "reaper" -> ReaperStops
    [] t = "relay"  -> RelayLooks
    [] OTHER        -> ListenerStops(t)

Next ==
  \/ Start \/ Kill \/ OpenDevice \/ OpenFails \/ AddRule \/ Run
  \/ \E r \in todo : CheckRule(r)
  \/ Runs \/ \E t \in Threads : Stops(t)
  \/ RelayReads \/ RelaySends \/ Signal
  \/ \E l \in Listeners : Listen(l) \/ ListenerFails(l) \/ Traffic(l)

\* Goroutines that can go on do; nothing forces a packet to come, a client to
\* read what it is sent, a signal, an error or a pause in the traffic.
Spec ==
  /\ Init /\ [][Next]_vars
  /\ WF_vars(Runs) /\ \A t \in Threads : WF_vars(Stops(t))
  /\ \A l \in Listeners : WF_vars(Listen(l))

-----------------------------------------------------------------------------
(* Properties.                                                             *)

\* Every variable keeps its type; errCh never has to hold more than it can,
\* and while Run selects, a listener that is gone has been told of or asked to
\* go: udpSrv is closed only then.
TypeOK ==
  /\ tunnel \in BOOLEAN /\ enabled \subseteq Listeners
  /\ starts \in 0..MaxStarts /\ main \in Mains
  /\ device \in BOOLEAN /\ todo \subseteq Rules /\ adding \in Rules \cup {None}
  /\ table \in [Rules -> Nat] /\ wrong \subseteq Rules
  /\ thread \in [Threads -> Places]
  /\ errors \in 0..2 /\ udpSrv \in {"nil", "open", "closed"}
  /\ cancelled \in BOOLEAN /\ busy \subseteq Listeners
  /\ (main = "select" /\ \E l \in Listeners : thread[l] = "done") => cancelled \/ errors > 0
  /\ udpSrv = "open" <=> thread["udp"] = "loop"
  /\ udpSrv = "closed" => thread["udp"] = "done"

\* However often the server is started, stopped or killed, each firewall rule
\* is there at most once, and all of them are there while it runs, unless a
\* command about that rule went wrong, which ensureIPTablesRule cannot tell.
RulesOnce ==
  /\ \A r \in Rules \ wrong : table[r] <= 1
  /\ (tunnel /\ InRun) =>
       \E bin \in Bins, up \in Upstreams :
         \A r \in RulesFor(bin, up) \ wrong : table[r] = 1

\* Run ends: for an error of a listener at once, and for a signal unless the
\* relay stays in ReadPacket or in a write, or a listener always has clients.
Held ==
  \/ thread["relay"] \in {"read", "send"}
  \/ \E l \in busy : thread[l] = "loop"
RunEnds ==
  /\ (main = "select" /\ \E l \in Listeners : thread[l] = "done") ~> main # "select"
  /\ []<>Held \/ (cancelled ~> main = "off")
=============================================================================
