-------------------------- MODULE ServerRunProofs --------------------------
(***************************************************************************)
(* Type correctness of ServerRun, with the capacity of errCh, and RulesOnce *)
(* for any firewall programs, rules, upstreams and number of starts.       *)
(*                                                                         *)
(* RulesOnce needs to know how far New has come: of the rules for what     *)
(* this start found, those it has dealt with are there, and the one it is  *)
(* about to add is not.                                                    *)
(***************************************************************************)
EXTENDS ServerRun, TLAPS

Pending == todo \cup {adding}

\* No rule twice; the one to be added is missing.
OnceInv ==
  /\ \A r \in Rules \ wrong : table[r] <= 1
  /\ adding # None => adding \in wrong \/ table[adding] = 0

\* How far New has come with the rules of this start.
SetupInv ==
  /\ ~device => todo = {} /\ adding = None
  /\ device =>
       \E bin \in Bins, up \in Upstreams :
         /\ todo \subseteq RulesFor(bin, up)
         /\ \A r \in RulesFor(bin, up) \ wrong : r \in Pending \/ table[r] = 1
  /\ InRun => (tunnel => device) /\ todo = {} /\ adding = None

\* Before Run there is nothing to tell of, and each listener tells once.
Told(l) == IF thread[l] = "done" THEN 1 ELSE 0
RunInv ==
  /\ main \in {"off", "new"} => thread = Nothing /\ errors = 0 /\ udpSrv = "nil"
  /\ errors <= Told("udp") + Told("tcp")

IInv == TypeOK /\ OnceInv /\ SetupInv /\ RunInv

Untouched == UNCHANGED <<main, tunnel, setup>>

LEMMA RulesForType ==
  ASSUME NEW bin \in Bins, NEW up \in Upstreams
  PROVE  RulesFor(bin, up) \subseteq Rules
BY DEF RulesFor, Rules

\* Steps that leave the firewall and the place of main alone.
LEMMA UntouchedKeeps ==
  ASSUME OnceInv, SetupInv, Untouched
  PROVE  OnceInv' /\ SetupInv'
BY DEF OnceInv, SetupInv, Untouched, setup, InRun, Pending

LEMMA NothingRuns ==
  /\ Nothing \in [Threads -> Places]
  /\ \A t \in Threads : Nothing[t] = "none"
  /\ "udp" \in Threads /\ "tcp" \in Threads /\ Listeners \subseteq Threads
BY DEF Nothing, Threads, Listeners, Places

LEMMA InitIInv == Init => IInv
<1> SUFFICES ASSUME Init PROVE IInv
  OBVIOUS
<1>1. TypeOK
  <2>1. table \in [Rules -> Nat] /\ starts \in 0..MaxStarts /\ errors \in 0..2
    BY StartsAreCounted DEF Init
  <2> QED
    BY <2>1, NothingRuns DEF Init, TypeOK, Mains
<1>2. OnceInv /\ SetupInv
  BY DEF Init, OnceInv, SetupInv, InRun
<1>3. RunInv
  BY DEF Init, RunInv, Told, Nothing, Threads, Listeners
<1> QED
  BY <1>1, <1>2, <1>3 DEF IInv

LEMMA SetupSteps ==
  ASSUME IInv,
         Start \/ Exit \/ Kill \/ OpenDevice \/ OpenFails \/ AddRule \/ Run
           \/ \E r \in todo : CheckRule(r)
  PROVE  IInv'
<1>1. CASE Start
  <2>1. OnceInv' /\ SetupInv'
    BY <1>1 DEF Start, IInv, OnceInv, SetupInv, InRun, Pending, setup
  <2>2. TypeOK' /\ RunInv'
    BY <1>1, StartsAreCounted DEF Start, IInv, TypeOK, RunInv, Told, Mains, setup, running
  <2> QED
    BY <2>1, <2>2 DEF IInv
<1>2. CASE Ends
  <2>1. OnceInv' /\ SetupInv'
    BY <1>2 DEF Ends, IInv, OnceInv, SetupInv, InRun
  <2>2. TypeOK'
    <3>1. thread' = Nothing /\ main' = "off" /\ errors' = 0 /\ udpSrv' = "nil" /\ todo' = {}
          /\ adding' = None /\ device' = FALSE /\ cancelled' = FALSE /\ busy' = {}
          /\ UNCHANGED <<tunnel, enabled, starts, table, wrong>>
      BY <1>2 DEF Ends
    <3>2. thread'["udp"] = "none" /\ thread' \in [Threads -> Places]
      BY <3>1, NothingRuns
    <3>3. main' \in Mains /\ main' # "select"
      BY <3>1 DEF Mains
    <3>4. errors' \in 0..2 /\ todo' \subseteq Rules /\ busy' \subseteq Listeners
      BY <3>1
    <3> QED
      BY <3>1, <3>2, <3>3, <3>4 DEF IInv, TypeOK
  <2>3. RunInv'
    BY <1>2 DEF Ends, RunInv, Told, Nothing, Threads, Listeners
  <2> QED
    BY <2>1, <2>2, <2>3 DEF IInv
<1>3. CASE OpenDevice
  <2>1. PICK bin \in Bins, up \in Upstreams : todo' = RulesFor(bin, up)
    BY <1>3 DEF OpenDevice
  <2>2. SetupInv'
    BY <1>3, <2>1 DEF OpenDevice, IInv, SetupInv, InRun, Pending
  <2>3. TypeOK'
    BY <1>3, <2>1, RulesForType DEF OpenDevice, IInv, TypeOK, running
  <2>4. OnceInv' /\ RunInv'
    BY <1>3 DEF OpenDevice, IInv, OnceInv, RunInv, Told, running
  <2> QED
    BY <2>2, <2>3, <2>4 DEF IInv
<1>4. CASE OpenFails
  BY <1>4 DEF OpenFails, IInv, TypeOK, OnceInv, SetupInv, RunInv, Told, Mains, InRun, Pending,
    setup, running
<1>5. CASE AddRule
  <2>1. adding \in Rules /\ table \in [Rules -> Nat] /\ main = main' /\ ~InRun
    BY <1>5 DEF AddRule, IInv, TypeOK, SetupInv
  <2>2. \/ table' = [table EXCEPT ![adding] = @ + 1] /\ wrong' = wrong
        \/ wrong' = wrong \cup {adding} /\ table' = table
    BY <1>5 DEF AddRule
  <2>3. TypeOK'
    BY <1>5, <2>1, <2>2 DEF AddRule, IInv, TypeOK, running
  <2>4. OnceInv'
    BY <1>5, <2>1, <2>2 DEF AddRule, IInv, OnceInv
  <2>5. SetupInv'
    <3>1. PICK bin \in Bins, up \in Upstreams :
            /\ todo \subseteq RulesFor(bin, up)
            /\ \A r \in RulesFor(bin, up) \ wrong : r \in Pending \/ table[r] = 1
      BY <1>5 DEF AddRule, IInv, SetupInv
    <3>2. ASSUME NEW r \in RulesFor(bin, up) \ wrong'
          PROVE  r \in Pending' \/ table'[r] = 1
      <4>1. r \in Rules /\ r \notin wrong
        BY <2>2, <3>2, RulesForType
      <4>2. CASE r = adding
        <5>1. adding # None /\ wrong' = wrong /\ table' = [table EXCEPT ![adding] = @ + 1]
          BY <1>5, <2>2, <3>2, <4>2 DEF AddRule
        <5>2. table[adding] = 0
          BY <4>1, <4>2, <5>1 DEF IInv, OnceInv
        <5> QED
          BY <2>1, <4>2, <5>1, <5>2
      <4>3. CASE r # adding
        BY <1>5, <2>1, <2>2, <3>1, <4>1, <4>3 DEF AddRule, Pending
      <4> QED
        BY <4>2, <4>3
    <3> QED
      BY <1>5, <2>1, <3>1, <3>2 DEF AddRule, IInv, SetupInv, InRun
  <2> QED
    BY <1>5, <2>3, <2>4, <2>5 DEF AddRule, IInv, RunInv, Told, running
<1>6. CASE Run
  <2>1. thread' = [t \in Threads |->
          IF t \notin Started THEN "none" ELSE IF t \in Listeners THEN "listen" ELSE "loop"]
    BY <1>6 DEF Run
  <2>2. thread["udp"] = "none" /\ errors = 0 /\ udpSrv = "nil"
    BY <1>6 DEF Run, IInv, RunInv, Nothing, Threads, Listeners
  <2>3. thread'["udp"] \in {"none", "listen"} /\ thread'["tcp"] \in {"none", "listen"}
    BY <2>1 DEF Threads, Listeners
  <2>4. thread' \in [Threads -> Places]
    BY <2>1 DEF Places
  <2>5. TypeOK'
    BY <1>6, <2>2, <2>3, <2>4 DEF Run, IInv, TypeOK, setup, Mains, Listeners
  <2>6. OnceInv' /\ SetupInv'
    BY <1>6 DEF Run, IInv, OnceInv, SetupInv, setup, InRun, Pending, TypeOK
  <2>7. RunInv'
    BY <1>6, <2>2, <2>3 DEF Run, RunInv, Told
  <2> QED
    BY <2>5, <2>6, <2>7 DEF IInv
<1>7. ASSUME NEW r \in todo, CheckRule(r) PROVE IInv'
  <2>1. r \in Rules /\ table \in [Rules -> Nat] /\ main = main' /\ ~InRun /\ device
    BY <1>7 DEF CheckRule, IInv, TypeOK, SetupInv
  <2>2. \/ table[r] # 0 /\ adding' = None /\ wrong' = wrong
        \/ table[r] = 0 /\ adding' = r /\ wrong' = wrong
        \/ adding' = r /\ wrong' = wrong \cup {r}
    BY <1>7 DEF CheckRule, Missing
  <2>3. TypeOK'
    BY <1>7, <2>1, <2>2 DEF CheckRule, IInv, TypeOK, running
  <2>4. OnceInv'
    BY <1>7, <2>1, <2>2 DEF CheckRule, IInv, OnceInv
  <2>5. SetupInv'
    <3>1. PICK bin \in Bins, up \in Upstreams :
            /\ todo \subseteq RulesFor(bin, up)
            /\ \A e \in RulesFor(bin, up) \ wrong : e \in Pending \/ table[e] = 1
      BY <2>1 DEF IInv, SetupInv
    <3>2. ASSUME NEW e \in RulesFor(bin, up) \ wrong'
          PROVE  e \in Pending' \/ table'[e] = 1
      <4>1. e \in Rules /\ e \notin wrong /\ table' = table
        BY <1>7, <2>2, <3>2, RulesForType DEF CheckRule
      <4>2. CASE e = r
        BY <2>1, <2>2, <4>1, <4>2 DEF IInv, OnceInv, Pending
      <4>3. CASE e # r
        <5>1. e # None => e \in todo \/ table[e] = 1
          BY <1>7, <3>1, <4>1 DEF CheckRule, Pending
        <5>2. e \in todo => e \in todo'
          BY <1>7, <4>3 DEF CheckRule
        <5> QED
          BY <4>1, <5>1, <5>2, NoneIsNoFirewallRule DEF Pending
      <4> QED
        BY <4>2, <4>3
    <3> QED
      BY <1>7, <2>1, <3>1, <3>2 DEF CheckRule, IInv, SetupInv, InRun
  <2> QED
    BY <1>7, <2>3, <2>4, <2>5 DEF CheckRule, IInv, RunInv, Told, running
<1> QED
  BY <1>1, <1>2, <1>3, <1>4, <1>5, <1>6, <1>7 DEF Exit, Kill

LEMMA RunSteps ==
  ASSUME IInv,
         \/ SelectDone \/ SelectError \/ WaitEnds \/ Signal
         \/ \E l \in Listeners :
              Listen(l) \/ ListenerFails(l) \/ ListenerStops(l) \/ Traffic(l)
         \/ ReaperStops \/ RelayLooks \/ RelayReads \/ RelaySends
  PROVE  IInv'
<1>1. CASE SelectDone \/ SelectError \/ WaitEnds
  <2>1. /\ InRun /\ main' \in {"wait", "failed", "out"}
        /\ UNCHANGED <<tunnel, enabled, starts, setup, thread, udpSrv, cancelled, busy>>
        /\ errors' \in {errors, errors - 1} /\ (errors' # errors => errors > 0)
    BY <1>1 DEF SelectDone, SelectError, WaitEnds, InRun, running
  <2>2. TypeOK'
    BY <2>1 DEF IInv, TypeOK, Mains, setup
  <2>3. OnceInv' /\ SetupInv' /\ RunInv'
    BY <2>1 DEF IInv, TypeOK, OnceInv, SetupInv, RunInv, InRun, setup, Pending, Told
  <2> QED
    BY <2>2, <2>3 DEF IInv
<1>2. CASE Signal
  <2>1. /\ Untouched /\ InRun /\ cancelled' = TRUE
        /\ UNCHANGED <<enabled, starts, thread, errors, udpSrv, busy>>
    BY <1>2 DEF Signal, Untouched
  <2>2. TypeOK' /\ RunInv'
    BY <2>1 DEF IInv, TypeOK, RunInv, Told, Untouched, setup
  <2> QED
    BY <2>1, <2>2, UntouchedKeeps DEF IInv
<1>3. ASSUME NEW l \in Listeners,
             Listen(l) \/ ListenerFails(l) \/ ListenerStops(l) \/ Traffic(l)
      PROVE  IInv'
  <2>1. Untouched /\ UNCHANGED <<enabled, starts, cancelled>> /\ busy' \subseteq Listeners
    BY <1>3 DEF Listen, ListenerFails, ListenerStops, Traffic, Shut, Untouched, IInv, TypeOK, running
  <2>2. thread[l] \in {"listen", "loop"} /\ main \notin {"off", "new"}
    BY <1>3 DEF Listen, ListenerFails, ListenerStops, Traffic, IInv, RunInv, Nothing, Threads, Listeners
  <2>3. /\ thread' \in [Threads -> Places] /\ \A t \in Threads \ {l} : thread'[t] = thread[t]
        /\ thread'[l] \in {"loop", "done"}
    BY <1>3, <2>2 DEF Listen, ListenerFails, ListenerStops, Traffic, GoTo, IInv, TypeOK, Places,
      Threads, Listeners, running
  <2>4. /\ errors' \in {errors, errors + 1}
        /\ errors' # errors => thread'[l] = "done"
        /\ thread'[l] = "done" => errors' = errors + 1 \/ cancelled
    BY <1>3, <2>2, <2>3 DEF Listen, ListenerFails, ListenerStops, Traffic, Tell, GoTo, IInv, TypeOK,
      running, Threads, Listeners
  <2>5. RunInv'
    BY <2>1, <2>2, <2>3, <2>4 DEF IInv, TypeOK, RunInv, Told, Threads, Listeners, Untouched
  <2>6. /\ udpSrv' \in {"nil", "open", "closed"}
        /\ udpSrv' = "open" <=> thread'["udp"] = "loop"
        /\ udpSrv' = "closed" => thread'["udp"] = "done"
    BY <1>3, <2>2, <2>3 DEF Listen, ListenerFails, ListenerStops, Traffic, Shut, GoTo, IInv, TypeOK,
      running, Threads, Listeners
  <2>7. TypeOK'
    BY <2>1, <2>2, <2>3, <2>4, <2>5, <2>6 DEF IInv, TypeOK, RunInv, Told, Untouched, setup, Threads, Listeners
  <2> QED
    BY <2>1, <2>5, <2>7, UntouchedKeeps DEF IInv
<1>4. CASE ReaperStops \/ RelayLooks \/ RelayReads \/ RelaySends
  <2>1. /\ Untouched /\ UNCHANGED <<enabled, starts, errors, udpSrv, cancelled, busy>>
        /\ thread' \in [Threads -> Places]
        /\ thread'["udp"] = thread["udp"] /\ thread'["tcp"] = thread["tcp"]
    BY <1>4 DEF ReaperStops, RelayLooks, RelayReads, RelaySends, Untouched, GoTo, IInv, TypeOK,
      Places, Threads, Listeners
  <2>2. main \notin {"off", "new"}
    BY <1>4 DEF ReaperStops, RelayLooks, RelayReads, RelaySends, IInv, RunInv, Nothing, Threads
  <2>3. TypeOK'
    BY <2>1 DEF IInv, TypeOK, Untouched, setup, Listeners
  <2> QED
    BY <2>1, <2>2, <2>3, UntouchedKeeps DEF IInv, RunInv, Told, Untouched
<1> QED
  BY <1>1, <1>2, <1>3, <1>4

LEMMA StepIInv == IInv /\ [Next]_vars => IInv'
<1> SUFFICES ASSUME IInv, [Next]_vars PROVE IInv'
  OBVIOUS
<1>1. CASE UNCHANGED vars
  BY <1>1 DEF vars, setup, running, IInv, TypeOK, OnceInv, SetupInv, RunInv, InRun, Pending, Told
<1>2. ASSUME NEW t \in Threads, Stops(t) PROVE IInv'
  <2>1. \/ ReaperStops \/ RelayLooks
        \/ t \in Listeners /\ ListenerStops(t)
    BY <1>2 DEF Stops, Threads
  <2> QED
    BY <2>1, RunSteps
<1>3. CASE Runs
  BY <1>3, SetupSteps, RunSteps DEF Runs
<1>4. CASE Next
  BY <1>2, <1>3, <1>4, SetupSteps, RunSteps DEF Next
<1> QED
  BY <1>1, <1>4

THEOREM Invariant == Spec => []IInv
BY InitIInv, StepIInv, PTL DEF Spec

\* Types; errCh holds at most two errors, and while Run selects, a listener
\* that is gone has left one there or was asked to go.
THEOREM Typing == Spec => []TypeOK
<1>1. IInv => TypeOK
  BY DEF IInv
<1> QED
  BY <1>1, Invariant, PTL

\* However the starts and ends follow each other, no firewall rule is repeated,
\* and all are there while Run runs, unless a command about it went wrong.
THEOREM RulesOnceAlways == Spec => []RulesOnce
<1>1. IInv => RulesOnce
  <2> SUFFICES ASSUME IInv PROVE RulesOnce
    OBVIOUS
  <2>1. ASSUME tunnel, InRun
        PROVE  \E bin \in Bins, up \in Upstreams :
                 \A r \in RulesFor(bin, up) \ wrong : table[r] = 1
    <3>1. device /\ todo = {} /\ adding = None
      BY <2>1 DEF IInv, SetupInv
    <3>2. PICK bin \in Bins, up \in Upstreams :
            \A r \in RulesFor(bin, up) \ wrong : r \in Pending \/ table[r] = 1
      BY <3>1 DEF IInv, SetupInv
    <3>3. \A r \in RulesFor(bin, up) : r # None
      BY NoneIsNoFirewallRule, RulesForType
    <3> QED
      BY <3>1, <3>2, <3>3 DEF Pending
  <2> QED
    BY <2>1 DEF IInv, OnceInv, RulesOnce
<1> QED
  BY <1>1, Invariant, PTL
=============================================================================
