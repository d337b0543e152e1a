-------------------------- MODULE SessionLifecycle --------------------------
(***************************************************************************)
(* What the server promises about session ids, without its tables and its  *)
(* goroutines: an id is issued once, to one connection; it opens before    *)
(* its client is told of it; once it is closed it stays closed.            *)
(***************************************************************************)
CONSTANTS
  Conns,   \* the connections
  Sids,    \* the session ids
  None

VARIABLES
  life,    \* what has become of each id
  peer,    \* the connection an id was issued to
  told     \* the ids that were sent to their client

Lives == {"unused", "issued", "open", "closed"}

TypeOK ==
  /\ life \in [Sids -> Lives]
  /\ peer \in [Sids -> Conns \cup {None}]
  /\ told \subseteq Sids

Init ==
  /\ life = [i \in Sids |-> "unused"]
  /\ peer = [i \in Sids |-> None]
  /\ told = {}

Become(i, l) == life' = [life EXCEPT ![i] = l]

\* A connection has one id at a time on the way to being opened.
Issue(i, c) ==
  /\ life[i] = "unused"
  /\ \A j \in Sids : peer[j] = c => life[j] # "issued"
  /\ Become(i, "issued")
  /\ peer' = [peer EXCEPT ![i] = c]
  /\ UNCHANGED told

Open(i) ==
  /\ life[i] = "issued"
  /\ Become(i, "open")
  /\ UNCHANGED <<peer, told>>

\* By the time the client learns of it the id may have been closed again.
Tell(i) ==
  /\ life[i] \in {"open", "closed"}
  /\ told' = told \cup {i}
  /\ UNCHANGED <<life, peer>>

Close(i) ==
  /\ life[i] = "open"
  /\ Become(i, "closed")
  /\ UNCHANGED <<peer, told>>

Next ==
  \E i \in Sids :
    \/ \E c \in Conns : Issue(i, c)
    \/ Open(i) \/ Tell(i) \/ Close(i)

Spec == Init /\ [][Next]_<<life, peer, told>>
=============================================================================
