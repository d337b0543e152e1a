------------------------ MODULE ServerSessionsProofs ------------------------
(***************************************************************************)
(* Proofs about ServerSessions, for every set of connections, objects and  *)
(* session ids.                                                            *)
(***************************************************************************)
EXTENDS ServerSessions, TLAPS

\* A goroutine that works on a frame holds a state of its own connection, and
\* one that binds holds an authenticated one.
HandOk ==
  \A c \in Conns :
    /\ st[c] # None <=>
         pc[c] \in {"work", "bind", "write", "lock", "echo", "unbind"}
    /\ st[c] # None =>
         owner[st[c]] = c /\ phase[st[c]] # "free"
    /\ pc[c] \in {"bind", "unbind"} => sid[st[c]] # None

\* The entry of a connection is an object of this connection.
EntriesOk ==
  \A c \in Conns :
    conns[c] # None => owner[conns[c]] = c /\ phase[conns[c]] # "free"

\* Only an authenticated v2 object has a session id.
ObjectsOk ==
  \A s \in States :
    /\ phase[s] = "await" => ver[s] = "v2"
    /\ phase[s] # "free" => owner[s] \in Conns
    /\ sid[s] # None => phase[s] = "secure" /\ ver[s] = "v2"

\* What the reaper scans is still in conns: it holds connMu.
ReapOk ==
  /\ \A c \in Conns :
       c \in todo \/ c = cur => sweeping /\ conns[c] # None
  /\ cur \notin todo

RelayOk ==
  relay.pc # "wait" => relay.st # None /\ phase[relay.st] # "free"

IInv ==
  TypeOK /\ HandOk /\ EntriesOk /\ ObjectsOk /\ ReapOk /\ RelayOk /\ BoundIsSecure

\* No two objects share a session id, and an id in use belongs to an object.
IdsOk ==
  /\ \A s, t \in States : s # t /\ sid[s] # None => sid[s] # sid[t]
  /\ \A i \in told \cup sids : \E s \in States : sid[s] = i

\* An id about to be bound is bound to nothing and known to nobody.
BindOk ==
  \A c \in Conns :
    pc[c] = "bind" => sid[st[c]] \notin told /\ bySID[sid[st[c]]] = None

\* The id of an entry is bound to it, or about to be.
EntriesBound ==
  \A c \in Conns :
    conns[c] # None /\ sid[conns[c]] # None =>
      (pc[c] = "bind" /\ st[c] = conns[c]) \/ bySID[sid[conns[c]]] = conns[c]

\* What is about to be unbound is no longer in conns.
UnbindOk ==
  \A c \in Conns :
    /\ pc[c] = "unbind" => conns[c] = None
    /\ conns[c] # None => sid[conns[c]] \notin sids

\* A state that may still be bound is in conns, unless the reaper took it.
BindingOk ==
  \A c \in Conns : Binding(c) => conns[c] = st[c] \/ st[c] \in raced

IdsInv ==
  IdsOk /\ BindOk /\ EntriesBound /\ UnbindOk /\ BindingOk /\ OrphansOnlyByRace

\* With replies that fit a frame, an entry is dropped only when its connection
\* is cut or closed.
DropOk == \A c \in Conns : pc[c] = "drop" => sock[c] # "open"

RelayInv == ~HugeReplies => DropOk /\ RelayIsReapable

-----------------------------------------------------------------------------
\* The invariant holds in the empty server.
LEMMA InitIInv == Init => IInv
<1> SUFFICES ASSUME Init PROVE IInv
  OBVIOUS
<1> USE NoneIsNoObject DEF Init
<1>1. TypeOK
  BY DEF TypeOK, Phases, Versions, Places
<1>2. HandOk /\ EntriesOk /\ ObjectsOk /\ ReapOk /\ RelayOk /\ BoundIsSecure
  BY DEF HandOk, EntriesOk, ObjectsOk, ReapOk, RelayOk, BoundIsSecure
<1> QED
  BY <1>1, <1>2 DEF IInv

\* Every step of the server keeps the invariant of the two tables.
LEMMA NextIInv == IInv /\ [Next]_vars => IInv'
<1> SUFFICES ASSUME IInv, [Next]_vars PROVE IInv'
  OBVIOUS
<1> USE NoneIsNoObject DEF IInv, At, GoTo, ConnMuFree, Working
<1> USE DEF vars, tables, objects, hand, reap, fields, history
<1> USE DEF TypeOK, Phases, Versions, Places
<1> USE DEF HandOk, EntriesOk, ObjectsOk, ReapOk, RelayOk, BoundIsSecure
<1>1. ASSUME NEW c \in Conns, Accept(c) PROVE IInv'
  BY <1>1 DEF Accept
<1>2. ASSUME NEW c \in Conns, PeerCut(c) PROVE IInv'
  BY <1>2 DEF PeerCut
<1>3. ASSUME NEW c \in Conns, Frame(c) PROVE IInv'
  BY <1>3 DEF Frame, Free
<1>4. ASSUME NEW c \in Conns, Oversize(c) PROVE IInv'
  BY <1>4 DEF Oversize
<1>5. ASSUME NEW c \in Conns, EmptyFrame(c) PROVE IInv'
  BY <1>5 DEF EmptyFrame, Exit
<1>6. ASSUME NEW c \in Conns, ReadError(c) PROVE IInv'
  BY <1>6 DEF ReadError, Exit
<1>7. ASSUME NEW c \in Conns, NEW v \in {"v1", "v2"}, Hello(c, v) PROVE IInv'
  BY <1>7 DEF Hello
<1>8. ASSUME NEW c \in Conns, Auth(c) PROVE IInv'
  BY <1>8 DEF Auth, NewSid, Secured, AfterAuth
<1>9. ASSUME NEW c \in Conns, Bind(c) PROVE IInv'
  BY <1>9 DEF Bind
<1>10. ASSUME NEW c \in Conns, NEW ok \in BOOLEAN, Tunnel(c, ok) PROVE IInv'
  BY <1>10 DEF Tunnel
<1>11. ASSUME NEW c \in Conns, Echo(c) PROVE IInv'
  BY <1>11 DEF Echo
<1>12. ASSUME NEW c \in Conns, Reject(c) PROVE IInv'
  BY <1>12 DEF Reject
<1>13. ASSUME NEW c \in Conns, LockEcho(c) PROVE IInv'
  BY <1>13 DEF LockEcho, WriteMuFree
<1>14. ASSUME NEW c \in Conns, Drop(c) PROVE IInv'
  BY <1>14 DEF Drop, AfterDrop, HasSid
<1>15. ASSUME NEW c \in Conns, Unbind(c) PROVE IInv'
  BY <1>15 DEF Unbind
<1>16. ASSUME NEW c \in Conns, WriteOk(c) PROVE IInv'
  BY <1>16 DEF WriteOk
<1>17. ASSUME NEW c \in Conns, WriteError(c) PROVE IInv'
  BY <1>17 DEF WriteError
<1>18. ASSUME NEW c \in Conns, Fail(c) PROVE IInv'
  BY <1>18 DEF Fail
<1>19. ASSUME NEW c \in Conns, RelayPick(c) PROVE IInv'
  BY <1>19 DEF RelayPick
<1>20. ASSUME NEW c \in Conns, Scan(c) PROVE IInv'
  BY <1>20 DEF Scan
<1>21. ASSUME NEW c \in Conns, ReapClose(c) PROVE IInv'
  BY <1>21 DEF ReapClose
<1>22. ASSUME NEW s \in States, Age(s) PROVE IInv'
  BY <1>22 DEF Age
<1>23. CASE SweepStart
  BY <1>23 DEF SweepStart
<1>24. CASE Take
  <2>1. cur \in Conns /\ conns[cur] \in States /\ conns[cur] # None
    BY <1>24 DEF Take
  <2>2. /\ sids' \subseteq Sids /\ toClose' \subseteq Conns
        /\ raced' \subseteq States
        /\ conns' \in [Conns -> States \cup {None}]
    BY <1>24, <2>1 DEF Take, SidsOf, ToClose, Deleted
  <2>3. TypeOK'
    BY <1>24, <2>2 DEF Take
  <2>4. ReapOk'
    BY <1>24, <2>1 DEF Take, Deleted
  <2> QED
    BY <1>24, <2>3, <2>4 DEF Take, Deleted
<1>25. CASE SweepEnd
  <2>1. TypeOK'
    BY <1>25 DEF SweepEnd
  <2>2. ReapOk'
    BY <1>25 DEF SweepEnd
  <2> QED
    BY <1>25, <2>1, <2>2 DEF SweepEnd
<1>26. ASSUME NEW i \in Sids, ReapUnbind(i) PROVE IInv'
  BY <1>26 DEF ReapUnbind
<1>27. ASSUME NEW i \in Sids, NEW ip \in BOOLEAN, UdpLookup(i, ip) PROVE IInv'
  BY <1>27 DEF UdpLookup
<1>28. CASE UdpHandle
  BY <1>28 DEF UdpHandle
<1>29. CASE RelayUdp
  BY <1>29 DEF RelayUdp, OverUdp
<1>30. CASE RelayLock
  BY <1>30 DEF RelayLock, WriteMuFree
<1>31. CASE RelayWritten
  BY <1>31 DEF RelayWritten
<1>32. CASE UNCHANGED vars
  BY <1>32
<1> HIDE DEF IInv, At, GoTo, ConnMuFree, Working
<1> QED
  BY <1>1, <1>2, <1>3, <1>4, <1>5, <1>6, <1>7, <1>8, <1>9, <1>10, <1>11,
     <1>12, <1>13, <1>14, <1>15, <1>16, <1>17, <1>18, <1>19, <1>20, <1>21,
     <1>22, <1>23, <1>24, <1>25, <1>26, <1>27, <1>28, <1>29, <1>30, <1>31,
     <1>32 DEF Next, Peer, Handler, Write, Reaper, RelaySend

\* Every variable keeps its type, in every instance of the server.
THEOREM Typing == Spec => []TypeOK
<1>1. IInv => TypeOK
  BY DEF IInv
<1> QED
  BY InitIInv, NextIInv, <1>1, PTL DEF Spec

\* What the UDP listener finds under a session id is the authenticated v2
\* session with this id.
THEOREM BoundIsSecureAlways == Spec => []BoundIsSecure
<1>1. IInv => BoundIsSecure
  BY DEF IInv
<1> QED
  BY InitIInv, NextIInv, <1>1, PTL DEF Spec

-----------------------------------------------------------------------------
\* The empty server has issued no id and its relay is idle.
LEMMA InitIds == Init => IdsInv /\ RelayInv
<1> USE NoneIsNoObject DEF Init
<1>1. Init => IdsInv
  BY DEF IdsInv, IdsOk, BindOk, EntriesBound, UnbindOk, BindingOk, Binding, At,
     OrphansOnlyByRace, Orphan
<1>2. Init => RelayInv
  BY DEF RelayInv, DropOk, RelayIsReapable
<1> QED
  BY <1>1, <1>2

\* newSessionID gives out fresh ids: every step keeps their holders unique.
LEMMA NextIds == IInv /\ IInv' /\ IdsInv /\ [Next]_vars => IdsInv'
<1> SUFFICES ASSUME IInv, IInv', IdsInv, [Next]_vars PROVE IdsInv'
  OBVIOUS
<1> USE NoneIsNoObject DEF IInv, At, GoTo, ConnMuFree, Working
<1> USE DEF vars, tables, objects, hand, reap, fields, history
<1> USE DEF TypeOK, HandOk, EntriesOk, ObjectsOk, ReapOk, BoundIsSecure
<1> USE DEF IdsInv, IdsOk, BindOk, EntriesBound, UnbindOk, BindingOk, Binding
<1> USE DEF OrphansOnlyByRace, Orphan, UnbindPending
<1>1. ASSUME NEW c \in Conns, Accept(c) PROVE IdsInv'
  BY <1>1 DEF Accept
<1>2. ASSUME NEW c \in Conns, PeerCut(c) PROVE IdsInv'
  BY <1>2 DEF PeerCut
<1>3. ASSUME NEW c \in Conns, Frame(c) PROVE IdsInv'
  <2>1. ASSUME conns[c] # None PROVE IdsInv'
    BY <1>3, <2>1 DEF Frame
  <2>2. ASSUME conns[c] = None, NEW s \in Free,
               phase' = [phase EXCEPT ![s] = "new"],
               conns' = [conns EXCEPT ![c] = s], GoTo(c, "work", s)
        PROVE  IdsInv'
    <3>1. sid[s] = None /\ s \in States
      BY <2>2 DEF Free
    <3>2. IdsOk' /\ BindOk' /\ UnbindOk'
      BY <1>3, <2>2, <3>1 DEF Frame
    <3>3. EntriesBound' /\ BindingOk'
      BY <1>3, <2>2, <3>1 DEF Frame
    <3>4. OrphansOnlyByRace'
      BY <1>3, <2>2, <3>1 DEF Frame
    <3> QED
      BY <3>2, <3>3, <3>4
  <2> QED
    BY <1>3, <2>1, <2>2 DEF Frame
<1>4. ASSUME NEW c \in Conns, Oversize(c) PROVE IdsInv'
  BY <1>4 DEF Oversize
<1>5. ASSUME NEW c \in Conns, EmptyFrame(c) PROVE IdsInv'
  BY <1>5 DEF EmptyFrame, Exit
<1>6. ASSUME NEW c \in Conns, ReadError(c) PROVE IdsInv'
  BY <1>6 DEF ReadError, Exit
<1>7. ASSUME NEW c \in Conns, NEW v \in {"v1", "v2"}, Hello(c, v) PROVE
     IdsInv'
  BY <1>7 DEF Hello
<1>8. ASSUME NEW c \in Conns, Auth(c) PROVE IdsInv'
  BY <1>8 DEF Auth, NewSid, Secured, AfterAuth
<1>9. ASSUME NEW c \in Conns, Bind(c) PROVE IdsInv'
  BY <1>9 DEF Bind
<1>10. ASSUME NEW c \in Conns, NEW ok \in BOOLEAN, Tunnel(c, ok) PROVE IdsInv'
  BY <1>10 DEF Tunnel
<1>11. ASSUME NEW c \in Conns, Echo(c) PROVE IdsInv'
  BY <1>11 DEF Echo
<1>12. ASSUME NEW c \in Conns, Reject(c) PROVE IdsInv'
  BY <1>12 DEF Reject
<1>13. ASSUME NEW c \in Conns, LockEcho(c) PROVE IdsInv'
  BY <1>13 DEF LockEcho, WriteMuFree
<1>14. ASSUME NEW c \in Conns, Drop(c) PROVE IdsInv'
  BY <1>14 DEF Drop, AfterDrop, HasSid
<1>15. ASSUME NEW c \in Conns, Unbind(c) PROVE IdsInv'
  BY <1>15 DEF Unbind
<1>16. ASSUME NEW c \in Conns, WriteOk(c) PROVE IdsInv'
  BY <1>16 DEF WriteOk
<1>17. ASSUME NEW c \in Conns, WriteError(c) PROVE IdsInv'
  BY <1>17 DEF WriteError
<1>18. ASSUME NEW c \in Conns, Fail(c) PROVE IdsInv'
  BY <1>18 DEF Fail
<1>19. ASSUME NEW c \in Conns, RelayPick(c) PROVE IdsInv'
  BY <1>19 DEF RelayPick
<1>20. ASSUME NEW c \in Conns, Scan(c) PROVE IdsInv'
  BY <1>20 DEF Scan
<1>21. ASSUME NEW c \in Conns, ReapClose(c) PROVE IdsInv'
  BY <1>21 DEF ReapClose
<1>22. ASSUME NEW s \in States, Age(s) PROVE IdsInv'
  BY <1>22 DEF Age
<1>23. CASE SweepStart
  BY <1>23 DEF SweepStart
<1>24. CASE Take
  BY <1>24 DEF Take, SidsOf, ToClose, Deleted
<1>25. CASE SweepEnd
  BY <1>25 DEF SweepEnd
<1>26. ASSUME NEW i \in Sids, ReapUnbind(i) PROVE IdsInv'
  BY <1>26 DEF ReapUnbind
<1>27. ASSUME NEW i \in Sids, NEW ip \in BOOLEAN, UdpLookup(i, ip) PROVE
     IdsInv'
  BY <1>27 DEF UdpLookup
<1>28. CASE UdpHandle
  BY <1>28 DEF UdpHandle
<1>29. CASE RelayUdp
  BY <1>29 DEF RelayUdp, OverUdp
<1>30. CASE RelayLock
  BY <1>30 DEF RelayLock, WriteMuFree
<1>31. CASE RelayWritten
  BY <1>31 DEF RelayWritten
<1>32. CASE UNCHANGED vars
  BY <1>32
<1> HIDE DEF IInv, IdsInv, At, GoTo, ConnMuFree, Working
<1> QED
  BY <1>1, <1>2, <1>3, <1>4, <1>5, <1>6, <1>7, <1>8, <1>9, <1>10, <1>11,
     <1>12, <1>13, <1>14, <1>15, <1>16, <1>17, <1>18, <1>19, <1>20, <1>21,
     <1>22, <1>23, <1>24, <1>25, <1>26, <1>27, <1>28, <1>29, <1>30, <1>31,
     <1>32 DEF Next, Peer, Handler, Write, Reaper, RelaySend

\* Both invariants hold always.
LEMMA Ids == Spec => [](IInv /\ IdsInv)
<1>1. Init => IInv /\ IdsInv
  BY InitIInv, InitIds
<1>2. (IInv /\ IdsInv) /\ [Next]_vars => (IInv /\ IdsInv)'
  BY NextIInv, NextIds
<1> QED
  BY <1>1, <1>2, PTL DEF Spec

\* A client that was told its session id reaches its state with it, as long as
\* the entry of its connection is in conns.
THEOREM ReadyIsReachableAlways == Spec => []ReadyIsReachable
<1>1. IInv /\ IdsInv => ReadyIsReachable
  BY NoneIsNoObject DEF IInv, IdsInv, EntriesBound, BindOk, ReadyIsReachable, TypeOK
<1> QED
  BY Ids, <1>1, PTL

\* Bound ids of removed entries are about to be unbound, except after the race
\* of the reaper with the frame that authenticates.
THEOREM OrphansOnlyByRaceAlways == Spec => []OrphansOnlyByRace
<1>1. IdsInv => OrphansOnlyByRace
  BY DEF IdsInv
<1> QED
  BY Ids, <1>1, PTL

\* An id told to a client is never bound again, nor moved to another state.
THEOREM RetiredForGoodAlways == Spec => RetiredForGood
<1> DEFINE Step ==
      \A i \in Sids :
        /\ bySID[i] # None => bySID'[i] \in {bySID[i], None}
        /\ i \in told /\ bySID[i] = None => bySID'[i] = None
<1>1. ASSUME IInv, IdsInv, [Next]_vars PROVE Step
  <2> USE <1>1 DEF IInv, TypeOK
  <2>1. ASSUME NEW c \in Conns, Bind(c) PROVE Step
    BY <2>1, NoneIsNoObject DEF Bind, At, IdsInv, BindOk, HandOk
  <2>2. ASSUME NEW c \in Conns, Unbind(c) PROVE Step
    BY <2>2 DEF Unbind
  <2>3. ASSUME NEW i \in Sids, ReapUnbind(i) PROVE Step
    BY <2>3 DEF ReapUnbind
  <2>4. CASE UNCHANGED bySID
    BY <2>4
  <2> HIDE DEF IInv, TypeOK, Step
  <2>5. bySID' = bySID \/ (\E c \in Conns : Bind(c) \/ Unbind(c))
          \/ (\E i \in Sids : ReapUnbind(i))
    <3> USE DEF vars, tables
    <3>1. ASSUME NEW c \in Conns, Peer(c) \/ ReadError(c) \/ Write(c) \/ RelayPick(c)
          PROVE  bySID' = bySID
      BY <3>1 DEF Peer, Accept, PeerCut, Frame, Oversize, EmptyFrame, ReadError,
         Exit, Write, WriteOk, WriteError, Fail, RelayPick
    <3>2. ASSUME NEW c \in Conns, Handler(c)
          PROVE  bySID' = bySID \/ Bind(c) \/ Unbind(c)
      BY <3>2 DEF Handler, Hello, Auth, Tunnel, Echo, Reject, LockEcho, Drop
    <3>3. ASSUME Reaper
          PROVE  bySID' = bySID \/ (\E i \in Sids : ReapUnbind(i))
      BY <3>3 DEF Reaper, SweepStart, Take, SweepEnd, Scan, ReapClose
    <3>4. ASSUME NEW s \in States, Age(s) PROVE bySID' = bySID
      BY <3>4 DEF Age
    <3>5. ASSUME NEW i \in Sids, NEW ip \in BOOLEAN, UdpLookup(i, ip)
          PROVE  bySID' = bySID
      BY <3>5 DEF UdpLookup
    <3>6. ASSUME UdpHandle \/ RelaySend \/ RelayWritten PROVE bySID' = bySID
      BY <3>6 DEF UdpHandle, RelaySend, RelayUdp, RelayLock, RelayWritten
    <3> QED
      BY <1>1, <3>1, <3>2, <3>3, <3>4, <3>5, <3>6 DEF Next
  <2> QED
    BY <2>1, <2>2, <2>3, <2>4, <2>5
<1>2. IInv /\ IdsInv /\ [Next]_vars => [Step]_vars
  BY <1>1
<1> QED
  BY Ids, <1>2, PTL DEF Spec, RetiredForGood

-----------------------------------------------------------------------------
\* Without oversized replies, every step keeps the relay's target reapable.
LEMMA NextRelay == IInv /\ IInv' /\ RelayInv /\ [Next]_vars => RelayInv'
<1> SUFFICES ASSUME ~HugeReplies, IInv, IInv', DropOk, RelayIsReapable, [Next]_vars
             PROVE  (DropOk /\ RelayIsReapable)'
  BY DEF RelayInv
<1> USE NoneIsNoObject DEF IInv, At, GoTo, ConnMuFree, Working
<1> USE DEF vars, tables, objects, hand, reap, fields, history
<1> USE DEF TypeOK, HandOk, EntriesOk, ObjectsOk, ReapOk, RelayOk
<1> USE DEF DropOk, RelayIsReapable
<1>1. ASSUME NEW c \in Conns, Accept(c) PROVE (DropOk /\ RelayIsReapable)'
  BY <1>1 DEF Accept
<1>2. ASSUME NEW c \in Conns, PeerCut(c) PROVE (DropOk /\ RelayIsReapable)'
  BY <1>2 DEF PeerCut
<1>3. ASSUME NEW c \in Conns, Frame(c) PROVE (DropOk /\ RelayIsReapable)'
  BY <1>3 DEF Frame, Free
<1>4. ASSUME NEW c \in Conns, Oversize(c) PROVE (DropOk /\ RelayIsReapable)'
  BY <1>4 DEF Oversize
<1>5. ASSUME NEW c \in Conns, EmptyFrame(c) PROVE (DropOk /\ RelayIsReapable)'
  BY <1>5 DEF EmptyFrame, Exit
<1>6. ASSUME NEW c \in Conns, ReadError(c) PROVE (DropOk /\ RelayIsReapable)'
  BY <1>6 DEF ReadError, Exit
<1>7. ASSUME NEW c \in Conns, NEW v \in {"v1", "v2"}, Hello(c, v) PROVE
     (DropOk /\ RelayIsReapable)'
  BY <1>7 DEF Hello
<1>8. ASSUME NEW c \in Conns, Auth(c) PROVE (DropOk /\ RelayIsReapable)'
  BY <1>8 DEF Auth, NewSid, Secured, AfterAuth
<1>9. ASSUME NEW c \in Conns, Bind(c) PROVE (DropOk /\ RelayIsReapable)'
  BY <1>9 DEF Bind
<1>10. ASSUME NEW c \in Conns, NEW ok \in BOOLEAN, Tunnel(c, ok) PROVE (DropOk
     /\ RelayIsReapable)'
  BY <1>10 DEF Tunnel
<1>11. ASSUME NEW c \in Conns, Echo(c) PROVE (DropOk /\ RelayIsReapable)'
  BY <1>11 DEF Echo
<1>12. ASSUME NEW c \in Conns, Reject(c) PROVE (DropOk /\ RelayIsReapable)'
  BY <1>12 DEF Reject
<1>13. ASSUME NEW c \in Conns, LockEcho(c) PROVE (DropOk /\ RelayIsReapable)'
  BY <1>13 DEF LockEcho, WriteMuFree
<1>14. ASSUME NEW c \in Conns, Drop(c) PROVE (DropOk /\ RelayIsReapable)'
  BY <1>14 DEF Drop, AfterDrop, HasSid
<1>15. ASSUME NEW c \in Conns, Unbind(c) PROVE (DropOk /\ RelayIsReapable)'
  BY <1>15 DEF Unbind
<1>16. ASSUME NEW c \in Conns, WriteOk(c) PROVE (DropOk /\ RelayIsReapable)'
  BY <1>16 DEF WriteOk
<1>17. ASSUME NEW c \in Conns, WriteError(c) PROVE (DropOk /\
     RelayIsReapable)'
  BY <1>17 DEF WriteError
<1>18. ASSUME NEW c \in Conns, Fail(c) PROVE (DropOk /\ RelayIsReapable)'
  BY <1>18 DEF Fail
<1>19. ASSUME NEW c \in Conns, RelayPick(c) PROVE (DropOk /\ RelayIsReapable)'
  BY <1>19 DEF RelayPick
<1>20. ASSUME NEW c \in Conns, Scan(c) PROVE (DropOk /\ RelayIsReapable)'
  BY <1>20 DEF Scan
<1>21. ASSUME NEW c \in Conns, ReapClose(c) PROVE (DropOk /\ RelayIsReapable)'
  BY <1>21 DEF ReapClose
<1>22. ASSUME NEW s \in States, Age(s) PROVE (DropOk /\ RelayIsReapable)'
  BY <1>22 DEF Age
<1>23. CASE SweepStart
  BY <1>23 DEF SweepStart
<1>24. CASE Take
  BY <1>24 DEF Take, SidsOf, ToClose, Deleted
<1>25. CASE SweepEnd
  BY <1>25 DEF SweepEnd
<1>26. ASSUME NEW i \in Sids, ReapUnbind(i) PROVE (DropOk /\ RelayIsReapable)'
  BY <1>26 DEF ReapUnbind
<1>27. ASSUME NEW i \in Sids, NEW ip \in BOOLEAN, UdpLookup(i, ip) PROVE
     (DropOk /\ RelayIsReapable)'
  BY <1>27 DEF UdpLookup
<1>28. CASE UdpHandle
  BY <1>28 DEF UdpHandle
<1>29. CASE RelayUdp
  BY <1>29 DEF RelayUdp, OverUdp
<1>30. CASE RelayLock
  BY <1>30 DEF RelayLock, WriteMuFree
<1>31. CASE RelayWritten
  BY <1>31 DEF RelayWritten
<1>32. CASE UNCHANGED vars
  BY <1>32
<1> HIDE DEF IInv, DropOk, RelayIsReapable, At, GoTo, ConnMuFree, Working
<1> QED
  BY <1>1, <1>2, <1>3, <1>4, <1>5, <1>6, <1>7, <1>8, <1>9, <1>10, <1>11,
     <1>12, <1>13, <1>14, <1>15, <1>16, <1>17, <1>18, <1>19, <1>20, <1>21,
     <1>22, <1>23, <1>24, <1>25, <1>26, <1>27, <1>28, <1>29, <1>30, <1>31,
     <1>32 DEF Next, Peer, Handler, Write, Reaper, RelaySend

\* While replies fit a frame, a relay that may be blocked is blocked on a
\* connection the reaper can still close.
THEOREM RelayIsReapableAlways == ~HugeReplies /\ Spec => []RelayIsReapable
<1>1. Init => IInv /\ RelayInv
  BY InitIInv, InitIds
<1>2. (IInv /\ RelayInv) /\ [Next]_vars => (IInv /\ RelayInv)'
  BY NextIInv, NextRelay
<1>3. Spec => []RelayInv
  BY <1>1, <1>2, PTL DEF Spec
<1>4. ASSUME ~HugeReplies PROVE RelayInv => RelayIsReapable
  BY <1>4 DEF RelayInv
<1>5. ASSUME ~HugeReplies PROVE Spec => []RelayIsReapable
  BY <1>3, <1>4, <1>5, PTL
<1> QED
  BY <1>5
=============================================================================
