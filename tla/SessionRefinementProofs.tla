----------------------- MODULE SessionRefinementProofs ----------------------
(* Proof that ServerSessions implements SessionLifecycle.                  *)
EXTENDS SessionRefinement, ServerSessionsProofs

\* The object that holds an id is unique.
LEMMA HolderUnique ==
  ASSUME IInv, IdsInv, NEW i \in Sids
  PROVE  /\ Issued(i) => Holder(i) \in States /\ sid[Holder(i)] = i
         /\ \A s \in States : sid[s] = i => Holder(i) = s
<1>1. Issued(i) => Holder(i) \in States /\ sid[Holder(i)] = i
  BY DEF Issued, Holder
<1>2. ASSUME NEW s \in States, sid[s] = i PROVE Holder(i) = s
  <2>1. Issued(i)
    BY <1>2 DEF Issued
  <2>2. sid[s] # None
    BY <1>2, NoneIsNoObject
  <2> QED
    BY <1>1, <1>2, <2>1, <2>2 DEF IdsInv, IdsOk
<1> QED
  BY <1>1, <1>2

\* A step that touches no id, no binding and no pending binding stutters.
LEMMA Stutter ==
  ASSUME IInv, IdsInv, sid' = sid, bySID' = bySID, told' = told,
         \A s \in States : sid[s] # None => owner'[s] = owner[s],
         \A c \in Conns : /\ At(c, "bind") <=> At(c, "bind")'
                          /\ At(c, "bind") => st'[c] = st[c]
  PROVE  UNCHANGED <<life, peer, told>>
<1>1. ASSUME NEW i \in Sids
      PROVE  /\ Issued(i)' = Issued(i)
             /\ Holder(i)' = Holder(i)
             /\ BindPending(i)' = BindPending(i)
  <2>1. Issued(i)' = Issued(i) /\ Holder(i)' = Holder(i)
    BY DEF Issued, Holder
  <2>2. BindPending(i)' = BindPending(i)
    BY DEF BindPending
  <2> QED
    BY <2>1, <2>2
<1>2. life' = life
  BY <1>1 DEF life
<1>3. ASSUME NEW i \in Sids, Issued(i) PROVE owner'[Holder(i)] = owner[Holder(i)]
  <2>1. Holder(i) \in States /\ sid[Holder(i)] = i /\ i # None
    BY <1>3, HolderUnique, NoneIsNoObject
  <2> QED
    BY <2>1
<1>4. peer' = peer
  BY <1>1, <1>3 DEF peer
<1> QED
  BY <1>2, <1>4

\* In the empty server no id has been issued.
LEMMA RefineInit == Init => L!Init
<1> SUFFICES ASSUME Init PROVE L!Init
  OBVIOUS
<1>1. \A i \in Sids : ~Issued(i)
  BY NoneIsNoObject DEF Init, Issued
<1> QED
  BY <1>1 DEF Init, L!Init, life, peer

\* Auth issues the fresh id, or nothing when there is none.
LEMMA RefineAuth ==
  ASSUME IInv, IdsInv, NEW c \in Conns, Auth(c)
  PROVE  L!Next \/ UNCHANGED <<life, peer, told>>
<1> USE NoneIsNoObject DEF Auth, Working, At, GoTo, tables, history
<1>1. /\ pc[c] = "work" /\ st[c] \in States /\ sid[st[c]] = None
      /\ owner[st[c]] = c /\ owner' = owner /\ bySID' = bySID /\ told' = told
  BY DEF IInv, TypeOK, HandOk, ObjectsOk
<1>2. PICK i \in NewSid : /\ sid' = [sid EXCEPT ![st[c]] = i]
                          /\ GoTo(c, AfterAuth(i), st[c])
  OBVIOUS
<1>3. CASE i = None
  <2>1. sid' = sid
    BY <1>1, <1>2, <1>3 DEF IInv, TypeOK
  <2>2. \A d \in Conns : /\ At(d, "bind") <=> At(d, "bind")'
                         /\ At(d, "bind") => st'[d] = st[d]
    BY <1>1, <1>2, <1>3 DEF IInv, TypeOK, AfterAuth
  <2>3. \A s \in States : sid[s] # None => owner'[s] = owner[s]
    BY <1>1
  <2> QED
    BY <1>1, <2>1, <2>2, <2>3, Stutter DEF At
<1>4. CASE i # None
  <2>1. i \in Sids /\ ~Issued(i)
    BY <1>2, <1>4 DEF NewSid, Issued
  <2>2. pc' = [pc EXCEPT ![c] = "bind"] /\ st' = [st EXCEPT ![c] = st[c]]
    BY <1>2, <1>4 DEF AfterAuth
  <2>3. bySID[i] = None
    BY <2>1 DEF IInv, TypeOK, BoundIsSecure, Issued
  <2>4. Issued(i)' /\ Holder(i)' = st[c] /\ BindPending(i)'
    <3>1. sid'[st[c]] = i /\ \A s \in States : s # st[c] => sid'[s] # i
      BY <1>1, <1>2, <2>1 DEF IInv, TypeOK, Issued
    <3>2. Issued(i)' /\ Holder(i)' = st[c]
      BY <3>1, <1>1 DEF Issued, Holder
    <3>3. pc'[c] = "bind" /\ st'[c] = st[c]
      BY <2>2 DEF IInv, TypeOK
    <3> QED
      BY <3>1, <3>2, <3>3 DEF BindPending
  <2>5. ASSUME NEW j \in Sids, j # i
        PROVE  /\ Issued(j)' = Issued(j)
               /\ Issued(j) => Holder(j)' = Holder(j)
               /\ BindPending(j)' = BindPending(j)
    <3>1. \A s \in States : sid'[s] = j <=> sid[s] = j
      BY <1>1, <1>2, <2>5 DEF IInv, TypeOK
    <3>2. Issued(j)' = Issued(j) /\ Holder(j)' = Holder(j)
      BY <3>1 DEF Issued, Holder
    <3>3. ASSUME NEW d \in Conns
          PROVE  (At(d, "bind") /\ sid[st[d]] = j) <=> (At(d, "bind") /\ sid[st[d]] = j)'
      BY <1>1, <2>2, <2>5, <1>2 DEF IInv, TypeOK, HandOk
    <3>4. BindPending(j)' = BindPending(j)
      BY <3>3 DEF BindPending
    <3> QED
      BY <3>2, <3>4
  <2>6. life[i] = "unused" /\ life' = [life EXCEPT ![i] = "issued"]
    BY <1>1, <2>1, <2>3, <2>4, <2>5 DEF life
  <2>7. peer' = [peer EXCEPT ![i] = c]
    BY <1>1, <2>1, <2>4, <2>5 DEF peer
  <2>8. ASSUME NEW j \in Sids, peer[j] = c, life[j] = "issued" PROVE FALSE
    <3>1. PICK d \in Conns : At(d, "bind") /\ sid[st[d]] = j
      BY <2>8 DEF life, BindPending
    <3>2. Issued(j) /\ Holder(j) = st[d]
      BY <3>1, HolderUnique DEF Issued, IInv, TypeOK, HandOk
    <3>3. owner[st[d]] = d
      BY <3>1 DEF IInv, HandOk
    <3> QED
      BY <1>1, <2>8, <3>1, <3>2, <3>3 DEF peer
  <2> QED
    BY <1>1, <2>1, <2>6, <2>7, <2>8 DEF L!Next, L!Issue, L!Become
<1> QED
  BY <1>3, <1>4

\* What a change of bySID for one id does to life.
LEMMA LifeOf ==
  ASSUME IInv, IdsInv, sid' = sid, owner' = owner, NEW i \in Sids,
         \A j \in Sids \ {i} : bySID'[j] = bySID[j] /\ BindPending(j)' = BindPending(j)
  PROVE  /\ peer' = peer
         /\ life' = [life EXCEPT ![i] = life'[i]]
<1>1. ASSUME NEW j \in Sids PROVE Issued(j)' = Issued(j) /\ Holder(j)' = Holder(j)
  BY DEF Issued, Holder
<1>2. peer' = peer
  BY <1>1 DEF peer
<1>3. \A j \in Sids \ {i} : life'[j] = life[j]
  BY <1>1 DEF life
<1> QED
  BY <1>2, <1>3 DEF life

\* bindSessionID opens the id.
LEMMA RefineBind ==
  ASSUME IInv, IdsInv, NEW c \in Conns, Bind(c)
  PROVE  L!Next
<1>0. PICK i \in Sids : i = sid[st[c]]
  BY DEF Bind, At, IInv, TypeOK, HandOk
<1>1. /\ pc[c] = "bind" /\ st[c] \in States
      /\ sid' = sid /\ owner' = owner /\ told' = told
      /\ bySID[i] = None /\ bySID' = [bySID EXCEPT ![i] = st[c]]
      /\ pc' = [pc EXCEPT ![c] = "write"] /\ st' = [st EXCEPT ![c] = st[c]]
  BY <1>0 DEF Bind, At, GoTo, IInv, TypeOK, HandOk, IdsInv, BindOk, objects, history
<1>2. ASSUME NEW j \in Sids, j # i
      PROVE  bySID'[j] = bySID[j] /\ BindPending(j)' = BindPending(j)
  <2>1. bySID'[j] = bySID[j]
    BY <1>1, <1>2
  <2>2. ASSUME NEW d \in Conns
        PROVE  (At(d, "bind") /\ sid[st[d]] = j) <=> (At(d, "bind") /\ sid[st[d]] = j)'
    BY <1>0, <1>1, <1>2 DEF IInv, TypeOK, At
  <2> QED
    BY <2>1, <2>2 DEF BindPending
<1>3. Issued(i) /\ BindPending(i) /\ Issued(i)' /\ bySID'[i] # None
  BY <1>0, <1>1, NoneIsNoObject DEF Issued, BindPending, At, IInv, TypeOK
<1>4. life[i] = "issued" /\ life'[i] = "open"
  BY <1>1, <1>3 DEF life
<1> QED
  BY <1>1, <1>2, <1>4, LifeOf DEF L!Next, L!Open, L!Become

\* Deleting the binding of an id closes the id, unless it has none.
LEMMA RefineUnbound ==
  ASSUME IInv, IInv', IdsInv, NEW i \in Sids,
         bySID' = [bySID EXCEPT ![i] = None],
         sid' = sid, owner' = owner, told' = told,
         \A c \in Conns : /\ At(c, "bind") <=> At(c, "bind")'
                          /\ At(c, "bind") => st'[c] = st[c]
  PROVE  L!Next \/ UNCHANGED <<life, peer, told>>
<1>1. CASE bySID[i] = None
  <2>1. bySID' = bySID
    BY <1>1 DEF IInv, TypeOK
  <2> QED
    BY <2>1, Stutter
<1>2. CASE bySID[i] # None
  <2>1. \A j \in Sids : BindPending(j)' = BindPending(j)
    BY DEF BindPending
  <2>2. ~BindPending(i) /\ Issued(i) /\ Issued(i)'
    BY <1>2 DEF BindPending, IdsInv, BindOk, At, IInv, TypeOK, BoundIsSecure, Issued
  <2>3. life[i] = "open" /\ life'[i] = "closed"
    BY <1>2, <2>1, <2>2 DEF life, IInv, TypeOK
  <2>4. \A j \in Sids \ {i} : bySID'[j] = bySID[j]
    BY DEF IInv, TypeOK
  <2> QED
    BY <2>1, <2>3, <2>4, LifeOf DEF L!Next, L!Close, L!Become
<1> QED
  BY <1>1, <1>2

\* The ready frame tells an id that was opened.
LEMMA RefineWriteOk ==
  ASSUME IInv, IdsInv, NEW c \in Conns, WriteOk(c)
  PROVE  L!Next \/ UNCHANGED <<life, peer, told>>
<1>1. /\ pc[c] \in {"write", "echo"} /\ st[c] \in States
      /\ sid' = sid /\ owner' = owner /\ bySID' = bySID
      /\ pc' = [pc EXCEPT ![c] = "read"] /\ st' = [st EXCEPT ![c] = None]
      /\ told' = told \cup {j \in Sids : At(c, "write") /\ sid[st[c]] = j}
  BY DEF WriteOk, At, GoTo, IInv, TypeOK, HandOk, objects, tables
<1>2. \A d \in Conns : /\ At(d, "bind") <=> At(d, "bind")'
                       /\ At(d, "bind") => st'[d] = st[d]
  BY <1>1 DEF At, IInv, TypeOK
<1>3. CASE told' = told
  BY <1>1, <1>2, <1>3, Stutter
<1>4. CASE told' # told
  <2>1. PICK i \in Sids : i = sid[st[c]] /\ At(c, "write") /\ told' = told \cup {i}
    BY <1>1, <1>4
  <2>2. Issued(i) /\ ~BindPending(i)
    BY <1>1, <2>1, NoneIsNoObject
       DEF Issued, BindPending, At, IInv, TypeOK, HandOk, IdsInv, IdsOk
  <2>3. life[i] \in {"open", "closed"}
    BY <2>1, <2>2 DEF life
  <2>4. life' = life /\ peer' = peer
    <3>1. \A j \in Sids : Issued(j)' = Issued(j) /\ Holder(j)' = Holder(j)
      BY <1>1 DEF Issued, Holder
    <3>2. \A j \in Sids : BindPending(j)' = BindPending(j)
      BY <1>1, <1>2 DEF BindPending
    <3> QED
      BY <1>1, <3>1, <3>2 DEF life, peer
  <2> QED
    BY <2>1, <2>3, <2>4 DEF L!Next, L!Tell
<1> QED
  BY <1>3, <1>4

-----------------------------------------------------------------------------
\* Steps that leave bySID and sid alone and neither start nor end a binding.
Quiet == /\ sid' = sid /\ bySID' = bySID /\ told' = told
         /\ \A s \in States : sid[s] # None => owner'[s] = owner[s]
         /\ \A c \in Conns : /\ At(c, "bind") <=> At(c, "bind")'
                             /\ At(c, "bind") => st'[c] = st[c]

\* Each step of a connection's goroutine is a step of the life of ids.
LEMMA RefineConn ==
  ASSUME IInv, IInv', IdsInv, NEW c \in Conns,
         Peer(c) \/ ReadError(c) \/ Handler(c) \/ Write(c) \/ RelayPick(c)
  PROVE  L!Next \/ UNCHANGED <<life, peer, told>>
<1> USE DEF At, GoTo, tables, objects, hand, history
<1>1. ASSUME Frame(c) PROVE Quiet
  BY <1>1, NoneIsNoObject DEF Frame, Free, Quiet, IInv, TypeOK, ObjectsOk
<1>2. ASSUME \/ Accept(c) \/ PeerCut(c) \/ Oversize(c) \/ EmptyFrame(c)
             \/ ReadError(c) \/ WriteError(c) \/ Fail(c) \/ RelayPick(c)
      PROVE  Quiet
  BY <1>2 DEF Quiet, Accept, PeerCut, Oversize, EmptyFrame, ReadError, Exit,
     WriteError, Fail, RelayPick, IInv, TypeOK
<1>3. ASSUME NEW v \in {"v1", "v2"}, Hello(c, v) PROVE Quiet
  BY <1>3 DEF Quiet, Hello, Working, IInv, TypeOK
<1>4. ASSUME NEW ok \in BOOLEAN, Tunnel(c, ok) PROVE Quiet
  BY <1>4 DEF Quiet, Tunnel, Working, IInv, TypeOK
<1>5. ASSUME Echo(c) \/ Reject(c) \/ LockEcho(c) PROVE Quiet
  BY <1>5 DEF Quiet, Echo, Reject, LockEcho, Working, IInv, TypeOK
<1>6. ASSUME Drop(c) PROVE Quiet
  BY <1>6 DEF Quiet, Drop, AfterDrop, IInv, TypeOK
<1>7. ASSUME Unbind(c) PROVE L!Next \/ UNCHANGED <<life, peer, told>>
  <2>1. PICK i \in Sids : i = sid[st[c]]
    BY <1>7 DEF Unbind, IInv, TypeOK, HandOk
  <2>2. /\ bySID' = [bySID EXCEPT ![i] = None]
        /\ sid' = sid /\ owner' = owner /\ told' = told
        /\ \A d \in Conns : /\ At(d, "bind") <=> At(d, "bind")'
                            /\ At(d, "bind") => st'[d] = st[d]
    BY <1>7, <2>1 DEF Unbind, IInv, TypeOK
  <2> QED
    BY <2>2, RefineUnbound
<1>8. Quiet => UNCHANGED <<life, peer, told>>
  BY Stutter DEF Quiet
<1> HIDE DEF At, GoTo, tables, objects, hand, history
<1> QED
  BY <1>1, <1>2, <1>3, <1>4, <1>5, <1>6, <1>7, <1>8, RefineAuth, RefineBind,
     RefineWriteOk DEF Peer, Handler, Write

\* So is each step of the reaper, of the peers and of the UDP listener.
LEMMA RefineNext ==
  IInv /\ IInv' /\ IdsInv /\ [Next]_vars => L!Next \/ UNCHANGED <<life, peer, told>>
<1> SUFFICES ASSUME IInv, IInv', IdsInv, [Next]_vars
             PROVE  L!Next \/ UNCHANGED <<life, peer, told>>
  OBVIOUS
<1>1. Quiet => UNCHANGED <<life, peer, told>>
  BY Stutter DEF Quiet
<1>2. ASSUME NEW i \in Sids, ReapUnbind(i)
      PROVE  L!Next \/ UNCHANGED <<life, peer, told>>
  BY <1>2, RefineUnbound DEF ReapUnbind, objects, hand, history, At
<1>3. ASSUME \/ SweepStart \/ Take \/ SweepEnd
             \/ \E c \in Conns : Scan(c) \/ ReapClose(c)
             \/ \E s \in States : Age(s)
      PROVE  Quiet
  BY <1>3 DEF Quiet, SweepStart, Take, SweepEnd, Scan, ReapClose, Age, tables,
     objects, hand, history, At
<1>4. ASSUME \/ \E i \in Sids, ip \in BOOLEAN : UdpLookup(i, ip)
             \/ UdpHandle \/ RelaySend \/ RelayWritten
      PROVE  Quiet
  BY <1>4 DEF Quiet, UdpLookup, UdpHandle, RelaySend, RelayUdp, RelayLock,
     RelayWritten, tables, objects, hand, history, At
<1>5. CASE UNCHANGED vars
  BY <1>1, <1>5 DEF Quiet, vars, tables, objects, hand, history, At
<1> QED
  BY <1>1, <1>2, <1>3, <1>4, <1>5, RefineConn DEF Next, Reaper

\* The session tables implement the abstract life of session ids, whatever the
\* goroutines, the reaper and the peers do.
THEOREM Refinement == Spec => ImplementsLifecycle
<1>1. Init => L!Init
  BY RefineInit
<1>2. (IInv /\ IdsInv) /\ (IInv /\ IdsInv)' /\ [Next]_vars
        => [L!Next]_<<life, peer, told>>
  BY RefineNext
<1> QED
  BY <1>1, <1>2, Ids, PTL DEF Spec, ImplementsLifecycle, L!Spec

-----------------------------------------------------------------------------
(* What the server inherits from SessionLifecycle.                         *)

\* A client was told only of ids that were opened for a connection.
ToldInv ==
  /\ L!TypeOK
  /\ \A i \in Sids : life[i] = "unused" <=> peer[i] = None
  /\ \A i \in told : life[i] \in {"open", "closed"}

\* Nothing takes an id from its connection, or back to where it was.
Progress ==
  \A i \in Sids :
    /\ peer[i] # None => peer'[i] = peer[i]
    /\ life[i] = "issued" => life'[i] \in {"issued", "open"}
    /\ life[i] = "open" => life'[i] \in {"open", "closed"}
    /\ life[i] = "closed" => life'[i] = "closed"

LEMMA LifecycleStep ==
  ASSUME ToldInv, L!Next \/ UNCHANGED <<life, peer, told>>
  PROVE  ToldInv' /\ Progress
<1> USE DEF ToldInv, Progress, L!TypeOK, L!Lives, L!Become
<1>1. CASE UNCHANGED <<life, peer, told>>
  BY <1>1
<1>2. ASSUME NEW i \in Sids, NEW c \in Conns, L!Issue(i, c) PROVE ToldInv' /\ Progress
  BY <1>2, NoneIsNoObject DEF L!Issue
<1>3. ASSUME NEW i \in Sids, L!Open(i) \/ L!Tell(i) \/ L!Close(i) PROVE ToldInv' /\ Progress
  BY <1>3 DEF L!Open, L!Tell, L!Close
<1> QED
  BY <1>1, <1>2, <1>3 DEF L!Next

LEMMA LifecycleInit == L!Init => ToldInv
BY DEF L!Init, ToldInv, L!TypeOK, L!Lives

\* The ready frame names an id that bySID had before the frame was written, and
\* for the connection it was issued to (handleAuthV2Frame).
THEOREM ToldWereOpened == Spec => []ToldInv
<1>1. ToldInv /\ [L!Next]_<<life, peer, told>> => ToldInv'
  BY LifecycleStep
<1> QED
  BY <1>1, LifecycleInit, Refinement, PTL DEF ImplementsLifecycle, L!Spec

\* An id stays with its connection, and once it is out of bySID no late bind,
\* datagram or reaper brings it back.
THEOREM IdsNeverReturn == Spec => [][Progress]_<<life, peer, told>>
<1>1. ToldInv /\ [L!Next]_<<life, peer, told>> => [Progress]_<<life, peer, told>>
  BY LifecycleStep
<1> QED
  BY <1>1, ToldWereOpened, Refinement, PTL DEF ImplementsLifecycle, L!Spec
=============================================================================
