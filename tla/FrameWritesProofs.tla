------------------------- MODULE FrameWritesProofs -------------------------
(***************************************************************************)
(* Type correctness of FrameWrites with its mutexes, WholeFrames and       *)
(* TakenInOrder, for any number of states, frames and requests.            *)
(*                                                                         *)
(* Two writers at work at once are never a pair whose frames must be       *)
(* whole: two writers of data for one state exclude each other by its      *)
(* writeMu, and the state whose ready frame is being written is not        *)
(* tunnelled, because the client has not read its id.  The latter needs    *)
(* the units on their way: none is of a body that is yet to be written.    *)
(*                                                                         *)
(* The client accepts frames in order because it stays in step with the    *)
(* stream.  Each call of Write puts a pair of units there, lengths come in *)
(* the order of their frames, and each length comes before its body.  So a *)
(* reader that has had the first n frames finds the length of n + 1 first: *)
(* what else could be there is the body of a frame it did not accept, and  *)
(* that ended the session.                                                 *)
(***************************************************************************)
EXTENDS FrameWrites, TLAPS, SequenceTheorems

Active(w) == w.pc \in {"head", "body"}
Numbers == 1..Len(frames)

\* Nothing belongs to a state, or answers a frame, that does not exist.
BoundInv ==
  /\ unread <= asks
  /\ entry <= states /\ tunnelled \subseteq 1..states
  /\ conn.g <= states
  /\ \A i \in Numbers : frames[i].g <= states

\* A writer knows the frame it is in.
WriterOK(w) ==
  /\ w.pc = "lock" => w.kind = "data"
  /\ (w.pc = "lock" \/ Active(w)) /\ w.kind = "data" => w.g \in States
  /\ w.pc = "body" => w.f \in Numbers /\ frames[w.f].kind = w.kind /\ frames[w.f].g = w.g
WriterInv ==
  /\ WriterOK(conn) /\ WriterOK(relay)
  /\ relay.kind = "data" /\ relay.pc # "close"
  /\ relay.pc # "read" => relay.g \in tunnelled
  /\ conn.pc = "body" /\ relay.pc = "body" => conn.f # relay.f

\* While its ready frame is being written a state is not tunnelled; there is
\* no other such frame.
HsInv ==
  (Active(conn) /\ conn.kind = "hs") =>
    /\ conn.g \in States /\ conn.g \notin tunnelled
    /\ \A i \in Numbers : (frames[i].kind = "hs" /\ frames[i].g = conn.g) =>
         conn.pc = "body" /\ i = conn.f

\* The client has nothing of a body that is yet to be written.
UnitsOf(s) == {s[i] : i \in 1..Len(s)}
OnWay == UnitsOf(stream) \cup UnitsOf(rd.got)
UnitInv ==
  /\ \A u \in OnWay : u.f \in Numbers /\ (conn.pc = "body" /\ u.f = conn.f => u.part \in {1, 2})
  /\ \A i \in 1..Len(taken) : taken[i] \in Numbers /\ (conn.pc = "body" => taken[i] # conn.f)

TornInv == torn \subseteq Numbers \X Numbers /\ WholeFrames

IInv == TypeOK /\ BoundInv /\ WriterInv /\ HsInv /\ UnitInv /\ TornInv

-----------------------------------------------------------------------------
LEMMA FrameTypes ==
  ASSUME IInv
  PROVE  \A i \in Numbers : frames[i].g \in 0..MaxStates /\ frames[i].kind \in Kinds
<1> DEFINE R == [kind : Kinds, g : 0..MaxStates]
<1>1. frames \in Seq(R)
  BY DEF IInv, TypeOK
<1>2. \A i \in Numbers : frames[i] \in R
  <2> HIDE DEF R
  <2> QED
    BY <1>1 DEF Numbers
<1> QED
  BY <1>2

LEMMA RestIsWriter == Rest \in Writers
BY BoundsAreNumbers DEF Rest, Writers, Kinds

LEMMA AppendUnits ==
  ASSUME NEW S, NEW s \in Seq(S), NEW a \in S
  PROVE  Append(s, a) \in Seq(S) /\ UnitsOf(Append(s, a)) = UnitsOf(s) \cup {a}
BY DEF UnitsOf

LEMMA ConcatUnits ==
  ASSUME NEW S, NEW s \in Seq(S), NEW a \in S, NEW b \in S
  PROVE  /\ s \o <<a, b>> \in Seq(S)
         /\ UnitsOf(s \o <<a, b>>) \subseteq UnitsOf(s) \cup {a, b}
BY DEF UnitsOf

LEMMA TailUnits ==
  ASSUME NEW S, NEW s \in Seq(S), s # <<>>
  PROVE  /\ Tail(s) \in Seq(S) /\ Head(s) \in S /\ Head(s) \in UnitsOf(s)
         /\ UnitsOf(Tail(s)) \subseteq UnitsOf(s)
BY DEF UnitsOf

LEMMA RestUnits ==
  ASSUME NEW S, NEW s \in Seq(S), NEW r \in Rests(s)
  PROVE  r \in Seq(S) /\ UnitsOf(r) \subseteq UnitsOf(s)
<1>1. CASE r = s
  BY <1>1
<1>2. ASSUME NEW k \in 1..(Len(s) + 1), r = SubSeq(s, k, Len(s))
      PROVE  r \in Seq(S) /\ UnitsOf(r) \subseteq UnitsOf(s)
  BY <1>2 DEF UnitsOf
<1> QED
  BY <1>1, <1>2 DEF Rests

\* Two writers at work: one writes an error, or they write for two states.
LEMMA Apart ==
  ASSUME IInv, Active(conn), Active(relay)
  PROVE  conn.kind = "error" \/ conn.g # relay.g
<1>1. CASE conn.kind = "data"
  BY <1>1 DEF IInv, TypeOK, MutexOK, Writes, WriterInv, WriterOK, Active
<1>2. CASE conn.kind = "hs"
  BY <1>2 DEF IInv, HsInv, WriterInv, Active
<1> QED
  BY <1>1, <1>2 DEF IInv, TypeOK, Writers, Kinds

LEMMA ReaderTypes ==
  /\ NewRead \in [pc : {"idle", "head", "body", "ended"}, need : Nat, got : Seq(Units)]
  /\ Idle \in [pc : {"idle", "head", "body", "ended"}, need : Nat, got : Seq(Units)]
  /\ Ended \in [pc : {"idle", "head", "body", "ended"}, need : Nat, got : Seq(Units)]
  /\ NewRead.got = <<>> /\ Idle.got = <<>> /\ Ended.got = <<>> /\ UnitsOf(<<>>) = {}
<1>1. <<>> \in Seq(Units) /\ UnitsOf(<<>>) = {}
  BY DEF UnitsOf
<1>2. /\ NewRead = [pc |-> "head", need |-> 2, got |-> <<>>]
      /\ Idle = [pc |-> "idle", need |-> 2, got |-> <<>>]
      /\ Ended = [pc |-> "ended", need |-> 2, got |-> <<>>]
  BY DEF NewRead, Idle, Ended
<1> QED
  BY <1>1, <1>2

LEMMA InitIInv == Init => IInv
<1> SUFFICES ASSUME Init PROVE IInv
  OBVIOUS
<1>1. TypeOK
  <2>1. Rest \in Writers /\ \A g \in States : ~Writes(Rest, g)
    BY RestIsWriter DEF Rest, Writes
  <2>2. rd \in [pc : {"idle", "head", "body", "ended"}, need : Nat, got : Seq(Units)]
    BY ReaderTypes DEF Init
  <2>3. /\ entry \in 0..MaxStates /\ states \in 0..MaxStates /\ Len(frames) <= MaxFrames
        /\ asks \in 0..MaxAsks /\ unread \in 0..MaxAsks
    BY BoundsAreNumbers DEF Init
  <2>4. MutexOK /\ mu \in [States -> {"free", "conn", "relay"}]
    BY <2>1 DEF Init, MutexOK
  <2>5. /\ frames \in Seq([kind : Kinds, g : 0..MaxStates]) /\ stream \in Seq(Units)
        /\ taken \in Seq(1..MaxFrames)
    BY DEF Init
  <2> QED
    BY <2>1, <2>2, <2>3, <2>4, <2>5 DEF Init, TypeOK
<1>2. BoundInv /\ WriterInv /\ HsInv /\ UnitInv /\ TornInv
  BY DEF Init, Rest, Active, BoundInv, WriterInv, WriterOK, HsInv, UnitInv, TornInv, WholeFrames,
    OnWay, UnitsOf, Idle, NewRead, Numbers
<1> QED
  BY <1>1, <1>2 DEF IInv

-----------------------------------------------------------------------------
(* The client.                                                             *)

ClientSide == <<stream, asks, unread, rd, taken, late>>

\* A client step leaves the server alone, and reads only what is on its way.
LEMMA ClientKeeps ==
  ASSUME IInv, UNCHANGED <<server, kind>>,
         unread' <= asks',
         open' \in BOOLEAN, asks' \in 0..MaxAsks, unread' \in 0..MaxAsks, late' \in BOOLEAN,
         stream' \in Seq(Units), taken' \in Seq(1..MaxFrames),
         rd' \in [pc : {"idle", "head", "body", "ended"}, need : Nat, got : Seq(Units)],
         OnWay' \subseteq OnWay,
         \/ taken' = taken
         \/ \E f \in Numbers : taken' = Append(taken, f) /\ (conn.pc = "body" => f # conn.f)
  PROVE  IInv'
<1> USE DEF server, lock
<1>1. TypeOK'
  BY DEF IInv, TypeOK, MutexOK, Writes
<1>2. BoundInv' /\ WriterInv' /\ HsInv' /\ TornInv'
  BY DEF IInv, BoundInv, WriterInv, WriterOK, HsInv, TornInv, WholeFrames, Active, Numbers
<1>3. UnitInv'
  <2>1. Numbers' = Numbers /\ conn' = conn
    BY DEF Numbers
  <2>2. \A u \in OnWay' : u.f \in Numbers /\ (conn.pc = "body" /\ u.f = conn.f => u.part \in {1, 2})
    BY DEF IInv, UnitInv
  <2>3. \A i \in 1..Len(taken') : taken'[i] \in Numbers /\ (conn.pc = "body" => taken'[i] # conn.f)
    <3>1. CASE taken' = taken
      BY <3>1 DEF IInv, UnitInv
    <3>2. ASSUME NEW f \in Numbers, taken' = Append(taken, f), conn.pc = "body" => f # conn.f
          PROVE  \A i \in 1..Len(taken') : taken'[i] \in Numbers /\ (conn.pc = "body" => taken'[i] # conn.f)
      <4>1. taken \in Seq(1..MaxFrames)
        BY DEF IInv, TypeOK
      <4>2. Len(taken') = Len(taken) + 1 /\ taken'[Len(taken) + 1] = f
            /\ \A i \in 1..Len(taken) : taken'[i] = taken[i]
        BY <3>2, <4>1
      <4>3. \A i \in 1..Len(taken') : i \in 1..Len(taken) \/ i = Len(taken) + 1
        BY <4>1, <4>2
      <4> QED
        BY <3>2, <4>2, <4>3 DEF IInv, UnitInv
    <3> QED
      BY <3>1, <3>2
  <2> QED
    BY <2>1, <2>2, <2>3 DEF UnitInv
<1> QED
  BY <1>1, <1>2, <1>3 DEF IInv

LEMMA ClientSteps ==
  ASSUME IInv, Ask \/ Send \/ ReadUnit \/ ReadHead \/ ReadBody \/ Timeout \/ Eof
  PROVE  IInv'
<1>1. /\ open \in BOOLEAN /\ asks \in 0..MaxAsks /\ unread \in 0..MaxAsks /\ late \in BOOLEAN
      /\ stream \in Seq(Units) /\ taken \in Seq(1..MaxFrames)
      /\ rd \in [pc : {"idle", "head", "body", "ended"}, need : Nat, got : Seq(Units)]
  BY DEF IInv, TypeOK
<1>7. unread <= asks
  BY DEF IInv, BoundInv
<1>2. CASE Ask \/ Send
  <2>1. /\ UNCHANGED <<server, open, kind, stream, taken, late>>
        /\ rd' \in {rd, NewRead} /\ asks' = asks + 1 /\ unread' = unread + 1 /\ asks < MaxAsks
    BY <1>2 DEF Ask, Send
  <2>2. asks' \in 0..MaxAsks
    BY <1>1, <2>1, BoundsAreNumbers
  <2>3. OnWay' \subseteq OnWay
    BY <2>1, ReaderTypes DEF OnWay
  <2>4. unread' \in 0..MaxAsks /\ unread' <= asks'
    BY <1>1, <1>7, <2>1, <2>2, BoundsAreNumbers
  <2> QED
    BY <1>1, <2>1, <2>2, <2>3, <2>4, <1>7, ReaderTypes, ClientKeeps
<1>3. CASE Timeout \/ Eof
  <2>1. /\ UNCHANGED <<server, kind, stream, asks, unread, taken>>
        /\ rd' \in {NewRead, Ended} /\ open' \in {open, FALSE} /\ late' \in BOOLEAN
    BY <1>1, <1>3 DEF Timeout, Eof, End
  <2>2. OnWay' \subseteq OnWay
    BY <2>1, ReaderTypes DEF OnWay
  <2> QED
    BY <1>1, <2>1, <2>2, <1>7, ReaderTypes, ClientKeeps
<1>4. CASE ReadUnit
  <2>1. /\ UNCHANGED <<server, kind, open, asks, unread, taken, late>> /\ stream # <<>>
        /\ stream' = Tail(stream) /\ rd' = [rd EXCEPT !.got = Append(@, Head(stream))]
    BY <1>4 DEF ReadUnit
  <2>2. /\ stream' \in Seq(Units) /\ Head(stream) \in Units /\ Head(stream) \in UnitsOf(stream)
        /\ UnitsOf(stream') \subseteq UnitsOf(stream)
    BY <1>1, <2>1, TailUnits
  <2>3. /\ rd'.got \in Seq(Units) /\ UnitsOf(rd'.got) = UnitsOf(rd.got) \cup {Head(stream)}
        /\ rd' \in [pc : {"idle", "head", "body", "ended"}, need : Nat, got : Seq(Units)]
    <3>1. rd.got \in Seq(Units)
      BY <1>1
    <3>2. /\ Append(rd.got, Head(stream)) \in Seq(Units)
          /\ UnitsOf(Append(rd.got, Head(stream))) = UnitsOf(rd.got) \cup {Head(stream)}
      BY <2>2, <3>1, AppendUnits
    <3>3. rd'.got = Append(rd.got, Head(stream))
      BY <1>1, <2>1
    <3> QED
      BY <1>1, <2>1, <3>2, <3>3
  <2>4. OnWay' \subseteq OnWay
    BY <2>2, <2>3 DEF OnWay
  <2> QED
    BY <1>1, <1>7, <2>1, <2>2, <2>3, <2>4, ClientKeeps
<1>5. CASE ReadHead
  <2>1. /\ UNCHANGED <<server, kind, asks, unread, taken, late>> /\ stream # <<>>
        /\ stream' = Tail(stream) /\ open' \in {open, FALSE}
        /\ rd' = Ended \/ \E k \in Nat : rd' = [pc |-> "body", need |-> k, got |-> <<>>]
    <3>1. /\ UNCHANGED <<server, kind, asks, unread, taken, late>> /\ stream # <<>>
          /\ stream' = Tail(stream)
      BY <1>5 DEF ReadHead, LastUnit
    <3>2. PICK k \in 0..MaxLength \cup {2} :
            IF k = 0 THEN End
            ELSE rd' = [pc |-> "body", need |-> k, got |-> <<>>] /\ UNCHANGED open
      BY <1>5 DEF ReadHead
    <3>3. k \in Nat
      BY BoundsAreNumbers
    <3> QED
      BY <3>1, <3>2, <3>3 DEF End
  <2>2. stream' \in Seq(Units) /\ UnitsOf(stream') \subseteq UnitsOf(stream)
    BY <1>1, <2>1, TailUnits
  <2>3. /\ rd' \in [pc : {"idle", "head", "body", "ended"}, need : Nat, got : Seq(Units)]
        /\ rd'.got = <<>>
    BY <2>1, ReaderTypes
  <2>4. OnWay' \subseteq OnWay
    BY <2>2, <2>3, ReaderTypes DEF OnWay
  <2> QED
    BY <1>1, <1>7, <2>1, <2>2, <2>3, <2>4, ClientKeeps
<1>6. CASE ReadBody
  <2> DEFINE u == Append(rd.got, Head(stream))
  <2>1. /\ UNCHANGED <<server, kind, asks, unread, late>> /\ stream # <<>>
        /\ stream' \in Rests(Tail(stream)) /\ open' \in {open, FALSE}
        /\ rd' \in {NewRead, Idle, Ended}
        /\ \/ taken' = taken
           \/ Whole(u) /\ taken' = Append(taken, u[1].f)
    BY <1>6 DEF ReadBody, LastUnit, End
  <2>2. /\ Tail(stream) \in Seq(Units) /\ Head(stream) \in Units /\ Head(stream) \in UnitsOf(stream)
        /\ UnitsOf(Tail(stream)) \subseteq UnitsOf(stream)
    BY <1>1, <2>1, TailUnits
  <2>3. stream' \in Seq(Units) /\ UnitsOf(stream') \subseteq UnitsOf(stream)
    BY <2>1, <2>2, RestUnits
  <2>4. u \in Seq(Units) /\ UnitsOf(u) \subseteq OnWay
    BY <1>1, <2>2, AppendUnits DEF OnWay
  <2>5. OnWay' \subseteq OnWay
    BY <2>1, <2>3, ReaderTypes DEF OnWay
  <2>6. ASSUME Whole(u) PROVE u[1].f \in Numbers /\ (conn.pc = "body" => u[1].f # conn.f)
    <3>1. u[1] \in OnWay /\ u[1].part = 3
      BY <2>4, <2>6 DEF Whole, UnitsOf
    <3> QED
      BY <3>1 DEF IInv, UnitInv
  <2>7. taken' \in Seq(1..MaxFrames)
    <3>1. Numbers \subseteq 1..MaxFrames
      BY BoundsAreNumbers DEF IInv, TypeOK, Numbers
    <3>2. Whole(u) => u[1].f \in 1..MaxFrames
      BY <2>6, <3>1
    <3>3. ASSUME NEW f \in 1..MaxFrames PROVE Append(taken, f) \in Seq(1..MaxFrames)
      BY <1>1
    <3> HIDE DEF u
    <3> QED
      BY <1>1, <2>1, <3>2, <3>3
  <2> QED
    BY <1>1, <2>1, <2>3, <2>5, <2>6, <2>7, <1>7, ReaderTypes, ClientKeeps
<1> QED
  BY <1>2, <1>3, <1>4, <1>5, <1>6
-----------------------------------------------------------------------------
(* The writers.                                                            *)

\* One more frame begins.
LEMMA NewFrame ==
  ASSUME IInv, Len(frames) < MaxFrames, NEW k \in Kinds, NEW g \in 0..MaxStates,
         frames' = Append(frames, [kind |-> k, g |-> g])
  PROVE  /\ frames' \in Seq([kind : Kinds, g : 0..MaxStates]) /\ Len(frames') <= MaxFrames
         /\ Len(frames) + 1 \in 1..MaxFrames /\ Len(frames) \in Nat
         /\ Numbers' = Numbers \cup {Len(frames) + 1} /\ Len(frames) + 1 \notin Numbers
         /\ \A i \in Numbers : frames'[i] = frames[i]
         /\ frames'[Len(frames) + 1] = [kind |-> k, g |-> g]
<1> DEFINE R == [kind : Kinds, g : 0..MaxStates]
<1>1. frames \in Seq(R) /\ [kind |-> k, g |-> g] \in R
  BY DEF IInv, TypeOK
<1>2. /\ frames' \in Seq(R) /\ Len(frames') = Len(frames) + 1 /\ Len(frames) \in Nat
      /\ \A i \in 1..Len(frames) : frames'[i] = frames[i]
      /\ frames'[Len(frames) + 1] = [kind |-> k, g |-> g]
  <2> HIDE DEF R
  <2> QED
    BY <1>1
<1> QED
  BY <1>2, BoundsAreNumbers DEF Numbers

\* Two units of one frame are written.
LEMMA NewUnits ==
  ASSUME IInv, NEW f \in 1..MaxFrames, NEW i \in 1..4, NEW j \in 1..4,
         stream' = stream \o <<Part(f, i), Part(f, j)>>, UNCHANGED rd
  PROVE  /\ stream' \in Seq(Units)
         /\ \A u \in OnWay' : u \in OnWay \/ (u.f = f /\ u.part \in {i, j})
<1>1. Part(f, i) \in Units /\ Part(f, j) \in Units /\ stream \in Seq(Units)
  BY DEF Part, Units, IInv, TypeOK
<1>2. stream' \in Seq(Units) /\ UnitsOf(stream') \subseteq UnitsOf(stream) \cup {Part(f, i), Part(f, j)}
  BY <1>1, ConcatUnits
<1>3. UnitsOf(rd.got)' = UnitsOf(rd.got) /\ UnitsOf(stream)' = UnitsOf(stream')
  BY DEF UnitsOf
<1>4. OnWay' \subseteq OnWay \cup {Part(f, i), Part(f, j)}
  BY <1>2, <1>3 DEF OnWay
<1>5. \A u \in {Part(f, i), Part(f, j)} : u.f = f /\ u.part \in {i, j}
  BY DEF Part
<1> QED
  BY <1>2, <1>4, <1>5

\* The length, and the body, of a frame.
LEMMA HeadUnits ==
  ASSUME IInv, NEW f \in 1..MaxFrames, stream' = stream \o <<Part(f, 1), Part(f, 2)>>, rd' = rd
  PROVE  /\ stream' \in Seq(Units)
         /\ \A u \in OnWay' : u \in OnWay \/ (u.f = f /\ u.part \in {1, 2})
<1>1. 1 \in 1..4 /\ 2 \in 1..4
  OBVIOUS
<1>2. /\ stream' \in Seq(Units)
      /\ \A u \in OnWay' : u \in OnWay \/ (u.f = f /\ u.part \in {1, 2})
  BY <1>1, NewUnits
<1> QED
  BY <1>2

LEMMA BodyUnits ==
  ASSUME IInv, NEW f \in 1..MaxFrames, stream' = stream \o <<Part(f, 3), Part(f, 4)>>, rd' = rd
  PROVE  stream' \in Seq(Units) /\ \A u \in OnWay' : u \in OnWay \/ u.f = f
<1>1. 3 \in 1..4 /\ 4 \in 1..4
  OBVIOUS
<1>2. /\ stream' \in Seq(Units)
      /\ \A u \in OnWay' : u \in OnWay \/ (u.f = f /\ u.part \in {3, 4})
  BY <1>1, NewUnits
<1> QED
  BY <1>2

\* Frame e may have a frame of this kind and state in its middle.
Excused(e, k, g) == "error" \in {frames[e].kind, k} \/ frames[e].g # g
Tears(f, k, g) ==
  torn' = torn \/ \E e \in Numbers : torn' = torn \cup {<<e, f>>} /\ Excused(e, k, g)

LEMMA ConnTears ==
  ASSUME IInv, Active(conn), NEW f, Tear(relay, f)
  PROVE  Tears(f, conn.kind, conn.g)
<1>1. CASE relay.pc # "body"
  BY <1>1 DEF Tear, OpenFrames, Tears
<1>2. CASE relay.pc = "body"
  <2>1. relay.f \in Numbers /\ frames[relay.f].kind = relay.kind /\ frames[relay.f].g = relay.g
    BY <1>2 DEF IInv, WriterInv, WriterOK
  <2>2. conn.kind = "error" \/ conn.g # relay.g
    BY <1>2, Apart DEF Active
  <2>3. torn' = torn \cup {<<relay.f, f>>}
    BY <1>2 DEF Tear, OpenFrames
  <2> QED
    BY <2>1, <2>2, <2>3 DEF Tears, Excused
<1> QED
  BY <1>1, <1>2

LEMMA RelayTears ==
  ASSUME IInv, Active(relay), NEW f, Tear(conn, f)
  PROVE  Tears(f, relay.kind, relay.g)
<1>1. CASE conn.pc # "body"
  BY <1>1 DEF Tear, OpenFrames, Tears
<1>2. CASE conn.pc = "body"
  <2>1. conn.f \in Numbers /\ frames[conn.f].kind = conn.kind /\ frames[conn.f].g = conn.g
    BY <1>2 DEF IInv, WriterInv, WriterOK
  <2>2. conn.kind = "error" \/ conn.g # relay.g
    BY <1>2, Apart DEF Active
  <2>3. torn' = torn \cup {<<conn.f, f>>}
    BY <1>2 DEF Tear, OpenFrames
  <2> QED
    BY <2>1, <2>2, <2>3 DEF Tears, Excused
<1> QED
  BY <1>1, <1>2

\* A pair of frames that tear each other is one of those that may.
LEMMA MayTear ==
  ASSUME IInv, NEW f, Numbers' \subseteq Numbers \cup {f}, Numbers \subseteq Numbers', f \in Numbers',
         \A i \in Numbers : frames'[i] = frames[i],
         Tears(f, frames'[f].kind, frames'[f].g)
  PROVE  TornInv'
<1>1. TornInv
  BY DEF IInv
<1>2. CASE torn' = torn
  BY <1>1, <1>2 DEF TornInv, WholeFrames
<1>3. ASSUME NEW e \in Numbers, torn' = torn \cup {<<e, f>>},
             Excused(e, frames'[f].kind, frames'[f].g)
      PROVE  TornInv'
  <2>1. torn' \subseteq Numbers' \X Numbers'
    BY <1>1, <1>3 DEF TornInv
  <2>2. ASSUME NEW p \in torn
        PROVE  \/ "error" \in {frames'[p[1]].kind, frames'[p[2]].kind}
               \/ frames'[p[1]].g # frames'[p[2]].g
    BY <1>1, <2>2 DEF TornInv, WholeFrames
  <2>3. \/ "error" \in {frames'[e].kind, frames'[f].kind}
        \/ frames'[e].g # frames'[f].g
    BY <1>3 DEF Excused
  <2>4. <<e, f>>[1] = e /\ <<e, f>>[2] = f
    OBVIOUS
  <2>5. WholeFrames'
    <3> SUFFICES ASSUME NEW p \in torn'
                 PROVE  \/ "error" \in {frames'[p[1]].kind, frames'[p[2]].kind}
                        \/ frames'[p[1]].g # frames'[p[2]].g
      BY DEF WholeFrames
    <3>1. p \in torn \/ p = <<e, f>>
      BY <1>3
    <3> QED
      BY <2>2, <2>3, <2>4, <3>1
  <2> QED
    BY <2>1, <2>5 DEF TornInv
<1> QED
  BY <1>2, <1>3 DEF Tears
-----------------------------------------------------------------------------
(* The steps of the server that write nothing.                             *)

LEMMA QuietKeeps ==
  ASSUME IInv, UNCHANGED <<output, rd, taken>>, conn'.pc = "body" => conn' = conn
  PROVE  TornInv' /\ UnitInv'
BY DEF IInv, output, TornInv, WholeFrames, UnitInv, OnWay, UnitsOf, Numbers

LEMMA WriterType ==
  ASSUME NEW pc \in {"read", "lock", "head", "body", "close"}, NEW g \in 0..MaxStates,
         NEW k \in Kinds
  PROVE  [pc |-> pc, g |-> g, kind |-> k, f |-> 0] \in Writers
BY BoundsAreNumbers DEF Writers

LEMMA HearSteps ==
  ASSUME IInv, HearHello \/ HearEcho \/ HearPacket \/ HearBad
  PROVE  IInv'
<1> USE DEF client, output, lock
<1>1. /\ conn.pc = "read" /\ unread' = unread - 1 /\ unread' \in 0..MaxAsks /\ unread' <= asks
      /\ UNCHANGED <<open, mu, relay, output, client>> /\ entry \in 0..MaxStates
  <2>1. /\ conn.pc = "read" /\ unread > 0 /\ unread' = unread - 1
        /\ UNCHANGED <<open, mu, relay, output, client>>
    BY DEF HearHello, HearEcho, HearPacket, HearBad, Hears, Reading
  <2>2. unread \in 0..MaxAsks /\ unread <= asks /\ asks \in 0..MaxAsks /\ entry \in 0..MaxStates
    BY DEF IInv, TypeOK, BoundInv
  <2> QED
    BY <2>1, <2>2, BoundsAreNumbers
<1>2. CASE HearHello
  <2>1. /\ conn' = [pc |-> "head", g |-> states + 1, kind |-> "hs", f |-> 0]
        /\ states' = states + 1 /\ entry' = states + 1 /\ tunnelled' = tunnelled
        /\ states < MaxStates
    BY <1>2 DEF HearHello, Rest
  <2>2. states + 1 \in 1..MaxStates /\ states + 1 \in 0..MaxStates /\ states \in Nat
    BY <2>1, BoundsAreNumbers DEF IInv, TypeOK
  <2>3. conn' \in Writers
    BY <2>1, <2>2, WriterType DEF Kinds
  <2>4. TypeOK'
    BY <1>1, <2>1, <2>2, <2>3 DEF IInv, TypeOK, MutexOK, Writes
  <2>5. BoundInv'
    <3>1. \A i \in Numbers : frames[i].g \in 0..MaxStates
      BY FrameTypes
    <3> QED
      BY <1>1, <2>1, <2>2, <3>1 DEF IInv, BoundInv, Numbers
  <2>6. HsInv'
    <3>1. \A i \in Numbers : frames[i].g # states + 1
      BY <2>2 DEF IInv, BoundInv, TypeOK, Numbers
    <3> QED
      BY <1>1, <2>1, <2>2, <3>1 DEF IInv, BoundInv, HsInv, Numbers, Active, States
  <2>7. WriterInv'
    BY <1>1, <2>1 DEF IInv, WriterInv, WriterOK, Active, Numbers
  <2>8. TornInv' /\ UnitInv'
    BY <1>1, <2>1, QuietKeeps
  <2> QED
    BY <2>4, <2>5, <2>6, <2>7, <2>8 DEF IInv
<1>3. CASE HearEcho \/ HearBad
  <2>1. /\ UNCHANGED <<entry, states, tunnelled>>
        /\ \/ conn' = [pc |-> "lock", g |-> entry, kind |-> "data", f |-> 0] /\ entry # 0
           \/ conn' = [pc |-> "head", g |-> entry, kind |-> "error", f |-> 0]
    BY <1>3 DEF HearEcho, HearBad, Failing, Rest
  <2>2. conn' \in Writers
    BY <1>1, <2>1, WriterType DEF Kinds
  <2>3. TypeOK'
    BY <1>1, <2>1, <2>2 DEF IInv, TypeOK, MutexOK, Writes
  <2>4. BoundInv' /\ HsInv'
    BY <1>1, <2>1 DEF IInv, BoundInv, HsInv, Numbers, Active
  <2>5. WriterInv'
    BY <1>1, <2>1 DEF IInv, WriterInv, WriterOK, Active, Numbers, States
  <2>6. TornInv' /\ UnitInv'
    BY <1>1, <2>1, QuietKeeps
  <2> QED
    BY <2>3, <2>4, <2>5, <2>6 DEF IInv
<1>4. CASE HearPacket
  <2>1. /\ UNCHANGED <<entry, states>> /\ tunnelled' = tunnelled \cup {entry} /\ entry # 0
        /\ \/ conn' = conn
           \/ conn' = [pc |-> "head", g |-> entry, kind |-> "error", f |-> 0]
    BY <1>4 DEF HearPacket, Failing, Rest
  <2>2. entry \in States /\ entry \in 1..states
    BY <1>1, <2>1 DEF IInv, BoundInv, TypeOK, States
  <2>3. conn' \in Writers
    BY <1>1, <2>1, WriterType DEF Kinds, IInv, TypeOK
  <2>4. TypeOK'
    <3>1. \A g \in States : Writes(conn, g)' <=> Writes(conn, g)
      BY <1>1, <2>1 DEF Writes
    <3>2. MutexOK'
      BY <1>1, <3>1 DEF IInv, TypeOK, MutexOK, Writes
    <3>3. tunnelled' \subseteq States
      BY <2>1, <2>2 DEF IInv, TypeOK
    <3> QED
      BY <1>1, <2>1, <2>3, <3>2, <3>3 DEF IInv, TypeOK
  <2>5. BoundInv'
    <3>1. entry <= states /\ tunnelled \subseteq 1..states /\ conn.g <= states
          /\ (\A i \in Numbers : frames[i].g <= states) /\ unread' <= asks
      BY <1>1 DEF IInv, BoundInv
    <3>2. conn'.g \in {conn.g, entry}
      BY <2>1
    <3>3. tunnelled' \subseteq 1..states
      BY <2>1, <2>2, <3>1
    <3> QED
      BY <1>1, <2>1, <3>1, <3>2, <3>3 DEF BoundInv, Numbers
  <2>6. HsInv'
    <3>1. ~(Active(conn)' /\ conn'.kind = "hs")
      BY <1>1, <2>1 DEF Active
    <3> QED
      BY <3>1 DEF HsInv, Active
  <2>7. WriterInv'
    BY <1>1, <2>1, <2>2 DEF IInv, WriterInv, WriterOK, Active, Numbers, States
  <2>8. TornInv' /\ UnitInv'
    BY <1>1, <2>1, QuietKeeps
  <2> QED
    BY <2>4, <2>5, <2>6, <2>7, <2>8 DEF IInv
<1> QED
  BY <1>2, <1>3, <1>4

LEMMA TableSteps ==
  ASSUME IInv, ConnCloses \/ UdpPacket \/ Reap \/ Close
  PROVE  IInv'
<1> USE DEF client, output, lock
<1>1. CASE UdpPacket
  <2>1. /\ UNCHANGED <<open, entry, states, mu, conn, relay, output, unread, client>>
        /\ tunnelled' = tunnelled \cup {entry} /\ entry # 0
        /\ \E i \in 1..Len(taken) : frames[taken[i]] = [kind |-> "hs", g |-> entry]
    BY <1>1 DEF UdpPacket
  <2>2. entry \in States /\ entry \in 1..states
    BY <2>1 DEF IInv, BoundInv, TypeOK, States
  <2>3. (Active(conn) /\ conn.kind = "hs") => conn.g # entry
    BY <2>1 DEF IInv, HsInv, UnitInv
  <2>4. TypeOK'
    BY <2>1, <2>2 DEF IInv, TypeOK, MutexOK, Writes
  <2>5. BoundInv' /\ WriterInv'
    BY <2>1, <2>2 DEF IInv, BoundInv, WriterInv, WriterOK, Numbers, Active
  <2>6. HsInv'
    BY <2>1, <2>3 DEF IInv, HsInv, Numbers, Active
  <2> QED
    BY <2>1, <2>4, <2>5, <2>6, QuietKeeps DEF IInv
<1>2. CASE ConnCloses \/ Reap \/ Close
  <2>1. /\ UNCHANGED <<states, lock, relay, output, unread, client>>
        /\ open' \in BOOLEAN /\ entry' \in {entry, 0} /\ conn' \in {conn, Rest}
        /\ conn' # conn => conn.pc = "close"
    BY <1>2 DEF ConnCloses, Reap, Close, IInv, TypeOK
  <2>2. TypeOK'
    <3>1. entry' \in 0..MaxStates /\ conn' \in Writers
      BY <2>1, RestIsWriter, BoundsAreNumbers DEF IInv, TypeOK
    <3>2. MutexOK'
      BY <2>1 DEF IInv, TypeOK, MutexOK, Writes, Rest
    <3> QED
      BY <2>1, <3>1, <3>2 DEF IInv, TypeOK
  <2>3. BoundInv' /\ HsInv' /\ WriterInv'
    <3>1. entry' <= states /\ conn'.g <= states
      BY <2>1 DEF IInv, TypeOK, BoundInv, Rest
    <3>2. BoundInv'
      BY <2>1, <3>1 DEF IInv, BoundInv, Numbers
    <3>3. WriterOK(conn)' /\ ((Active(conn)' \/ conn'.pc = "body") => conn' = conn)
      BY <2>1 DEF IInv, WriterInv, WriterOK, Active, Rest, Numbers
    <3>4. HsInv'
      BY <2>1, <3>3 DEF IInv, HsInv, Numbers, Active
    <3>5. WriterInv'
      BY <2>1, <3>3 DEF IInv, WriterInv, WriterOK, Numbers, Active
    <3> QED
      BY <3>2, <3>4, <3>5
  <2>4. conn'.pc = "body" => conn' = conn
    BY <2>1 DEF Rest
  <2> QED
    BY <2>1, <2>2, <2>3, <2>4, QuietKeeps DEF IInv
<1> QED
  BY <1>1, <1>2

LEMMA LockSteps ==
  ASSUME IInv, ConnLocks \/ RelayLocks \/ RelayPicks
  PROVE  IInv'
<1> USE DEF client, output, lock
<1>1. CASE ConnLocks
  <2>1. /\ conn.pc = "lock" /\ conn.kind = "data" /\ conn.g \in States /\ mu[conn.g] = "free"
        /\ mu' = [mu EXCEPT ![conn.g] = "conn"] /\ conn' = [conn EXCEPT !.pc = "head"]
        /\ UNCHANGED <<open, entry, states, tunnelled, relay, output, unread, client>>
    BY <1>1 DEF ConnLocks, TakeMu, IInv, WriterInv, WriterOK
  <2>2. conn' \in Writers /\ conn'.pc = "head" /\ conn'.kind = "data" /\ conn'.g = conn.g
    BY <2>1 DEF IInv, TypeOK, Writers
  <2>3. TypeOK'
    <3>1. MutexOK' /\ mu' \in [States -> {"free", "conn", "relay"}]
      BY <2>1, <2>2 DEF IInv, TypeOK, MutexOK, Writes
    <3> QED
      BY <2>1, <2>2, <3>1 DEF IInv, TypeOK
  <2>4. BoundInv' /\ HsInv' /\ WriterInv'
    BY <2>1, <2>2 DEF IInv, BoundInv, HsInv, WriterInv, WriterOK, Numbers, Active
  <2> QED
    BY <2>1, <2>2, <2>3, <2>4, QuietKeeps DEF IInv
<1>2. CASE RelayLocks
  <2>1. /\ relay.pc = "lock" /\ relay.kind = "data" /\ relay.g \in States /\ mu[relay.g] = "free"
        /\ mu' = [mu EXCEPT ![relay.g] = "relay"] /\ relay' = [relay EXCEPT !.pc = "head"]
        /\ UNCHANGED <<open, entry, states, tunnelled, conn, output, unread, client>>
    BY <1>2 DEF RelayLocks, TakeMu, IInv, WriterInv, WriterOK
  <2>2. relay' \in Writers /\ relay'.pc = "head" /\ relay'.kind = "data" /\ relay'.g = relay.g
    BY <2>1 DEF IInv, TypeOK, Writers
  <2>3. TypeOK'
    <3>1. MutexOK' /\ mu' \in [States -> {"free", "conn", "relay"}]
      BY <2>1, <2>2 DEF IInv, TypeOK, MutexOK, Writes
    <3> QED
      BY <2>1, <2>2, <3>1 DEF IInv, TypeOK
  <2>4. BoundInv' /\ HsInv' /\ WriterInv'
    BY <2>1, <2>2 DEF IInv, BoundInv, HsInv, WriterInv, WriterOK, Numbers, Active
  <2> QED
    BY <2>1, <2>2, <2>3, <2>4, QuietKeeps DEF IInv
<1>3. CASE RelayPicks
  <2>1. /\ relay.pc = "read" /\ entry \in tunnelled /\ entry \in States /\ entry \in 0..MaxStates
        /\ relay' = [pc |-> "lock", g |-> entry, kind |-> "data", f |-> 0]
        /\ UNCHANGED <<open, entry, states, lock, conn, output, unread, client>>
    BY <1>3 DEF RelayPicks, Reading, Rest, IInv, TypeOK
  <2>2. relay' \in Writers
    BY <2>1, WriterType DEF Kinds
  <2>3. TypeOK'
    BY <2>1, <2>2 DEF IInv, TypeOK, MutexOK, Writes
  <2>4. BoundInv' /\ HsInv' /\ WriterInv'
    BY <2>1 DEF IInv, BoundInv, HsInv, WriterInv, WriterOK, Numbers, Active
  <2> QED
    BY <2>1, <2>3, <2>4, QuietKeeps DEF IInv
<1> QED
  BY <1>1, <1>2, <1>3
-----------------------------------------------------------------------------
(* The steps of the server that write.                                     *)

LEMMA HeadSteps ==
  ASSUME IInv, ConnPutsHead \/ RelayPutsHead
  PROVE  IInv'
<1> USE DEF client, lock
<1>1. CASE ConnPutsHead
  <2> DEFINE n == Len(frames) + 1
  <2>1. /\ conn.pc = "head" /\ Len(frames) < MaxFrames
        /\ frames' = Append(frames, [kind |-> conn.kind, g |-> conn.g])
        /\ stream' = stream \o <<Part(n, 1), Part(n, 2)>> /\ Tear(relay, n)
        /\ conn' = [conn EXCEPT !.pc = "body", !.f = n]
        /\ UNCHANGED <<open, entry, states, lock, relay, unread, client>>
    BY <1>1 DEF ConnPutsHead, PutHead
  <2>2. conn.kind \in Kinds /\ conn.g \in 0..MaxStates /\ Active(conn)
    BY <2>1 DEF IInv, TypeOK, Writers, Active
  <2>3. /\ frames' \in Seq([kind : Kinds, g : 0..MaxStates]) /\ Len(frames') <= MaxFrames
        /\ n \in 1..MaxFrames
        /\ Numbers' = Numbers \cup {n} /\ n \notin Numbers
        /\ \A i \in Numbers : frames'[i] = frames[i]
        /\ frames'[n] = [kind |-> conn.kind, g |-> conn.g]
    BY <2>1, <2>2, NewFrame
  <2> HIDE DEF n
  <2>4. stream' \in Seq(Units) /\ \A u \in OnWay' : u \in OnWay \/ (u.f = n /\ u.part \in {1, 2})
    BY <2>1, <2>3, HeadUnits
  <2>5. /\ conn' \in Writers /\ conn'.pc = "body" /\ conn'.f = n /\ conn'.kind = conn.kind
        /\ conn'.g = conn.g
    <3>1. n \in 0..MaxFrames
      BY <2>3, BoundsAreNumbers
    <3> QED
      BY <2>1, <3>1 DEF IInv, TypeOK, Writers
  <2>6. frames'[n].kind = conn.kind /\ frames'[n].g = conn.g /\ n \in Numbers'
    BY <2>3
  <2>7. TornInv'
    <3>1. Tears(n, frames'[n].kind, frames'[n].g)
      BY <2>1, <2>2, <2>6, ConnTears
    <3> QED
      BY <2>3, <2>6, <3>1, MayTear
  <2>8. TypeOK'
    <3>1. torn' \subseteq (1..MaxFrames) \X (1..MaxFrames)
      <4>1. Numbers' \subseteq 1..MaxFrames
        BY <2>3, BoundsAreNumbers DEF IInv, TypeOK, Numbers
      <4> QED
        BY <2>7, <4>1 DEF TornInv
    <3>2. MutexOK'
      <4>1. MutexOK /\ UNCHANGED <<mu, relay>> /\ conn.pc = "head"
        BY <2>1 DEF IInv, TypeOK, lock
      <4>2. \A g : Writes(conn, g)' <=> Writes(conn, g)
        BY <2>5, <4>1 DEF Writes
      <4>3. \A g : Writes(relay, g)' <=> Writes(relay, g)
        BY <4>1 DEF Writes
      <4> QED
        BY <4>1, <4>2, <4>3 DEF MutexOK
    <3> QED
      BY <2>1, <2>3, <2>4, <2>5, <3>1, <3>2 DEF IInv, TypeOK
  <2>9. BoundInv'
    <3>1. conn.g <= states
      BY <2>1, BoundsAreNumbers DEF IInv, TypeOK, WriterInv, BoundInv
    <3>2. \A i \in Numbers' : frames'[i].g <= states
      BY <2>3, <2>6, <3>1 DEF IInv, BoundInv
    <3>3. unread' = unread /\ asks' = asks /\ entry' = entry /\ states' = states
          /\ tunnelled' = tunnelled /\ conn'.g = conn.g
      BY <2>1, <2>5
    <3> QED
      BY <3>2, <3>3 DEF IInv, BoundInv
  <2>10. WriterInv'
    <3>1. WriterOK(conn)'
      BY <2>1, <2>2, <2>5, <2>6 DEF IInv, WriterInv, WriterOK, Active
    <3>2. WriterOK(relay)'
      <4>1. relay' = relay /\ WriterOK(relay)
        BY <2>1 DEF IInv, WriterInv
      <4>2. relay.pc = "body" =>
              relay.f \in Numbers' /\ frames'[relay.f].kind = relay.kind /\ frames'[relay.f].g = relay.g
        BY <2>3, <4>1 DEF WriterOK
      <4> QED
        BY <4>1, <4>2 DEF WriterOK, Active
    <3>3. relay.pc = "body" => relay.f # n
      BY <2>3 DEF IInv, WriterInv, WriterOK
    <3>4. WriterInv /\ tunnelled' = tunnelled /\ relay' = relay
      BY <2>1 DEF IInv
    <3> QED
      BY <2>1, <2>5, <3>1, <3>2, <3>3, <3>4 DEF WriterInv
  <2>11. HsInv'
    <3>1. ASSUME conn.kind = "hs"
          PROVE  /\ conn.g \in States /\ conn.g \notin tunnelled
                 /\ \A i \in Numbers : ~(frames[i].kind = "hs" /\ frames[i].g = conn.g)
      BY <2>1, <2>2, <3>1 DEF IInv, HsInv
    <3>2. ASSUME conn.kind = "hs"
          PROVE  \A i \in Numbers' : (frames'[i].kind = "hs" /\ frames'[i].g = conn.g) => i = n
      BY <2>3, <3>1, <3>2
    <3>3. tunnelled' = tunnelled
      BY <2>1
    <3> QED
      BY <2>5, <3>1, <3>2, <3>3 DEF HsInv
  <2>12. UnitInv'
    <3>1. \A u \in OnWay' : u.f \in Numbers' /\ (u.f = n => u.part \in {1, 2})
      BY <2>3, <2>4, <2>6 DEF IInv, UnitInv
    <3>2. taken' = taken /\ \A i \in 1..Len(taken) : taken[i] \in Numbers' /\ taken[i] # n
      BY <2>1, <2>3 DEF IInv, UnitInv
    <3> QED
      BY <2>5, <3>1, <3>2 DEF UnitInv
  <2> QED
    BY <2>7, <2>8, <2>9, <2>10, <2>11, <2>12 DEF IInv
<1>2. CASE RelayPutsHead
  <2> DEFINE n == Len(frames) + 1
  <2>1. /\ relay.pc = "head" /\ Len(frames) < MaxFrames
        /\ frames' = Append(frames, [kind |-> relay.kind, g |-> relay.g])
        /\ stream' = stream \o <<Part(n, 1), Part(n, 2)>> /\ Tear(conn, n)
        /\ relay' = [relay EXCEPT !.pc = "body", !.f = n]
        /\ UNCHANGED <<open, entry, states, lock, conn, unread, client>>
    BY <1>2 DEF RelayPutsHead, PutHead
  <2>2. relay.kind \in Kinds /\ relay.g \in 0..MaxStates /\ Active(relay)
    BY <2>1 DEF IInv, TypeOK, Writers, Active
  <2>3. /\ frames' \in Seq([kind : Kinds, g : 0..MaxStates]) /\ Len(frames') <= MaxFrames
        /\ n \in 1..MaxFrames
        /\ Numbers' = Numbers \cup {n} /\ n \notin Numbers
        /\ \A i \in Numbers : frames'[i] = frames[i]
        /\ frames'[n] = [kind |-> relay.kind, g |-> relay.g]
    BY <2>1, <2>2, NewFrame
  <2> HIDE DEF n
  <2>4. stream' \in Seq(Units) /\ \A u \in OnWay' : u \in OnWay \/ (u.f = n /\ u.part \in {1, 2})
    BY <2>1, <2>3, HeadUnits
  <2>5. /\ relay' \in Writers /\ relay'.pc = "body" /\ relay'.f = n /\ relay'.kind = relay.kind
        /\ relay'.g = relay.g
    <3>1. n \in 0..MaxFrames
      BY <2>3, BoundsAreNumbers
    <3> QED
      BY <2>1, <3>1 DEF IInv, TypeOK, Writers
  <2>6. frames'[n].kind = relay.kind /\ frames'[n].g = relay.g /\ n \in Numbers'
    BY <2>3
  <2>7. TornInv'
    <3>1. Tears(n, frames'[n].kind, frames'[n].g)
      BY <2>1, <2>2, <2>6, RelayTears
    <3> QED
      BY <2>3, <2>6, <3>1, MayTear
  <2>8. TypeOK'
    <3>1. torn' \subseteq (1..MaxFrames) \X (1..MaxFrames)
      <4>1. Numbers' \subseteq 1..MaxFrames
        BY <2>3, BoundsAreNumbers DEF IInv, TypeOK, Numbers
      <4> QED
        BY <2>7, <4>1 DEF TornInv
    <3>2. MutexOK'
      <4>1. MutexOK /\ UNCHANGED <<mu, conn>> /\ relay.pc = "head"
        BY <2>1 DEF IInv, TypeOK, lock
      <4>2. \A g : Writes(relay, g)' <=> Writes(relay, g)
        BY <2>5, <4>1 DEF Writes
      <4>3. \A g : Writes(conn, g)' <=> Writes(conn, g)
        BY <4>1 DEF Writes
      <4> QED
        BY <4>1, <4>2, <4>3 DEF MutexOK
    <3> QED
      BY <2>1, <2>3, <2>4, <2>5, <3>1, <3>2 DEF IInv, TypeOK
  <2>9. BoundInv'
    <3>1. relay.g <= states
      BY <2>1, BoundsAreNumbers, SMTT(30) DEF IInv, TypeOK, WriterInv, BoundInv
    <3>2. \A i \in Numbers' : frames'[i].g <= states
      BY <2>3, <2>6, <3>1 DEF IInv, BoundInv
    <3>3. unread' = unread /\ asks' = asks /\ entry' = entry /\ states' = states
          /\ tunnelled' = tunnelled /\ conn'.g = conn.g
      BY <2>1, <2>5
    <3> QED
      BY <3>2, <3>3 DEF IInv, BoundInv
  <2>10. WriterInv'
    <3>1. WriterOK(relay)'
      BY <2>1, <2>2, <2>5, <2>6 DEF IInv, WriterInv, WriterOK, Active
    <3>2. WriterOK(conn)'
      <4>1. conn' = conn /\ WriterOK(conn)
        BY <2>1 DEF IInv, WriterInv
      <4>2. conn.pc = "body" =>
              conn.f \in Numbers' /\ frames'[conn.f].kind = conn.kind /\ frames'[conn.f].g = conn.g
        BY <2>3, <4>1 DEF WriterOK
      <4> QED
        BY <4>1, <4>2 DEF WriterOK, Active
    <3>3. conn.pc = "body" => conn.f # n
      BY <2>3 DEF IInv, WriterInv, WriterOK
    <3>4. WriterInv /\ tunnelled' = tunnelled /\ conn' = conn
      BY <2>1 DEF IInv
    <3> QED
      BY <2>1, <2>5, <3>1, <3>2, <3>3, <3>4 DEF WriterInv
  <2>11. HsInv'
    <3>1. relay.kind = "data" /\ conn' = conn /\ tunnelled' = tunnelled
      BY <2>1 DEF IInv, WriterInv
    <3>2. \A i \in Numbers' : frames'[i].kind = "hs" => i \in Numbers /\ frames'[i] = frames[i]
      BY <2>3, <2>6, <3>1
    <3> QED
      BY <3>1, <3>2 DEF IInv, HsInv, Active
  <2>12. UnitInv'
    <3>1. conn.pc = "body" => conn.f # n
      BY <2>3 DEF IInv, WriterInv, WriterOK
    <3>2. \A u \in OnWay' :
            u.f \in Numbers' /\ (conn.pc = "body" /\ u.f = conn.f => u.part \in {1, 2})
      BY <2>3, <2>4, <2>6 DEF IInv, UnitInv
    <3>3. /\ taken' = taken /\ conn' = conn
          /\ \A i \in 1..Len(taken) : taken[i] \in Numbers' /\ (conn.pc = "body" => taken[i] # conn.f)
      BY <2>1, <2>3 DEF IInv, UnitInv
    <3> QED
      BY <3>2, <3>3 DEF UnitInv
  <2> QED
    BY <2>7, <2>8, <2>9, <2>10, <2>11, <2>12 DEF IInv
<1> QED
  BY <1>1, <1>2

\* A writer that is done, or has failed, has given the mutex back.
LEMMA Released ==
  ASSUME IInv, ConnPutsBody \/ ConnFails \/ RelayPutsBody \/ RelayFails
  PROVE  /\ mu' \in [States -> {"free", "conn", "relay"}] /\ MutexOK'
         /\ conn' \in Writers /\ relay' \in Writers
         /\ conn' \in {conn, Rest, [conn EXCEPT !.pc = "close"]} /\ relay' \in {relay, Rest}
         /\ conn' # conn => ~Active(conn)'
         /\ UNCHANGED <<open, states, tunnelled, unread, client>> /\ entry' \in {entry, 0}
<1>1. CASE ConnPutsBody \/ ConnFails
  <2>1. /\ Active(conn) /\ conn' = After(conn) /\ LeaveMu(conn)
        /\ UNCHANGED <<open, states, tunnelled, relay, unread, client>> /\ entry' \in {entry, 0}
    BY <1>1 DEF ConnPutsBody, ConnFails, PutBody, PutFails, Active
  <2>2. /\ conn' \in Writers /\ ~Active(conn)' /\ conn' \in {Rest, [conn EXCEPT !.pc = "close"]}
        /\ \A g \in States : ~Writes(conn, g)'
    BY <2>1, RestIsWriter DEF After, Rest, Writers, Active, Writes, IInv, TypeOK
  <2>3. CASE conn.kind = "data"
    <3>1. conn.g \in States /\ mu' = [mu EXCEPT ![conn.g] = "free"] /\ mu[conn.g] = "conn"
      BY <2>1, <2>3 DEF LeaveMu, IInv, WriterInv, WriterOK, TypeOK, MutexOK, Writes, Active
    <3>2. mu' \in [States -> {"free", "conn", "relay"}]
      BY <3>1 DEF IInv, TypeOK
    <3>3. ASSUME NEW g \in States
          PROVE  (mu'[g] = "conn" <=> Writes(conn, g)') /\ (mu'[g] = "relay" <=> Writes(relay, g)')
      BY <2>1, <2>2, <2>3, <3>1 DEF IInv, TypeOK, MutexOK, Writes
    <3> QED
      BY <2>1, <2>2, <3>2, <3>3 DEF MutexOK, IInv, TypeOK
  <2>4. CASE conn.kind # "data"
    <3>1. mu' = mu
      BY <2>1, <2>4 DEF LeaveMu
    <3>2. MutexOK'
      BY <2>1, <2>2, <2>4, <3>1 DEF IInv, TypeOK, MutexOK, Writes
    <3> QED
      BY <2>1, <2>2, <3>1, <3>2 DEF IInv, TypeOK
  <2> QED
    BY <2>3, <2>4
<1>2. CASE RelayPutsBody \/ RelayFails
  <2>1. /\ Active(relay) /\ relay' = Rest /\ LeaveMu(relay) /\ relay.kind = "data"
        /\ UNCHANGED <<open, entry, states, tunnelled, conn, unread, client>>
    BY <1>2 DEF RelayPutsBody, RelayFails, PutBody, PutFails, Active, IInv, WriterInv
  <2>2. relay.g \in States /\ mu' = [mu EXCEPT ![relay.g] = "free"] /\ mu[relay.g] = "relay"
    BY <2>1 DEF LeaveMu, IInv, WriterInv, WriterOK, TypeOK, MutexOK, Writes, Active
  <2>3. mu' \in [States -> {"free", "conn", "relay"}] /\ \A g \in States : ~Writes(relay, g)'
    BY <2>1, <2>2 DEF IInv, TypeOK, Writes, Rest
  <2>4. ASSUME NEW g \in States
        PROVE  (mu'[g] = "conn" <=> Writes(conn, g)') /\ (mu'[g] = "relay" <=> Writes(relay, g)')
    BY <2>1, <2>2, <2>3 DEF IInv, TypeOK, MutexOK, Writes
  <2> QED
    BY <2>1, <2>3, <2>4, RestIsWriter DEF MutexOK, IInv, TypeOK
<1> QED
  BY <1>1, <1>2

LEMMA DoneSteps ==
  ASSUME IInv, ConnPutsBody \/ ConnFails \/ RelayPutsBody \/ RelayFails
  PROVE  IInv'
<1> USE DEF client, lock
<1>1. /\ mu' \in [States -> {"free", "conn", "relay"}] /\ MutexOK'
      /\ conn' \in Writers /\ relay' \in Writers
      /\ conn' \in {conn, Rest, [conn EXCEPT !.pc = "close"]} /\ relay' \in {relay, Rest}
      /\ conn' # conn => ~Active(conn)'
      /\ UNCHANGED <<open, states, tunnelled, unread, client>> /\ entry' \in {entry, 0}
  BY Released
<1>2. frames' = frames /\ Numbers' = Numbers
  BY DEF ConnPutsBody, ConnFails, RelayPutsBody, RelayFails, PutBody, PutFails, output, Numbers
<1>3. BoundInv'
  <2>1. states \in Nat /\ entry <= states /\ conn.g <= states /\ conn \in Writers
    BY BoundsAreNumbers DEF IInv, TypeOK, BoundInv
  <2>2. entry' <= states
    BY <1>1, <2>1
  <2>3. conn'.g \in {conn.g, 0}
    BY <1>1, <2>1 DEF Rest, Writers
  <2>4. conn'.g <= states
    BY <2>1, <2>3
  <2> QED
    BY <1>1, <1>2, <2>2, <2>4 DEF IInv, BoundInv
<1>4. WriterInv'
  <2>1. WriterOK(conn)'
    <3>1. CASE conn' = conn
      BY <1>1, <1>2, <3>1 DEF IInv, WriterInv, WriterOK, Active
    <3>2. CASE conn' # conn
      <4>1. conn'.pc \in {"read", "close"}
        BY <1>1, <3>2 DEF Rest, IInv, TypeOK, Writers
      <4> QED
        BY <4>1 DEF WriterOK, Active
    <3> QED
      BY <3>1, <3>2
  <2>2. WriterOK(relay)'
    BY <1>1, <1>2 DEF IInv, WriterInv, WriterOK, Active, Rest
  <2>3. /\ relay'.kind = "data" /\ relay'.pc # "close"
        /\ relay'.pc # "read" => relay' = relay
    BY <1>1 DEF IInv, WriterInv, Rest
  <2>4. conn'.pc = "body" => conn' = conn
    BY <1>1 DEF Active
  <2> QED
    BY <1>1, <2>1, <2>2, <2>3, <2>4 DEF IInv, WriterInv
<1>5. HsInv'
  BY <1>1, <1>2 DEF IInv, HsInv, Active
<1>6. /\ stream' \in Seq(Units) /\ TornInv' /\ UnitInv'
  <2>1. CASE ConnFails \/ RelayFails
    <3>1. UNCHANGED output /\ UNCHANGED <<rd, taken>>
      BY <1>1, <2>1 DEF ConnFails, RelayFails, PutFails
    <3>2. conn'.pc = "body" => conn' = conn
      BY <1>1 DEF Active
    <3> QED
      BY <3>1, <3>2, QuietKeeps DEF output, IInv, TypeOK
  <2>2. ASSUME NEW f \in Numbers, conn'.pc = "body" => f # conn.f,
               stream' = stream \o <<Part(f, 3), Part(f, 4)>>,
               Tears(f, frames[f].kind, frames[f].g)
        PROVE  stream' \in Seq(Units) /\ TornInv' /\ UnitInv'
    <3>1. f \in 1..MaxFrames
      BY BoundsAreNumbers DEF IInv, TypeOK, Numbers
    <3>2. stream' \in Seq(Units) /\ \A u \in OnWay' : u \in OnWay \/ u.f = f
      BY <1>1, <2>2, <3>1, BodyUnits
    <3>3. TornInv'
      BY <1>2, <2>2, MayTear
    <3>4. conn'.pc = "body" => conn' = conn
      BY <1>1 DEF Active
    <3>5. UnitInv'
      BY <1>1, <1>2, <2>2, <3>2, <3>4 DEF IInv, UnitInv
    <3> QED
      BY <3>2, <3>3, <3>5
  <2>3. CASE ConnPutsBody
    <3>1. /\ Active(conn) /\ conn'.pc # "body" /\ Tear(relay, conn.f)
          /\ stream' = stream \o <<Part(conn.f, 3), Part(conn.f, 4)>>
      BY <2>3 DEF ConnPutsBody, PutBody, After, Rest, Active, IInv, TypeOK, Writers
    <3>2. conn.f \in Numbers /\ frames[conn.f].kind = conn.kind /\ frames[conn.f].g = conn.g
      BY <2>3 DEF ConnPutsBody, PutBody, IInv, WriterInv, WriterOK
    <3> QED
      BY <2>2, <3>1, <3>2, ConnTears
  <2>4. CASE RelayPutsBody
    <3>1. /\ Active(relay) /\ relay.pc = "body" /\ conn' = conn /\ Tear(conn, relay.f)
          /\ stream' = stream \o <<Part(relay.f, 3), Part(relay.f, 4)>>
      BY <2>4 DEF RelayPutsBody, PutBody, Active
    <3>2. /\ relay.f \in Numbers /\ frames[relay.f].kind = relay.kind
          /\ frames[relay.f].g = relay.g /\ (conn.pc = "body" => relay.f # conn.f)
      BY <3>1 DEF IInv, WriterInv, WriterOK
    <3> QED
      BY <2>2, <3>1, <3>2, RelayTears
  <2> QED
    BY <2>1, <2>3, <2>4
<1>7. TypeOK'
  <2>1. torn' \subseteq (1..MaxFrames) \X (1..MaxFrames)
    <3>1. Numbers' \subseteq 1..MaxFrames
      BY <1>2, BoundsAreNumbers DEF IInv, TypeOK, Numbers
    <3> QED
      BY <1>6, <3>1 DEF TornInv
  <2>2. entry' \in 0..MaxStates
    BY <1>1, BoundsAreNumbers DEF IInv, TypeOK
  <2> QED
    BY <1>1, <1>2, <1>6, <2>1, <2>2 DEF IInv, TypeOK
<1> QED
  BY <1>3, <1>4, <1>5, <1>6, <1>7 DEF IInv

LEMMA StepIInv == IInv /\ [Next]_vars => IInv'
<1> SUFFICES ASSUME IInv, [Next]_vars PROVE IInv'
  OBVIOUS
<1>1. CASE UNCHANGED vars
  <2>1. UNCHANGED <<server, kind, open, asks, unread, late, stream, taken, rd>>
    BY <1>1 DEF vars, server, client, output
  <2> QED
    BY <2>1, ClientKeeps DEF IInv, TypeOK, BoundInv, OnWay, UnitsOf
<1>2. CASE Next
  BY <1>2, HearSteps, TableSteps, LockSteps, HeadSteps, DoneSteps, ClientSteps DEF Next
<1> QED
  BY <1>1, <1>2

THEOREM Invariant == Spec => []IInv
BY InitIInv, StepIInv, PTL DEF Spec

\* Types, and writeMu of a state is held by exactly the one who writes for it.
THEOREM Typing == Spec => []TypeOK
<1>1. IInv => TypeOK
  BY DEF IInv
<1> QED
  BY <1>1, Invariant, PTL

\* Only the error frame of failConn, or a second state of the connection, can
\* come into the middle of a frame.
THEOREM WholeFramesAlways == Spec => []WholeFrames
<1>1. IInv => WholeFrames
  BY DEF IInv, TornInv
<1> QED
  BY <1>1, Invariant, PTL

-----------------------------------------------------------------------------
(* What the reader has before it.                                          *)

\* The units it has of the part it reads, and those it has not read.
Ahead == rd.got \o stream

\* The two units of a length, and of a body, follow one another.
Paired(s) ==
  \A i \in 1..Len(s) :
    /\ s[i].part \in {1, 3} =>
         i + 1 \in 1..Len(s) /\ s[i + 1].f = s[i].f /\ s[i + 1].part = s[i].part + 1
    /\ s[i].part \in {2, 4} =>
         i - 1 \in 1..Len(s) /\ s[i - 1].f = s[i].f /\ s[i - 1].part = s[i].part - 1

\* A frame begins behind all that there is of the frames before it.
Rising(s) ==
  \A i, j \in 1..Len(s) : i < j /\ s[j].part = 1 => s[i].f < s[j].f

\* No body comes twice.
Once(s) ==
  \A i, j \in 1..Len(s) : s[i].part = 3 /\ s[j].part = 3 /\ s[i].f = s[j].f => i = j

Orderly(s) == Paired(s) /\ Rising(s) /\ Once(s)

\* Frames up to b are behind the reader, but for the body of b if it is due;
\* the length of every later one, up to the last, is still to come.
Left(s, b, due) ==
  \A i \in 1..Len(s) : s[i].f > b \/ (due /\ s[i].f = b /\ s[i].part \in {3, 4})
Heads(s, b, last) ==
  \A f \in (b + 1)..last : \E i \in 1..Len(s) : s[i].f = f /\ s[i].part = 1

LEMMA UnitTypes ==
  ASSUME NEW s \in Seq(Units), NEW i \in 1..Len(s)
  PROVE  s[i] \in Units /\ s[i].f \in 1..MaxFrames /\ s[i].f \in Nat /\ s[i].part \in 1..4
<1>1. s[i] \in Units
  OBVIOUS
<1> QED
  BY <1>1, BoundsAreNumbers DEF Units

LEMMA FirstPair ==
  ASSUME NEW s \in Seq(Units), Paired(s), s # <<>>
  PROVE  /\ 1 \in 1..Len(s) /\ 2 \in 1..Len(s) /\ s[1].part \in {1, 3}
         /\ s[2].f = s[1].f /\ s[2].part = s[1].part + 1
<1>1. 1 \in 1..Len(s)
  OBVIOUS
<1>2. s[1].part \in 1..4
  BY <1>1, UnitTypes
<1>3. s[1].part \in {2, 4} => 1 - 1 \in 1..Len(s)
  BY <1>1 DEF Paired
<1>4. s[1].part \in {1, 3}
  BY <1>2, <1>3
<1>5. 1 + 1 \in 1..Len(s) /\ s[1 + 1].f = s[1].f /\ s[1 + 1].part = s[1].part + 1
  BY <1>1, <1>4 DEF Paired
<1> QED
  BY <1>1, <1>4, <1>5

\* The first two units are read.
LEMMA DropPair ==
  ASSUME NEW s \in Seq(Units), NEW t \in Seq(Units), s # <<>>, Orderly(s),
         Len(t) = Len(s) - 2, \A i \in 1..Len(t) : t[i] = s[i + 2]
  PROVE  Orderly(t)
<1>1. /\ 1 \in 1..Len(s) /\ 2 \in 1..Len(s) /\ s[1].part \in {1, 3}
      /\ s[2].f = s[1].f /\ s[2].part = s[1].part + 1
  BY FirstPair DEF Orderly
<1>2. Len(s) \in Nat /\ Len(t) \in Nat /\ \A i \in 1..Len(t) : i + 2 \in 1..Len(s)
  OBVIOUS
<1>3. Paired(t)
  <2> SUFFICES ASSUME NEW i \in 1..Len(t)
               PROVE  /\ t[i].part \in {1, 3} =>
                           i + 1 \in 1..Len(t) /\ t[i + 1].f = t[i].f /\ t[i + 1].part = t[i].part + 1
                      /\ t[i].part \in {2, 4} =>
                           i - 1 \in 1..Len(t) /\ t[i - 1].f = t[i].f /\ t[i - 1].part = t[i].part - 1
    BY DEF Paired
  <2>1. i + 2 \in 1..Len(s) /\ t[i] = s[i + 2]
    BY <1>2
  <2>2. ASSUME t[i].part \in {1, 3}
        PROVE  i + 1 \in 1..Len(t) /\ t[i + 1].f = t[i].f /\ t[i + 1].part = t[i].part + 1
    <3>1. i + 2 + 1 \in 1..Len(s) /\ s[i + 2 + 1].f = t[i].f /\ s[i + 2 + 1].part = t[i].part + 1
      BY <2>1, <2>2 DEF Orderly, Paired
    <3>2. i + 1 \in 1..Len(t) /\ i + 2 + 1 = i + 1 + 2
      BY <1>2, <3>1
    <3>3. t[i + 1] = s[i + 1 + 2]
      BY <3>2
    <3> QED
      BY <3>1, <3>2, <3>3
  <2>3. ASSUME t[i].part \in {2, 4}
        PROVE  i - 1 \in 1..Len(t) /\ t[i - 1].f = t[i].f /\ t[i - 1].part = t[i].part - 1
    <3>1. i + 2 - 1 \in 1..Len(s) /\ s[i + 2 - 1].f = t[i].f /\ s[i + 2 - 1].part = t[i].part - 1
      BY <2>1, <2>3 DEF Orderly, Paired
    <3>2. i # 1
      <4>1. s[2].part \in {2, 4} /\ s[i + 2 - 1].part \in {1, 3}
        BY <1>1, <2>3, <3>1
      <4>2. i = 1 => i + 2 - 1 = 2
        OBVIOUS
      <4> QED
        BY <4>1, <4>2
    <3>3. i - 1 \in 1..Len(t) /\ i + 2 - 1 = i - 1 + 2
      BY <1>2, <3>2
    <3>4. t[i - 1] = s[i - 1 + 2]
      BY <3>3
    <3> QED
      BY <3>1, <3>3, <3>4
  <2> QED
    BY <2>2, <2>3
<1>4. Rising(t)
  <2> SUFFICES ASSUME NEW i \in 1..Len(t), NEW j \in 1..Len(t), i < j, t[j].part = 1
               PROVE  t[i].f < t[j].f
    BY DEF Rising
  <2>1. i + 2 \in 1..Len(s) /\ j + 2 \in 1..Len(s) /\ i + 2 < j + 2
    BY <1>2
  <2> QED
    BY <2>1 DEF Orderly, Rising
<1>5. Once(t)
  <2> SUFFICES ASSUME NEW i \in 1..Len(t), NEW j \in 1..Len(t),
                      t[i].part = 3, t[j].part = 3, t[i].f = t[j].f
               PROVE  i = j
    BY DEF Once
  <2>1. i + 2 \in 1..Len(s) /\ j + 2 \in 1..Len(s)
    BY <1>2
  <2>2. i + 2 = j + 2
    BY <2>1 DEF Orderly, Once
  <2> QED
    BY <2>2
<1> QED
  BY <1>3, <1>4, <1>5 DEF Orderly

\* Two units are written: a length of a frame later than all others, or a body
\* that is not there.
LEMMA AddPair ==
  ASSUME NEW s \in Seq(Units), NEW t \in Seq(Units), NEW f \in 1..MaxFrames, NEW k \in {1, 3},
         Len(t) = Len(s) + 2, \A i \in 1..Len(s) : t[i] = s[i],
         t[Len(s) + 1] = Part(f, k), t[Len(s) + 2] = Part(f, k + 1),
         Orderly(s),
         k = 1 => \A i \in 1..Len(s) : s[i].f < f,
         k = 3 => \A i \in 1..Len(s) : s[i].f = f => s[i].part # 3
  PROVE  Orderly(t)
<1> DEFINE n == Len(s)
<1>1. n \in Nat /\ \A i \in 1..Len(t) : i \in 1..n \/ i = n + 1 \/ i = n + 2
  OBVIOUS
<1>2. /\ t[n + 1].f = f /\ t[n + 1].part = k /\ t[n + 2].f = f /\ t[n + 2].part = k + 1
  BY DEF Part
<1>3. Len(t) = n + 2 /\ \A i \in 1..n : i \in 1..Len(t) /\ t[i] = s[i]
  BY <1>1
<1>4. \A i \in 1..n : s[i].part \in 1..4 /\ s[i].f \in Nat
  BY UnitTypes
<1>5. Paired(t)
  <2> SUFFICES ASSUME NEW i \in 1..Len(t)
               PROVE  /\ t[i].part \in {1, 3} =>
                           i + 1 \in 1..Len(t) /\ t[i + 1].f = t[i].f /\ t[i + 1].part = t[i].part + 1
                      /\ t[i].part \in {2, 4} =>
                           i - 1 \in 1..Len(t) /\ t[i - 1].f = t[i].f /\ t[i - 1].part = t[i].part - 1
    BY DEF Paired
  <2>1. CASE i \in 1..n
    BY <1>3, <2>1 DEF Orderly, Paired
  <2>2. CASE i = n + 1
    <3>1. i + 1 = n + 2 /\ i + 1 \in 1..Len(t) /\ t[i].part \notin {2, 4}
      BY <1>1, <1>2, <1>3, <2>2
    <3> HIDE DEF n
    <3> QED
      BY <1>2, <2>2, <3>1
  <2>3. CASE i = n + 2
    <3>1. i - 1 = n + 1 /\ i - 1 \in 1..Len(t) /\ t[i].part \notin {1, 3} /\ k = k + 1 - 1
      BY <1>1, <1>2, <1>3, <2>3
    <3> HIDE DEF n
    <3> QED
      BY <1>2, <2>3, <3>1
  <2> QED
    BY <1>1, <2>1, <2>2, <2>3
<1>6. Rising(t)
  <2> SUFFICES ASSUME NEW i \in 1..Len(t), NEW j \in 1..Len(t), i < j, t[j].part = 1
               PROVE  t[i].f < t[j].f
    BY DEF Rising
  <2>1. CASE j \in 1..n
    <3>1. i \in 1..n
      BY <1>1, <2>1
    <3> QED
      BY <1>3, <2>1, <3>1 DEF Orderly, Rising
  <2>2. CASE j = n + 1
    <3>1. i \in 1..n /\ k = 1
      BY <1>1, <1>2, <2>2
    <3> QED
      BY <1>2, <1>3, <2>2, <3>1
  <2>3. CASE j = n + 2
    BY <1>2, <2>3
  <2> QED
    BY <1>1, <2>1, <2>2, <2>3
<1>7. Once(t)
  <2> SUFFICES ASSUME NEW i \in 1..Len(t), NEW j \in 1..Len(t),
                      t[i].part = 3, t[j].part = 3, t[i].f = t[j].f
               PROVE  i = j
    BY DEF Once
  <2>1. \A l \in 1..Len(t) : t[l].part = 3 => l \in 1..n \/ (l = n + 1 /\ k = 3)
    BY <1>1, <1>2
  <2>2. CASE i \in 1..n /\ j \in 1..n
    BY <1>3, <2>2 DEF Orderly, Once
  <2>3. CASE i = n + 1 /\ j \in 1..n
    BY <1>2, <1>3, <2>1, <2>3
  <2>4. CASE j = n + 1 /\ i \in 1..n
    BY <1>2, <1>3, <2>1, <2>4
  <2> QED
    BY <2>1, <2>2, <2>3, <2>4
<1> QED
  BY <1>5, <1>6, <1>7 DEF Orderly

\* Between two frames the reader has the length of the next one before it.
LEMMA HeadFirst ==
  ASSUME NEW s \in Seq(Units), NEW b \in Nat, NEW last \in Nat, s # <<>>, Orderly(s),
         Left(s, b, FALSE), Heads(s, b, last), \A i \in 1..Len(s) : s[i].f \in 1..last
  PROVE  s[1].part = 1 /\ s[1].f = b + 1 /\ b + 1 <= last
<1>1. 1 \in 1..Len(s) /\ s[1].part \in {1, 3} /\ s[1].f \in 1..last
  BY FirstPair DEF Orderly
<1>2. s[1].f > b /\ s[1].f \in Nat
  BY <1>1 DEF Left
<1>3. ASSUME NEW f \in (b + 1)..last, f <= s[1].f
      PROVE  s[1].part = 1 /\ s[1].f = f
  <2>1. PICK j \in 1..Len(s) : s[j].f = f /\ s[j].part = 1
    BY <1>3 DEF Heads
  <2>2. j = 1
    <3>1. j # 1 => 1 < j
      BY <2>1
    <3>2. 1 < j => s[1].f < f
      BY <1>1, <2>1 DEF Orderly, Rising
    <3> QED
      BY <1>2, <1>3, <3>1, <3>2
  <2> QED
    BY <2>1, <2>2
<1>4. b + 1 \in (b + 1)..last /\ b + 1 <= s[1].f /\ b + 1 <= last
  BY <1>1, <1>2
<1> QED
  BY <1>3, <1>4

\* When a body is due, a body that comes first is that one.
LEMMA BodyFirst ==
  ASSUME NEW s \in Seq(Units), NEW b \in Nat, NEW last \in Nat, s # <<>>, Orderly(s),
         Left(s, b, TRUE), Heads(s, b, last), \A i \in 1..Len(s) : s[i].f \in 1..last,
         s[1].part = 3
  PROVE  s[1].f = b
<1>1. 1 \in 1..Len(s) /\ s[1].f \in 1..last /\ s[1].f \in Nat
  BY FirstPair DEF Orderly
<1>2. ~(s[1].f > b)
  <2> SUFFICES ASSUME s[1].f > b PROVE FALSE
    OBVIOUS
  <2>1. s[1].f \in (b + 1)..last
    BY <1>1
  <2>2. PICK j \in 1..Len(s) : s[j].f = s[1].f /\ s[j].part = 1
    BY <2>1 DEF Heads
  <2>3. 1 < j
    BY <2>2
  <2>4. s[1].f < s[j].f
    BY <1>1, <2>2, <2>3 DEF Orderly, Rising
  <2> QED
    BY <1>1, <2>2, <2>4
<1> QED
  BY <1>1, <1>2 DEF Left

\* The length of the next frame is read.
LEMMA PastHead ==
  ASSUME NEW s \in Seq(Units), NEW t \in Seq(Units), NEW b \in Nat, NEW last \in Nat,
         s # <<>>, Orderly(s), Left(s, b, FALSE), Heads(s, b, last),
         \A i \in 1..Len(s) : s[i].f \in 1..last,
         Len(t) = Len(s) - 2, \A i \in 1..Len(t) : t[i] = s[i + 2]
  PROVE  Left(t, b + 1, TRUE) /\ Heads(t, b + 1, last)
<1>1. s[1].part = 1 /\ s[1].f = b + 1
  BY HeadFirst
<1>2. /\ 1 \in 1..Len(s) /\ 2 \in 1..Len(s) /\ s[2].f = s[1].f /\ s[2].part = s[1].part + 1
  BY FirstPair DEF Orderly
<1>3. s[2].part = 2 /\ s[2].f = b + 1
  BY <1>1, <1>2
<1>4. Len(s) \in Nat /\ Len(t) \in Nat /\ \A i \in 1..Len(t) : i + 2 \in 1..Len(s)
  OBVIOUS
<1>5. ASSUME NEW i \in 3..Len(s) PROVE s[i].f > b + 1 \/ (s[i].f = b + 1 /\ s[i].part \in {3, 4})
  <2>1. /\ i \in 1..Len(s) /\ s[i].f \in Nat /\ s[i].part \in 1..4 /\ s[i].f > b
        /\ i - 1 \in 1..Len(s) /\ 1 < i - 1 /\ i - 1 \in Nat
    BY <1>4, UnitTypes DEF Left
  <2>2. ASSUME s[i].part = 1 PROVE b + 1 < s[i].f
    <3>1. s[1].f < s[i].f
      BY <1>2, <2>1, <2>2 DEF Orderly, Rising
    <3> QED
      BY <1>1, <3>1
  <2>3. ASSUME s[i].part = 2 PROVE b + 1 < s[i].f
    <3>1. s[i - 1].f = s[i].f /\ s[i - 1].part = 1
      BY <2>1, <2>3 DEF Orderly, Paired
    <3>2. s[1].f < s[i - 1].f
      BY <1>2, <2>1, <3>1 DEF Orderly, Rising
    <3> QED
      BY <1>1, <3>1, <3>2
  <2> QED
    BY <2>1, <2>2, <2>3
<1>6. Left(t, b + 1, TRUE)
  <2> SUFFICES ASSUME NEW i \in 1..Len(t)
               PROVE  t[i].f > b + 1 \/ (t[i].f = b + 1 /\ t[i].part \in {3, 4})
    BY DEF Left
  <2>1. i + 2 \in 3..Len(s) /\ t[i] = s[i + 2]
    BY <1>4
  <2> QED
    BY <1>5, <2>1
<1>7. Heads(t, b + 1, last)
  <2> SUFFICES ASSUME NEW f \in (b + 1 + 1)..last
               PROVE  \E i \in 1..Len(t) : t[i].f = f /\ t[i].part = 1
    BY DEF Heads
  <2>1. f \in (b + 1)..last /\ f # b + 1
    OBVIOUS
  <2>2. PICK j \in 1..Len(s) : s[j].f = f /\ s[j].part = 1
    BY <2>1 DEF Heads
  <2>3. j # 1 /\ j # 2
    BY <1>1, <1>3, <2>1, <2>2
  <2>4. j - 2 \in 1..Len(t) /\ j - 2 + 2 = j
    BY <1>4, <2>3
  <2>5. t[j - 2] = s[j]
    BY <2>4
  <2> QED
    BY <2>2, <2>4, <2>5
<1> QED
  BY <1>6, <1>7

\* The body that was due is read.
LEMMA PastBody ==
  ASSUME NEW s \in Seq(Units), NEW t \in Seq(Units), NEW b \in Nat, NEW last \in Nat,
         s # <<>>, Orderly(s), Left(s, b, TRUE), Heads(s, b, last),
         \A i \in 1..Len(s) : s[i].f \in 1..last, s[1].part = 3,
         Len(t) = Len(s) - 2, \A i \in 1..Len(t) : t[i] = s[i + 2]
  PROVE  Left(t, b, FALSE) /\ Heads(t, b, last)
<1>1. s[1].f = b
  BY BodyFirst
<1>2. /\ 1 \in 1..Len(s) /\ 2 \in 1..Len(s) /\ s[2].f = s[1].f /\ s[2].part = s[1].part + 1
  BY FirstPair DEF Orderly
<1>3. s[2].part = 4 /\ s[2].f = b
  BY <1>1, <1>2
<1>4. Len(s) \in Nat /\ Len(t) \in Nat /\ \A i \in 1..Len(t) : i + 2 \in 1..Len(s)
  OBVIOUS
<1>5. ASSUME NEW i \in 3..Len(s) PROVE s[i].f > b
  <2>1. /\ i \in 1..Len(s) /\ s[i].f \in Nat /\ i - 1 \in 1..Len(s) /\ i # 1 /\ i - 1 # 1
    BY <1>4, UnitTypes
  <2>2. s[i].f > b \/ (s[i].f = b /\ s[i].part \in {3, 4})
    BY <2>1 DEF Left
  <2>3. ~(s[i].f = b /\ s[i].part = 3)
    BY <1>1, <1>2, <2>1 DEF Orderly, Once
  <2>4. ASSUME s[i].f = b, s[i].part = 4 PROVE FALSE
    <3>1. s[i - 1].f = b /\ s[i - 1].part = 3
      BY <2>1, <2>4 DEF Orderly, Paired
    <3> QED
      BY <1>1, <1>2, <2>1, <3>1 DEF Orderly, Once
  <2> QED
    BY <2>2, <2>3, <2>4
<1>6. Left(t, b, FALSE)
  <2> SUFFICES ASSUME NEW i \in 1..Len(t) PROVE t[i].f > b
    BY DEF Left
  <2>1. i + 2 \in 3..Len(s) /\ t[i] = s[i + 2]
    BY <1>4
  <2> QED
    BY <1>5, <2>1
<1>7. Heads(t, b, last)
  <2> SUFFICES ASSUME NEW f \in (b + 1)..last
               PROVE  \E i \in 1..Len(t) : t[i].f = f /\ t[i].part = 1
    BY DEF Heads
  <2>1. PICK j \in 1..Len(s) : s[j].f = f /\ s[j].part = 1
    BY DEF Heads
  <2>2. j # 1 /\ j # 2
    BY <1>3, <2>1
  <2>3. j - 2 \in 1..Len(t) /\ j - 2 + 2 = j
    BY <1>4, <2>2
  <2>4. t[j - 2] = s[j]
    BY <2>3
  <2> QED
    BY <2>1, <2>3, <2>4
<1> QED
  BY <1>6, <1>7

\* A unit is moved from the stream to the reader.
LEMMA MoveUnit ==
  ASSUME NEW S, NEW g \in Seq(S), NEW t \in Seq(S), t # <<>>
  PROVE  Append(g, Head(t)) \o Tail(t) = g \o t
<1> DEFINE a == Append(g, Head(t)) \o Tail(t)
           b == g \o t
<1>1. Head(t) \in S /\ Tail(t) \in Seq(S) /\ Len(Tail(t)) = Len(t) - 1 /\ Len(t) \in Nat /\ Len(t) > 0
  OBVIOUS
<1>2. Append(g, Head(t)) \in Seq(S) /\ Len(Append(g, Head(t))) = Len(g) + 1
  BY <1>1
<1>3. a \in Seq(S) /\ b \in Seq(S) /\ Len(a) = Len(b)
  BY <1>1, <1>2
<1>4. ASSUME NEW i \in 1..Len(a) PROVE a[i] = b[i]
  <2>1. CASE i <= Len(g)
    BY <1>1, <1>2, <1>3, <2>1
  <2>2. CASE i = Len(g) + 1
    BY <1>1, <1>2, <1>3, <2>2
  <2>3. CASE i > Len(g) + 1
    <3>1. i - (Len(g) + 1) \in 1..Len(Tail(t)) /\ i - Len(g) = i - (Len(g) + 1) + 1
      BY <1>1, <1>2, <1>3, <2>3
    <3>2. a[i] = Tail(t)[i - (Len(g) + 1)] /\ b[i] = t[i - Len(g)]
      BY <1>1, <1>2, <1>3, <2>3
    <3>3. Tail(t)[i - (Len(g) + 1)] = t[i - (Len(g) + 1) + 1]
      BY <1>1, <3>1
    <3> QED
      BY <3>1, <3>2, <3>3
  <2> QED
    BY <1>3, <2>1, <2>2, <2>3
<1> HIDE DEF a, b
<1>5. a = b
  BY <1>3, <1>4, SeqEqual
<1> QED
  BY <1>5 DEF a, b

LEMMA Appended ==
  ASSUME NEW S, NEW s \in Seq(S), NEW a \in S
  PROVE  /\ Len(Append(s, a)) = Len(s) + 1 /\ Append(s, a)[Len(s) + 1] = a
         /\ \A i \in 1..Len(s) : Append(s, a)[i] = s[i]
OBVIOUS

\* The last unit of a pair is read.
LEMMA TakePair ==
  ASSUME NEW g \in Seq(Units), NEW t \in Seq(Units), t # <<>>, Len(g) + 1 = 2
  PROVE  /\ g \o t \in Seq(Units) /\ g \o t # <<>> /\ Tail(t) \in Seq(Units)
         /\ Len(Tail(t)) = Len(g \o t) - 2
         /\ \A i \in 1..Len(Tail(t)) : Tail(t)[i] = (g \o t)[i + 2]
         /\ Len(Append(g, Head(t))) = 2
         /\ Append(g, Head(t))[1] = (g \o t)[1] /\ Append(g, Head(t))[2] = (g \o t)[2]
<1>1. /\ Head(t) \in Units /\ Tail(t) \in Seq(Units) /\ Len(Tail(t)) = Len(t) - 1 /\ Len(t) \in Nat
      /\ Len(t) > 0 /\ Head(t) = t[1] /\ \A i \in 1..Len(Tail(t)) : Tail(t)[i] = t[i + 1]
  OBVIOUS
<1>2. /\ g \o t \in Seq(Units) /\ Len(g \o t) = Len(g) + Len(t)
      /\ \A i \in 1..Len(g) + Len(t) : (g \o t)[i] = IF i <= Len(g) THEN g[i] ELSE t[i - Len(g)]
  BY ConcatProperties
<1>7. Len(g \o t) = Len(t) + 1 /\ (g \o t)[1] = g[1]
  BY <1>1, <1>2
<1>3. \A i \in 1..Len(t) : (g \o t)[i + 1] = t[i]
  BY <1>1, <1>2
<1>4. ASSUME NEW i \in 1..Len(Tail(t)) PROVE Tail(t)[i] = (g \o t)[i + 2]
  <2>1. i + 1 \in 1..Len(t) /\ i + 1 + 1 = i + 2
    BY <1>1
  <2>2. (g \o t)[i + 1 + 1] = t[i + 1]
    BY <1>3, <2>1
  <2> QED
    BY <1>1, <2>1, <2>2
<1>5. /\ Len(Append(g, Head(t))) = 2 /\ Append(g, Head(t))[1] = g[1]
      /\ Append(g, Head(t))[2] = t[1]
  <2>1. /\ Len(Append(g, Head(t))) = Len(g) + 1 /\ Append(g, Head(t))[Len(g) + 1] = Head(t)
        /\ \A i \in 1..Len(g) : Append(g, Head(t))[i] = g[i]
    <3>1. Head(t) \in Units
      BY <1>1
    <3> QED
      BY <3>1, Appended
  <2> QED
    BY <1>1, <2>1
<1>6. (g \o t)[2] = t[1]
  <2>1. 1 \in 1..Len(t) /\ 1 + 1 = 2
    BY <1>1
  <2>2. (g \o t)[1 + 1] = t[1]
    BY <1>3, <2>1
  <2> QED
    BY <2>1, <2>2
<1> QED
  BY <1>1, <1>2, <1>4, <1>5, <1>6, <1>7

\* Sequence c is t with a and b behind it.
Longer(c, t, a, b) ==
  /\ Len(c) = Len(t) + 2 /\ \A i \in 1..Len(t) : c[i] = t[i]
  /\ c[Len(t) + 1] = a /\ c[Len(t) + 2] = b

\* Two more units behind t are two more behind g and t.
LEMMA PutPair ==
  ASSUME NEW g \in Seq(Units), NEW t \in Seq(Units), NEW c \in Seq(Units), NEW a, NEW b,
         Longer(c, t, a, b)
  PROVE  g \o t \in Seq(Units) /\ g \o c \in Seq(Units) /\ Longer(g \o c, g \o t, a, b)
<1>0. /\ Len(c) = Len(t) + 2 /\ \A i \in 1..Len(t) : c[i] = t[i]
      /\ c[Len(t) + 1] = a /\ c[Len(t) + 2] = b
  BY DEF Longer
<1>1. /\ g \o t \in Seq(Units) /\ Len(g \o t) = Len(g) + Len(t) /\ Len(g) \in Nat /\ Len(t) \in Nat
      /\ \A i \in 1..Len(g) + Len(t) : (g \o t)[i] = IF i <= Len(g) THEN g[i] ELSE t[i - Len(g)]
  BY ConcatProperties
<1>2. /\ g \o c \in Seq(Units) /\ Len(g \o c) = Len(g) + Len(t) + 2
      /\ \A i \in 1..Len(g) + Len(t) + 2 : (g \o c)[i] = IF i <= Len(g) THEN g[i] ELSE c[i - Len(g)]
  <2>1. /\ g \o c \in Seq(Units) /\ Len(g \o c) = Len(g) + Len(c)
        /\ \A i \in 1..Len(g) + Len(c) : (g \o c)[i] = IF i <= Len(g) THEN g[i] ELSE c[i - Len(g)]
    BY ConcatProperties
  <2>2. Len(g) + Len(c) = Len(g) + Len(t) + 2
    BY <1>0, <1>1
  <2> QED
    BY <2>1, <2>2
<1>3. ASSUME NEW i \in 1..Len(g \o t) PROVE (g \o c)[i] = (g \o t)[i]
  <2>1. CASE i <= Len(g)
    BY <1>1, <1>2, <2>1
  <2>2. CASE i > Len(g)
    <3>1. i - Len(g) \in 1..Len(t) /\ (g \o t)[i] = t[i - Len(g)] /\ (g \o c)[i] = c[i - Len(g)]
      BY <1>1, <1>2, <2>2
    <3> QED
      BY <1>0, <3>1
  <2> DEFINE k == Len(g)
  <2>3. i \in Int /\ k \in Int
    BY <1>1
  <2> HIDE DEF k
  <2>4. i <= k \/ i > k
    BY <2>3
  <2> QED
    BY <2>1, <2>2, <2>4, Zenon DEF k
<1>4. /\ (g \o c)[Len(g) + Len(t) + 1] = c[Len(g) + Len(t) + 1 - Len(g)]
      /\ (g \o c)[Len(g) + Len(t) + 2] = c[Len(g) + Len(t) + 2 - Len(g)]
  BY <1>1, <1>2
<1>5. Len(g) + Len(t) + 1 - Len(g) = Len(t) + 1 /\ Len(g) + Len(t) + 2 - Len(g) = Len(t) + 2
  BY <1>1
<1> QED
  BY <1>0, <1>1, <1>2, <1>3, <1>4, <1>5 DEF Longer

-----------------------------------------------------------------------------
(* The client and the stream are in step.                                  *)

\* The last frame whose length the client has read.
Base == IF rd.pc = "body" THEN Len(taken) + 1 ELSE Len(taken)
PlaceInv ==
  Base <= Len(frames) /\ Left(Ahead, Base, rd.pc = "body") /\ Heads(Ahead, Base, Len(frames))

\* The body a writer is to write is not there, and the client has not accepted it.
Owes(w) ==
  w.pc = "body" =>
    w.f > Len(taken) /\ \A i \in 1..Len(Ahead) : Ahead[i].f = w.f => Ahead[i].part \in {1, 2}

\* A client that asks one question at a time has at most one frame to come.
OneQuestion ==
  kind = "asker" =>
    /\ tunnelled = {} /\ Len(frames) <= Len(taken) + 1 /\ unread <= 1
    /\ unread > 0 \/ conn.pc \in {"lock", "head"} => rd.pc = "head" /\ Len(frames) = Len(taken)
    /\ unread > 0 => conn.pc \in {"read", "close"}
    /\ rd.pc = "idle" => Len(frames) = Len(taken)

ReaderInv == rd.need = 2 /\ Len(rd.got) <= 1 /\ (rd.pc = "idle" => rd.got = <<>>)

InStep == Orderly(Ahead) /\ PlaceInv /\ Owes(conn) /\ Owes(relay) /\ OneQuestion /\ ReaderInv
OrderInv == ~late => TakenInOrder /\ (rd.pc # "ended" => InStep)

LEMMA AheadUnits ==
  ASSUME IInv
  PROVE  /\ Ahead \in Seq(Units) /\ rd.got \in Seq(Units) /\ stream \in Seq(Units)
         /\ taken \in Seq(1..MaxFrames) /\ Len(taken) \in Nat /\ Len(frames) \in Nat
         /\ \A i \in 1..Len(Ahead) : Ahead[i].f \in 1..Len(frames)
<1>1. /\ rd.got \in Seq(Units) /\ stream \in Seq(Units) /\ taken \in Seq(1..MaxFrames)
      /\ Len(taken) \in Nat
  BY DEF IInv, TypeOK
<1>2. frames \in Seq([kind : Kinds, g : 0..MaxStates])
  BY DEF IInv, TypeOK
<1>3. Len(frames) \in Nat
  BY <1>2
<1>4. /\ Ahead \in Seq(Units) /\ Len(Ahead) = Len(rd.got) + Len(stream)
      /\ \A i \in 1..Len(rd.got) + Len(stream) :
           Ahead[i] = IF i <= Len(rd.got) THEN rd.got[i] ELSE stream[i - Len(rd.got)]
  BY <1>1, ConcatProperties DEF Ahead
<1>5. ASSUME NEW i \in 1..Len(Ahead) PROVE Ahead[i].f \in 1..Len(frames)
  <2>1. CASE i <= Len(rd.got)
    <3>1. i \in 1..Len(rd.got) /\ Ahead[i] = rd.got[i]
      BY <1>1, <1>4, <2>1
    <3>2. Ahead[i] \in OnWay
      BY <3>1 DEF OnWay, UnitsOf
    <3> QED
      BY <3>2 DEF IInv, UnitInv, Numbers
  <2>2. CASE i > Len(rd.got)
    <3>1. i - Len(rd.got) \in 1..Len(stream) /\ Ahead[i] = stream[i - Len(rd.got)]
      BY <1>1, <1>4, <2>2
    <3>2. Ahead[i] \in OnWay
      BY <3>1 DEF OnWay, UnitsOf
    <3> QED
      BY <3>2 DEF IInv, UnitInv, Numbers
  <2> QED
    BY <1>1, <2>1, <2>2
<1> QED
  BY <1>1, <1>3, <1>4, <1>5

\* A step that neither writes nor reads.
LEMMA OrderQuiet ==
  ASSUME IInv, OrderInv, UNCHANGED <<frames, stream, taken, late>>,
         rd' = rd \/ (rd = Idle /\ rd' = NewRead),
         conn'.pc = "body" => conn' = conn, relay'.pc = "body" => relay' = relay,
         ~late /\ rd.pc # "ended" => OneQuestion'
  PROVE  OrderInv'
<1> SUFFICES ASSUME ~late PROVE TakenInOrder' /\ (rd'.pc # "ended" => InStep')
  BY DEF OrderInv
<1>1. TakenInOrder'
  BY DEF OrderInv, TakenInOrder
<1>2. /\ Idle.pc = "idle" /\ NewRead.pc = "head" /\ NewRead.need = 2 /\ NewRead.got = <<>>
      /\ Idle.got = <<>> /\ Len(<<>>) <= 1
  BY DEF Idle, NewRead
<1>3. /\ rd'.got = rd.got /\ (rd'.pc = "ended" <=> rd.pc = "ended") /\ (rd'.pc = "body" <=> rd.pc = "body")
      /\ Ahead' = Ahead /\ Base' = Base
  BY <1>2 DEF Ahead, Base
<1>4. ASSUME rd'.pc # "ended" PROVE InStep'
  <2>1. InStep
    BY <1>3, <1>4 DEF OrderInv
  <2>2. Orderly(Ahead)' /\ Owes(conn)' /\ Owes(relay)'
    BY <1>3, <2>1 DEF InStep, Orderly, Paired, Rising, Once, Owes
  <2>3. PlaceInv'
    BY <1>3, <2>1 DEF InStep, PlaceInv, Left, Heads
  <2>4. ReaderInv'
    BY <1>2, <2>1 DEF InStep, ReaderInv
  <2>5. OneQuestion'
    BY <1>3, <1>4
  <2> QED
    BY <2>2, <2>3, <2>4, <2>5 DEF InStep
<1> QED
  BY <1>1, <1>4

\* An asker has no relay.
LEMMA NoRelay ==
  ASSUME IInv, OrderInv, ~late, rd.pc # "ended", kind = "asker"
  PROVE  relay.pc = "read" /\ tunnelled = {}
BY DEF IInv, WriterInv, OrderInv, InStep, OneQuestion

\* The steps of the server that put nothing on the stream.
LEMMA QuietServer ==
  ASSUME IInv,
         \/ HearHello \/ HearEcho \/ HearPacket \/ HearBad \/ ConnLocks \/ ConnFails \/ ConnCloses
         \/ RelayPicks \/ RelayLocks \/ RelayFails \/ UdpPacket \/ Reap \/ Close
  PROVE  /\ UNCHANGED <<frames, torn, stream, taken, late, rd, kind>>
         /\ conn'.pc = "body" => conn' = conn
         /\ relay'.pc = "body" => relay' = relay
<1> USE DEF client, output, lock
<1>1. UNCHANGED <<frames, torn, stream, taken, late, rd, kind>>
  BY DEF HearHello, HearEcho, HearPacket, HearBad, ConnLocks, ConnFails, ConnCloses, RelayPicks,
    RelayLocks, RelayFails, UdpPacket, Reap, Close, PutFails, Hears
<1>2. conn'.pc = "body" => conn' = conn
  <2>1. CASE HearHello \/ HearEcho \/ HearBad \/ ConnLocks
    BY <2>1 DEF HearHello, HearEcho, HearBad, Failing, ConnLocks, Rest, IInv, TypeOK, Writers
  <2>2. CASE ConnFails \/ ConnCloses
    BY <2>2 DEF ConnFails, ConnCloses, After, Rest, IInv, TypeOK, Writers
  <2>3. CASE HearPacket
    BY <2>3 DEF HearPacket, Failing, Rest
  <2> QED
    BY <2>1, <2>2, <2>3 DEF RelayPicks, RelayLocks, RelayFails, UdpPacket, Reap, Close
<1>3. relay'.pc = "body" => relay' = relay
  <2>1. CASE RelayPicks \/ RelayLocks \/ RelayFails
    <3>1. relay \in Writers /\ Rest.pc = "read"
      BY DEF IInv, TypeOK, Rest
    <3>2. RelayPicks => relay'.pc = "lock"
      BY DEF RelayPicks, Rest
    <3>3. RelayLocks => relay'.pc = "head"
      BY <3>1 DEF RelayLocks, Writers
    <3>4. RelayFails => relay'.pc = "read"
      BY <3>1 DEF RelayFails
    <3> QED
      BY <2>1, <3>2, <3>3, <3>4
  <2>2. CASE HearHello \/ HearEcho \/ HearPacket \/ HearBad
    BY <2>2 DEF HearHello, HearEcho, HearPacket, HearBad
  <2>3. CASE ConnLocks \/ ConnFails \/ ConnCloses \/ UdpPacket \/ Reap \/ Close
    BY <2>3 DEF ConnLocks, ConnFails, ConnCloses, UdpPacket, Reap, Close
  <2> QED
    BY <2>1, <2>2, <2>3
<1> QED
  BY <1>1, <1>2, <1>3

LEMMA OrderServer ==
  ASSUME IInv, OrderInv,
         \/ HearHello \/ HearEcho \/ HearPacket \/ HearBad \/ ConnLocks \/ ConnFails \/ ConnCloses
         \/ RelayPicks \/ RelayLocks \/ RelayFails \/ UdpPacket \/ Reap \/ Close
  PROVE  OrderInv'
<1> USE DEF client, output, lock
<1>1. UNCHANGED <<frames, stream, taken, late, rd, kind>>
  BY QuietServer
<1>2. conn'.pc = "body" => conn' = conn
  BY QuietServer
<1>3. relay'.pc = "body" => relay' = relay
  BY QuietServer
<1>4. ASSUME ~late, rd.pc # "ended", kind = "asker" PROVE OneQuestion'
  <2>1. OneQuestion /\ relay.pc = "read" /\ tunnelled = {}
    BY <1>4, NoRelay DEF OrderInv, InStep
  <2>2. unread \in Nat /\ conn \in Writers
    BY DEF IInv, TypeOK
  <2>3. CASE HearHello \/ HearEcho \/ HearBad
    <3>1. unread > 0 /\ unread' = unread - 1 /\ tunnelled' = tunnelled
      BY <2>3 DEF HearHello, HearEcho, HearBad, Hears
    <3> QED
      BY <1>1, <1>4, <2>1, <2>2, <3>1 DEF OneQuestion
  <2>4. CASE ConnLocks
    <3>1. conn.pc = "lock" /\ unread' = unread /\ tunnelled' = tunnelled
      BY <2>4 DEF ConnLocks
    <3> QED
      BY <1>1, <1>4, <2>1, <2>2, <3>1 DEF OneQuestion
  <2>5. CASE ConnFails \/ ConnCloses
    <3>1. conn'.pc \in {"read", "close"} /\ unread' = unread /\ tunnelled' = tunnelled
      BY <2>2, <2>5 DEF ConnFails, ConnCloses, After, Rest, Writers
    <3> QED
      BY <1>1, <1>4, <2>1, <2>2, <3>1 DEF OneQuestion
  <2>6. CASE Reap \/ Close
    BY <1>1, <2>1, <2>6 DEF Reap, Close, OneQuestion
  <2>7. ~HearPacket /\ ~RelayPicks /\ ~RelayLocks /\ ~RelayFails /\ ~UdpPacket
    BY <1>4, <2>1 DEF HearPacket, RelayPicks, RelayLocks, RelayFails, PutFails, UdpPacket
  <2> QED
    BY <2>3, <2>4, <2>5, <2>6, <2>7
<1>5. kind # "asker" => OneQuestion'
  BY <1>1 DEF OneQuestion
<1> QED
  BY <1>1, <1>2, <1>3, <1>4, <1>5, OrderQuiet

\* What is ahead after two units of one frame are written.
LEMMA PutAhead ==
  ASSUME IInv, NEW f \in 1..MaxFrames, NEW k \in {1, 3}, UNCHANGED rd,
         stream' = stream \o <<Part(f, k), Part(f, k + 1)>>
  PROVE  /\ Ahead' \in Seq(Units) /\ Len(Ahead') = Len(Ahead) + 2 /\ Len(Ahead) \in Nat
         /\ \A i \in 1..Len(Ahead) : Ahead'[i] = Ahead[i]
         /\ Ahead'[Len(Ahead) + 1] = Part(f, k) /\ Ahead'[Len(Ahead) + 2] = Part(f, k + 1)
         /\ \A i \in 1..Len(Ahead') : \/ i \in 1..Len(Ahead) /\ Ahead'[i] = Ahead[i]
                                      \/ Ahead'[i].f = f /\ Ahead'[i].part \in {k, k + 1}
<1> DEFINE a == Part(f, k)
           b == Part(f, k + 1)
<1>1. a \in Units /\ b \in Units /\ rd.got \in Seq(Units) /\ stream \in Seq(Units)
  <2>1. k \in 1..4 /\ k + 1 \in 1..4
    OBVIOUS
  <2> QED
    BY <2>1, AheadUnits DEF Part, Units
<1>2. a.f = f /\ a.part = k /\ b.f = f /\ b.part = k + 1
  BY DEF Part
<1>3. Ahead' = rd.got \o (stream \o <<a, b>>)
  BY DEF Ahead
<1> DEFINE c == stream \o <<a, b>>
<1> HIDE DEF a, b
<1>4. /\ c \in Seq(Units) /\ Len(c) = Len(stream) + 2
      /\ \A i \in 1..Len(stream) : c[i] = stream[i]
      /\ c[Len(stream) + 1] = a /\ c[Len(stream) + 2] = b
  BY <1>1
<1> HIDE DEF c
<1>7. Ahead' = rd.got \o c
  BY <1>3 DEF c
<1>8. /\ Ahead \in Seq(Units) /\ Ahead' \in Seq(Units) /\ Len(Ahead') = Len(Ahead) + 2
      /\ \A i \in 1..Len(Ahead) : Ahead'[i] = Ahead[i]
      /\ Ahead'[Len(Ahead) + 1] = a /\ Ahead'[Len(Ahead) + 2] = b
  <2>1. rd.got \in Seq(Units) /\ stream \in Seq(Units) /\ c \in Seq(Units)
    BY <1>1, <1>4
  <2>2. Longer(c, stream, a, b)
    BY <1>4 DEF Longer
  <2>3. Ahead \in Seq(Units) /\ Ahead' \in Seq(Units) /\ Longer(Ahead', Ahead, a, b)
    <3>1. /\ rd.got \o stream \in Seq(Units) /\ rd.got \o c \in Seq(Units)
          /\ Longer(rd.got \o c, rd.got \o stream, a, b)
      BY <2>1, <2>2, PutPair, Zenon
    <3> QED
      BY <1>7, <3>1, Zenon DEF Ahead
  <2> QED
    BY <2>3 DEF Longer
<1>5. Len(Ahead) \in Nat
  BY <1>8
<1>6. ASSUME NEW i \in 1..Len(Ahead')
      PROVE  \/ i \in 1..Len(Ahead) /\ Ahead'[i] = Ahead[i]
             \/ Ahead'[i].f = f /\ Ahead'[i].part \in {k, k + 1}
  <2>1. i \in 1..Len(Ahead) \/ i = Len(Ahead) + 1 \/ i = Len(Ahead) + 2
    BY <1>5, <1>8
  <2> QED
    BY <1>2, <1>8, <2>1
<1> QED
  BY <1>5, <1>6, <1>8 DEF a, b

\* A length is written.
LEMMA PutHeadAhead ==
  ASSUME IInv, InStep, NEW n, n = Len(frames) + 1, Len(frames) < MaxFrames, UNCHANGED <<rd, taken>>,
         Len(frames') = n, stream' = stream \o <<Part(n, 1), Part(n, 2)>>
  PROVE  /\ Orderly(Ahead)' /\ PlaceInv' /\ Len(taken) < n
         /\ \A i \in 1..Len(Ahead') : \/ i \in 1..Len(Ahead) /\ Ahead'[i] = Ahead[i]
                                      \/ Ahead'[i].f = n /\ Ahead'[i].part \in {1, 2}
<1>1. /\ Len(frames) \in Nat /\ Len(taken) \in Nat /\ Ahead \in Seq(Units)
      /\ \A i \in 1..Len(Ahead) : Ahead[i].f \in 1..Len(frames)
  BY AheadUnits
<1>2. n \in 1..MaxFrames /\ n \in Nat /\ 1 \in {1, 3} /\ 1 + 1 = 2
  BY <1>1, BoundsAreNumbers
<1>3. stream' = stream \o <<Part(n, 1), Part(n, 1 + 1)>>
  BY <1>2
<1>4. /\ Ahead' \in Seq(Units) /\ Len(Ahead') = Len(Ahead) + 2 /\ Len(Ahead) \in Nat
      /\ \A i \in 1..Len(Ahead) : Ahead'[i] = Ahead[i]
      /\ Ahead'[Len(Ahead) + 1] = Part(n, 1) /\ Ahead'[Len(Ahead) + 2] = Part(n, 1 + 1)
      /\ \A i \in 1..Len(Ahead') : \/ i \in 1..Len(Ahead) /\ Ahead'[i] = Ahead[i]
                                   \/ Ahead'[i].f = n /\ Ahead'[i].part \in {1, 1 + 1}
  BY <1>2, <1>3, PutAhead
<1>5. Orderly(Ahead')
  <2>1. \A i \in 1..Len(Ahead) : Ahead[i].f < n
    BY <1>1, <1>2
  <2>2. Orderly(Ahead) /\ 1 # 3
    BY DEF InStep
  <2> QED
    BY <1>1, <1>2, <1>4, <2>1, <2>2, AddPair
<1>6. Base' = Base /\ Base \in Nat /\ Len(taken) <= Base /\ Base <= Len(frames) /\ (rd'.pc = "body") = (rd.pc = "body")
  BY <1>1 DEF InStep, PlaceInv, Base
<1>7. Left(Ahead', Base, rd.pc = "body")
  <2>1. Left(Ahead, Base, rd.pc = "body")
    BY DEF InStep, PlaceInv
  <2>2. n > Base
    BY <1>1, <1>6
  <2>3. \A i \in 1..Len(Ahead') :
          (i \in 1..Len(Ahead) /\ Ahead'[i] = Ahead[i]) \/ Ahead'[i].f > Base
    BY <1>4, <2>2
  <2> QED
    BY <2>1, <2>3, Zenon DEF Left
<1>8. Heads(Ahead', Base, n)
  <2> SUFFICES ASSUME NEW f \in (Base + 1)..n
               PROVE  \E i \in 1..Len(Ahead') : Ahead'[i].f = f /\ Ahead'[i].part = 1
    BY DEF Heads
  <2>1. CASE f = n
    <3>1. Len(Ahead) + 1 \in 1..Len(Ahead')
      BY <1>4
    <3>2. Ahead'[Len(Ahead) + 1].f = n /\ Ahead'[Len(Ahead) + 1].part = 1
      BY <1>4 DEF Part
    <3> QED
      BY <2>1, <3>1, <3>2
  <2>2. CASE f # n
    <3>1. f \in (Base + 1)..Len(frames)
      BY <1>1, <1>6, <2>2
    <3>2. PICK i \in 1..Len(Ahead) : Ahead[i].f = f /\ Ahead[i].part = 1
      BY <3>1 DEF InStep, PlaceInv, Heads
    <3>3. i \in 1..Len(Ahead') /\ Ahead'[i] = Ahead[i]
      BY <1>4
    <3> QED
      BY <3>2, <3>3
  <2> QED
    BY <2>1, <2>2
<1>9. PlaceInv'
  <2>1. Left(Ahead', Base', rd'.pc = "body") /\ Heads(Ahead', Base', Len(frames')) /\ Base' <= Len(frames')
    BY <1>1, <1>2, <1>6, <1>7, <1>8
  <2> QED
    BY <2>1 DEF PlaceInv, Left, Heads
<1>10. Orderly(Ahead)' /\ Len(taken) < n
  BY <1>1, <1>2, <1>5, <1>6 DEF Orderly, Paired, Rising, Once
<1> QED
  BY <1>2, <1>4, <1>9, <1>10

\* A body is written.
LEMMA PutBodyAhead ==
  ASSUME IInv, InStep, NEW f \in Numbers, f > Len(taken), UNCHANGED <<frames, rd, taken>>,
         \A i \in 1..Len(Ahead) : Ahead[i].f = f => Ahead[i].part \in {1, 2},
         stream' = stream \o <<Part(f, 3), Part(f, 4)>>
  PROVE  /\ Orderly(Ahead)' /\ PlaceInv'
         /\ \A i \in 1..Len(Ahead') : \/ i \in 1..Len(Ahead) /\ Ahead'[i] = Ahead[i]
                                      \/ Ahead'[i].f = f /\ Ahead'[i].part \in {3, 4}
<1>1. /\ Len(frames) \in Nat /\ Len(taken) \in Nat /\ Ahead \in Seq(Units) /\ Len(frames) <= MaxFrames
      /\ \A i \in 1..Len(Ahead) : Ahead[i].f \in 1..Len(frames)
  BY AheadUnits DEF IInv, TypeOK
<1>2. f \in 1..MaxFrames /\ f \in Nat /\ 3 \in {1, 3} /\ 3 + 1 = 4
  BY <1>1, BoundsAreNumbers DEF Numbers
<1>3. stream' = stream \o <<Part(f, 3), Part(f, 3 + 1)>>
  BY <1>2
<1>4. /\ Ahead' \in Seq(Units) /\ Len(Ahead') = Len(Ahead) + 2 /\ Len(Ahead) \in Nat
      /\ \A i \in 1..Len(Ahead) : Ahead'[i] = Ahead[i]
      /\ Ahead'[Len(Ahead) + 1] = Part(f, 3) /\ Ahead'[Len(Ahead) + 2] = Part(f, 3 + 1)
      /\ \A i \in 1..Len(Ahead') : \/ i \in 1..Len(Ahead) /\ Ahead'[i] = Ahead[i]
                                   \/ Ahead'[i].f = f /\ Ahead'[i].part \in {3, 3 + 1}
  BY <1>2, <1>3, PutAhead
<1>5. Orderly(Ahead')
  <2>3. 3 # 1 /\ 3 # 2
    OBVIOUS
  <2>1. \A i \in 1..Len(Ahead) : Ahead[i].f = f => Ahead[i].part # 3
    BY <2>3, Zenon
  <2>2. Orderly(Ahead) /\ 3 # 1
    BY DEF InStep
  <2> QED
    BY <1>1, <1>2, <1>4, <2>1, <2>2, AddPair
<1>6. /\ Base' = Base /\ Base \in Nat /\ Base <= Len(frames) /\ (rd'.pc = "body") = (rd.pc = "body")
      /\ f > Base \/ (rd.pc = "body" /\ f = Base)
  BY <1>1, <1>2 DEF InStep, PlaceInv, Base
<1>7. Left(Ahead', Base, rd.pc = "body")
  <2> SUFFICES ASSUME NEW i \in 1..Len(Ahead')
               PROVE  Ahead'[i].f > Base \/ (rd.pc = "body" /\ Ahead'[i].f = Base /\ Ahead'[i].part \in {3, 4})
    BY DEF Left
  <2>1. i \in 1..Len(Ahead) => Ahead[i].f > Base \/ (rd.pc = "body" /\ Ahead[i].f = Base /\ Ahead[i].part \in {3, 4})
    BY DEF InStep, PlaceInv, Left
  <2> QED
    BY <1>2, <1>4, <1>6, <2>1
<1>8. Heads(Ahead', Base, Len(frames))
  <2> SUFFICES ASSUME NEW e \in (Base + 1)..Len(frames)
               PROVE  \E i \in 1..Len(Ahead') : Ahead'[i].f = e /\ Ahead'[i].part = 1
    BY DEF Heads
  <2>1. PICK i \in 1..Len(Ahead) : Ahead[i].f = e /\ Ahead[i].part = 1
    BY DEF InStep, PlaceInv, Heads
  <2>2. i \in 1..Len(Ahead') /\ Ahead'[i] = Ahead[i]
    BY <1>4
  <2> QED
    BY <2>1, <2>2
<1>9. PlaceInv'
  <2>1. Left(Ahead', Base', rd'.pc = "body") /\ Heads(Ahead', Base', Len(frames')) /\ Base' <= Len(frames')
    BY <1>6, <1>7, <1>8
  <2> QED
    BY <2>1 DEF PlaceInv, Left, Heads
<1>10. Orderly(Ahead)'
  BY <1>5 DEF Orderly, Paired, Rising, Once
<1> QED
  BY <1>2, <1>4, <1>9, <1>10

LEMMA OrderHeads ==
  ASSUME IInv, OrderInv, ConnPutsHead \/ RelayPutsHead
  PROVE  OrderInv'
<1> USE DEF client
<1> DEFINE n == Len(frames) + 1
<1>1. /\ UNCHANGED <<rd, taken, late, kind, unread, tunnelled>> /\ Len(frames) < MaxFrames
      /\ stream' = stream \o <<Part(n, 1), Part(n, 2)>>
  BY DEF ConnPutsHead, RelayPutsHead, PutHead, lock
<1>2. Len(frames') = n /\ Len(frames) \in Nat
  <2>1. \E r : frames' = Append(frames, r)
    BY DEF ConnPutsHead, RelayPutsHead, PutHead
  <2>2. frames \in Seq([kind : Kinds, g : 0..MaxStates])
    BY DEF IInv, TypeOK
  <2>3. Len(frames') = Len(frames) + 1 /\ Len(frames) \in Nat
    BY <2>1, <2>2
  <2> QED
    BY <2>3
<1>3. /\ conn' = conn \/ (conn.pc = "head" /\ conn' = [conn EXCEPT !.pc = "body", !.f = n] /\ relay' = relay)
      /\ relay' = relay \/ (relay.pc = "head" /\ relay' = [relay EXCEPT !.pc = "body", !.f = n] /\ conn' = conn)
  BY DEF ConnPutsHead, RelayPutsHead, PutHead
<1>4. CASE late \/ rd.pc = "ended"
  BY <1>1, <1>4 DEF OrderInv, TakenInOrder
<1>5. CASE ~late /\ rd.pc # "ended"
  <2>1. InStep /\ TakenInOrder
    BY <1>5 DEF OrderInv
  <2>2. /\ Orderly(Ahead)' /\ PlaceInv' /\ Len(taken) < n
        /\ \A i \in 1..Len(Ahead') : \/ i \in 1..Len(Ahead) /\ Ahead'[i] = Ahead[i]
                                     \/ Ahead'[i].f = n /\ Ahead'[i].part \in {1, 2}
    BY <1>1, <1>2, <2>1, PutHeadAhead
  <2>3. \A i \in 1..Len(Ahead) : Ahead[i].f \in 1..Len(frames)
    BY AheadUnits
  <2>4. conn \in Writers /\ relay \in Writers
    BY DEF IInv, TypeOK
  <2>5. /\ conn.pc = "body" => conn.f \in 1..Len(frames)
        /\ relay.pc = "body" => relay.f \in 1..Len(frames)
    BY DEF IInv, WriterInv, WriterOK, Numbers
  <2>6. Owes(conn) /\ Owes(relay)
    BY <2>1 DEF InStep
  <2>7. Owes(conn)'
    <3>1. CASE conn' = conn
      BY <1>1, <1>2, <2>2, <2>5, <2>6, <3>1 DEF Owes
    <3>2. CASE conn' # conn
      <4>1. conn'.f = n
        BY <1>3, <2>4, <3>2 DEF Writers
      <4> QED
        BY <1>1, <1>2, <2>2, <2>3, <4>1 DEF Owes
    <3> QED
      BY <3>1, <3>2
  <2>8. Owes(relay)'
    <3>1. CASE relay' = relay
      BY <1>1, <1>2, <2>2, <2>5, <2>6, <3>1 DEF Owes
    <3>2. CASE relay' # relay
      <4>1. relay'.f = n
        BY <1>3, <2>4, <3>2 DEF Writers
      <4> QED
        BY <1>1, <1>2, <2>2, <2>3, <4>1 DEF Owes
    <3> QED
      BY <3>1, <3>2
  <2>9. OneQuestion'
    <3>1. CASE kind # "asker"
      BY <1>1, <3>1 DEF OneQuestion
    <3>2. CASE kind = "asker"
      <4>1. relay.pc = "read" /\ OneQuestion
        BY <1>5, <2>1, <3>2, NoRelay DEF InStep
      <4>2. conn.pc = "head" /\ conn' = [conn EXCEPT !.pc = "body", !.f = n]
        BY <4>1 DEF ConnPutsHead, RelayPutsHead, PutHead
      <4>3. conn'.pc = "body"
        BY <2>4, <4>2 DEF Writers
      <4>4. unread \in Nat /\ Len(taken) \in Nat
        BY AheadUnits DEF IInv, TypeOK
      <4>5. unread = 0 /\ rd.pc = "head" /\ Len(frames) = Len(taken) /\ tunnelled = {}
        BY <3>2, <4>1, <4>2, <4>4 DEF OneQuestion
      <4> QED
        BY <1>1, <1>2, <4>3, <4>4, <4>5 DEF OneQuestion
    <3> QED
      BY <3>1, <3>2
  <2>10. ReaderInv' /\ TakenInOrder'
    BY <1>1, <2>1 DEF InStep, ReaderInv, TakenInOrder
  <2> QED
    BY <2>2, <2>7, <2>8, <2>9, <2>10 DEF OrderInv, InStep
<1> QED
  BY <1>4, <1>5

LEMMA OrderBodies ==
  ASSUME IInv, OrderInv, ConnPutsBody \/ RelayPutsBody
  PROVE  OrderInv'
<1> USE DEF client
<1>1. UNCHANGED <<rd, taken, late, kind, unread, tunnelled, frames>>
  BY DEF ConnPutsBody, RelayPutsBody, PutBody
<1>2. CASE late \/ rd.pc = "ended"
  BY <1>1, <1>2 DEF OrderInv, TakenInOrder
<1>3. CASE ~late /\ rd.pc # "ended"
  <2>1. InStep /\ TakenInOrder /\ Owes(conn) /\ Owes(relay)
    BY <1>3 DEF OrderInv, InStep
  <2>2. /\ conn.pc = "body" => conn.f \in Numbers
        /\ relay.pc = "body" => relay.f \in Numbers
        /\ conn.pc = "body" /\ relay.pc = "body" => conn.f # relay.f
        /\ conn \in Writers
    BY DEF IInv, TypeOK, WriterInv, WriterOK
  <2>3. ReaderInv' /\ TakenInOrder'
    BY <1>1, <2>1 DEF InStep, ReaderInv, TakenInOrder
  <2>4. CASE ConnPutsBody
    <3>1. /\ conn.pc = "body" /\ conn'.pc \in {"read", "close"} /\ relay' = relay
          /\ stream' = stream \o <<Part(conn.f, 3), Part(conn.f, 4)>>
      BY <2>2, <2>4 DEF ConnPutsBody, PutBody, After, Rest, Writers
    <3>2. /\ conn.f > Len(taken)
          /\ \A i \in 1..Len(Ahead) : Ahead[i].f = conn.f => Ahead[i].part \in {1, 2}
      BY <2>1, <3>1 DEF Owes
    <3>3. /\ Orderly(Ahead)' /\ PlaceInv'
          /\ \A i \in 1..Len(Ahead') : \/ i \in 1..Len(Ahead) /\ Ahead'[i] = Ahead[i]
                                       \/ Ahead'[i].f = conn.f /\ Ahead'[i].part \in {3, 4}
      BY <1>1, <2>1, <2>2, <3>1, <3>2, PutBodyAhead
    <3>4. Owes(conn)' /\ Owes(relay)'
      BY <1>1, <2>1, <2>2, <3>1, <3>3 DEF Owes
    <3>5. OneQuestion'
      BY <1>1, <2>1, <3>1 DEF InStep, OneQuestion
    <3> QED
      BY <2>3, <3>3, <3>4, <3>5 DEF OrderInv, InStep
  <2>5. CASE RelayPutsBody
    <3>1. /\ relay.pc = "body" /\ relay'.pc = "read" /\ conn' = conn
          /\ stream' = stream \o <<Part(relay.f, 3), Part(relay.f, 4)>>
      BY <2>5 DEF RelayPutsBody, PutBody, Rest
    <3>2. /\ relay.f > Len(taken)
          /\ \A i \in 1..Len(Ahead) : Ahead[i].f = relay.f => Ahead[i].part \in {1, 2}
      BY <2>1, <3>1 DEF Owes
    <3>3. /\ Orderly(Ahead)' /\ PlaceInv'
          /\ \A i \in 1..Len(Ahead') : \/ i \in 1..Len(Ahead) /\ Ahead'[i] = Ahead[i]
                                       \/ Ahead'[i].f = relay.f /\ Ahead'[i].part \in {3, 4}
      BY <1>1, <2>1, <2>2, <3>1, <3>2, PutBodyAhead
    <3>4. Owes(conn)' /\ Owes(relay)'
      BY <1>1, <2>1, <2>2, <3>1, <3>3 DEF Owes
    <3>5. OneQuestion'
      BY <1>1, <2>1, <3>1 DEF InStep, OneQuestion
    <3> QED
      BY <2>3, <3>3, <3>4, <3>5 DEF OrderInv, InStep
  <2> QED
    BY <2>4, <2>5
<1> QED
  BY <1>2, <1>3

\* What the last unit of a length, or of a body, completes.
LEMMA PairRead ==
  ASSUME IInv, InStep, LastUnit
  PROVE  LET u == Append(rd.got, Head(stream))
         IN  /\ rd.need = 2 /\ Ahead # <<>> /\ Tail(stream) \in Seq(Units)
             /\ Len(Tail(stream)) = Len(Ahead) - 2
             /\ \A i \in 1..Len(Tail(stream)) : Tail(stream)[i] = Ahead[i + 2]
             /\ Len(u) = 2 /\ u[1] = Ahead[1] /\ u[2] = Ahead[2]
<1>1. rd.got \in Seq(Units) /\ stream \in Seq(Units) /\ stream # <<>>
  BY AheadUnits DEF LastUnit
<1>2. rd.need = 2 /\ Len(rd.got) + 1 = 2
  BY DEF InStep, ReaderInv, LastUnit
<1>3. /\ rd.got \o stream # <<>> /\ Tail(stream) \in Seq(Units)
      /\ Len(Tail(stream)) = Len(rd.got \o stream) - 2
      /\ \A i \in 1..Len(Tail(stream)) : Tail(stream)[i] = (rd.got \o stream)[i + 2]
      /\ Len(Append(rd.got, Head(stream))) = 2
      /\ Append(rd.got, Head(stream))[1] = (rd.got \o stream)[1]
      /\ Append(rd.got, Head(stream))[2] = (rd.got \o stream)[2]
  BY <1>1, <1>2, TakePair, ZenonT(30)
<1> QED
  BY <1>2, <1>3, Zenon DEF Ahead

LEMMA OrderClient ==
  ASSUME IInv, OrderInv, Ask \/ Send \/ ReadUnit \/ Timeout \/ Eof
  PROVE  OrderInv'
<1> USE DEF server
<1>1. /\ UNCHANGED <<kind, taken, frames, conn, relay, tunnelled>>
      /\ late' => late' # late \/ late
  BY DEF Ask, Send, ReadUnit, Timeout, Eof, lock
<1>2. /\ Idle.pc = "idle" /\ NewRead.pc = "head" /\ Ended.pc = "ended"
  BY DEF Idle, NewRead, Ended
<1>3. unread \in Nat /\ Len(taken) \in Nat /\ Len(frames) \in Nat /\ conn \in Writers
  BY AheadUnits DEF IInv, TypeOK
<1>4. CASE Ask
  <2>1. UNCHANGED <<stream, late>> /\ rd = Idle /\ rd' = NewRead /\ unread' = unread + 1
    BY <1>4 DEF Ask
  <2>2. ASSUME ~late, rd.pc # "ended" PROVE OneQuestion'
    <3>1. OneQuestion /\ Owes(conn)
      BY <2>2 DEF OrderInv, InStep
    <3>2. conn.pc = "body" => conn.f <= Len(frames) /\ conn.f > Len(taken) /\ conn.f \in Nat
      BY <1>3, <3>1 DEF Owes, IInv, WriterInv, WriterOK, Numbers
    <3>3. conn.pc \in {"read", "lock", "head", "body", "close"}
      BY <1>3 DEF Writers
    <3> QED
      BY <1>1, <1>2, <1>3, <2>1, <3>1, <3>2, <3>3 DEF OneQuestion
  <2> QED
    BY <1>1, <2>1, <2>2, OrderQuiet
<1>5. CASE Send
  <2>1. UNCHANGED <<stream, late, rd>> /\ kind = "tunnel"
    BY <1>5 DEF Send
  <2>2. OneQuestion'
    BY <1>1, <2>1 DEF OneQuestion
  <2> QED
    BY <1>1, <2>1, <2>2, OrderQuiet
<1>6. CASE Eof
  BY <1>1, <1>2, <1>6 DEF Eof, End, OrderInv, TakenInOrder
<1>7. CASE Timeout
  <2>1. UNCHANGED <<stream, unread>>
    BY <1>7 DEF Timeout
  <2>2. CASE ~(kind = "tunnel" /\ InSession)
    <3>1. late' = late /\ rd'.pc = "ended"
      BY <1>2, <1>7, <2>2 DEF Timeout, End
    <3> QED
      BY <1>1, <3>1 DEF OrderInv, TakenInOrder
  <2>3. CASE kind = "tunnel" /\ InSession
    <3>1. rd' = NewRead /\ late' = (late \/ rd # NewRead)
      BY <1>7, <2>3 DEF Timeout
    <3>2. CASE rd = NewRead
      <4>1. late \in BOOLEAN
        BY DEF IInv, TypeOK
      <4>2. late' = late /\ rd' = rd
        BY <3>1, <3>2, <4>1
      <4>3. OneQuestion'
        BY <1>1, <2>3 DEF OneQuestion
      <4> QED
        BY <1>1, <2>1, <4>2, <4>3, OrderQuiet
    <3>3. CASE rd # NewRead
      BY <3>1, <3>3 DEF OrderInv
    <3> QED
      BY <3>2, <3>3
  <2> QED
    BY <2>2, <2>3
<1>8. CASE ReadUnit
  <2>1. /\ rd.pc \in {"head", "body"} /\ stream # <<>> /\ Len(rd.got) + 1 < rd.need
        /\ rd' = [rd EXCEPT !.got = Append(@, Head(stream))] /\ stream' = Tail(stream)
        /\ UNCHANGED <<unread, late>>
    BY <1>8 DEF ReadUnit
  <2>2. rd.got \in Seq(Units) /\ stream \in Seq(Units)
    BY AheadUnits
  <2>3. /\ rd'.got = Append(rd.got, Head(stream)) /\ rd'.pc = rd.pc /\ rd'.need = rd.need
        /\ Len(rd'.got) = Len(rd.got) + 1
    <3>1. rd \in [pc : {"idle", "head", "body", "ended"}, need : Nat, got : Seq(Units)]
      BY DEF IInv, TypeOK
    <3>2. rd'.got = Append(rd.got, Head(stream)) /\ rd'.pc = rd.pc /\ rd'.need = rd.need
      BY <2>1, <3>1
    <3>3. Head(stream) \in Units
      BY <2>1, <2>2
    <3> QED
      BY <2>2, <3>2, <3>3, Appended
  <2>4. Ahead' = Ahead /\ Base' = Base
    BY <1>1, <2>1, <2>2, <2>3, MoveUnit DEF Ahead, Base
  <2>5. ASSUME ~late PROVE InStep' /\ TakenInOrder'
    <3>1. InStep /\ TakenInOrder
      BY <2>1, <2>5 DEF OrderInv
    <3>2. Orderly(Ahead)'
      BY <2>4, <3>1 DEF InStep, Orderly, Paired, Rising, Once
    <3>7. TakenInOrder'
      BY <1>1, <2>5, <3>1 DEF TakenInOrder
    <3>6. Owes(conn)' /\ Owes(relay)'
      BY <1>1, <2>4, <3>1 DEF InStep, Owes
    <3>3. PlaceInv'
      BY <1>1, <2>3, <2>4, <3>1 DEF InStep, PlaceInv, Left, Heads
    <3>4. OneQuestion'
      BY <1>1, <2>1, <2>3, <3>1 DEF InStep, OneQuestion
    <3>5. ReaderInv'
      <4>1. Len(rd.got) \in Nat
        BY <2>2
      <4> QED
        BY <2>1, <2>3, <3>1, <4>1 DEF InStep, ReaderInv
    <3> QED
      BY <3>1, <3>2, <3>3, <3>4, <3>5, <3>6, <3>7 DEF InStep
  <2> QED
    BY <2>1, <2>5 DEF OrderInv
<1> QED
  BY <1>4, <1>5, <1>6, <1>7, <1>8

\* A client in step takes nothing but the next length for a length.
LEMMA HeadRead ==
  ASSUME IInv, OrderInv, ReadHead, ~late
  PROVE  /\ InStep /\ TakenInOrder
         /\ UNCHANGED <<kind, taken, frames, torn, conn, relay, tunnelled, unread, late>>
         /\ rd' = [pc |-> "body", need |-> 2, got |-> <<>>]
         /\ Base = Len(taken) /\ Base' = Base + 1 /\ Base + 1 <= Len(frames)
         /\ Ahead # <<>> /\ Ahead[1].part = 1 /\ Ahead[1].f = Base + 1
         /\ Ahead' \in Seq(Units) /\ Len(Ahead') = Len(Ahead) - 2
         /\ \A i \in 1..Len(Ahead') : Ahead'[i] = Ahead[i + 2]
<1> USE DEF server
<1> DEFINE u == Append(rd.got, Head(stream))
           b == Len(taken)
           last == Len(frames)
<1>1. /\ UNCHANGED <<kind, taken, frames, torn, conn, relay, tunnelled, unread, late>>
      /\ stream' = Tail(stream) /\ LastUnit /\ rd.pc = "head"
  BY DEF ReadHead, lock
<1>2. InStep /\ TakenInOrder
  BY <1>1 DEF OrderInv
<1>3. /\ Ahead # <<>> /\ Tail(stream) \in Seq(Units)
      /\ Len(Tail(stream)) = Len(Ahead) - 2
      /\ \A i \in 1..Len(Tail(stream)) : Tail(stream)[i] = Ahead[i + 2]
      /\ Len(u) = 2 /\ u[1] = Ahead[1] /\ u[2] = Ahead[2]
  BY <1>1, <1>2, PairRead
<1> HIDE DEF u
<1>4. /\ Ahead \in Seq(Units) /\ Len(frames) \in Nat /\ Len(taken) \in Nat
      /\ \A i \in 1..Len(Ahead) : Ahead[i].f \in 1..last
  BY AheadUnits
<1>5. /\ Orderly(Ahead) /\ Left(Ahead, b, FALSE) /\ Heads(Ahead, b, last)
      /\ b \in Nat /\ last \in Nat /\ Base = b
  BY <1>1, <1>2, <1>4 DEF InStep, PlaceInv, Base, Left, Heads
<1>6. Ahead[1].part = 1 /\ Ahead[1].f = b + 1 /\ b + 1 <= last
  <2> HIDE DEF b, last
  <2> QED
    BY <1>3, <1>4, <1>5, HeadFirst
<1>7. 2 \in 1..Len(Ahead) /\ Ahead[2].f = b + 1 /\ Ahead[2].part = 2 /\ Ahead[2] \in Units
  <2>1. 2 \in 1..Len(Ahead) /\ Ahead[2].f = Ahead[1].f /\ Ahead[2].part = Ahead[1].part + 1
    BY <1>3, <1>4, <1>5, FirstPair DEF Orderly
  <2> QED
    BY <1>4, <1>6, <2>1, UnitTypes
<1>8. u[1].part = 1 /\ u[2] = Part(u[1].f, 2)
  BY <1>3, <1>6, <1>7 DEF Part, Units
<1>9. rd' = [pc |-> "body", need |-> 2, got |-> <<>>]
  <2>1. \E k \in {2} : IF k = 0 THEN End ELSE rd' = [pc |-> "body", need |-> k, got |-> <<>>] /\ UNCHANGED open
    BY <1>8 DEF ReadHead, u
  <2> QED
    BY <2>1
<1>10. Ahead' = Tail(stream) /\ Base' = b + 1
  <2>1. rd'.got = <<>> /\ rd'.pc = "body"
    BY <1>9
  <2> QED
    BY <1>1, <1>3, <2>1, ConcatEmptySeq DEF Ahead, Base
<1> QED
  BY <1>1, <1>2, <1>3, <1>5, <1>6, <1>9, <1>10

LEMMA OrderReadHead ==
  ASSUME IInv, OrderInv, ReadHead
  PROVE  OrderInv'
<1>1. CASE late
  BY <1>1 DEF OrderInv, ReadHead
<1>2. CASE ~late
  <2>1. /\ InStep /\ TakenInOrder
        /\ UNCHANGED <<kind, taken, frames, conn, relay, tunnelled, unread, late>>
        /\ rd' = [pc |-> "body", need |-> 2, got |-> <<>>]
        /\ Base = Len(taken) /\ Base' = Base + 1 /\ Base + 1 <= Len(frames)
        /\ Ahead # <<>>
        /\ Ahead' \in Seq(Units) /\ Len(Ahead') = Len(Ahead) - 2
        /\ \A i \in 1..Len(Ahead') : Ahead'[i] = Ahead[i + 2]
    BY <1>2, HeadRead
  <2>2. rd'.pc = "body" /\ rd'.need = 2 /\ rd'.got = <<>> /\ Len(rd'.got) = 0
    BY <2>1
  <2>3. rd.pc = "head"
    BY DEF ReadHead
  <2>4. /\ Ahead \in Seq(Units) /\ Len(frames) \in Nat /\ Len(taken) \in Nat
        /\ \A i \in 1..Len(Ahead) : Ahead[i].f \in 1..Len(frames)
    BY AheadUnits
  <2> DEFINE s == Ahead
             t == Ahead'
             b == Base
             last == Len(frames)
  <2>5. Orderly(s) /\ Left(s, b, FALSE) /\ Heads(s, b, last) /\ b \in Nat /\ last \in Nat
    BY <2>1, <2>3, <2>4 DEF InStep, PlaceInv, Left, Heads
  <2>6. /\ s \in Seq(Units) /\ t \in Seq(Units) /\ s # <<>> /\ Len(t) = Len(s) - 2
        /\ \A i \in 1..Len(t) : t[i] = s[i + 2]
        /\ \A i \in 1..Len(s) : s[i].f \in 1..last
    BY <2>1, <2>4
  <2>7. Orderly(t) /\ Left(t, b + 1, TRUE) /\ Heads(t, b + 1, last)
    <3> HIDE DEF s, t, b, last
    <3>1. Orderly(t)
      BY <2>5, <2>6, DropPair
    <3>2. Left(t, b + 1, TRUE) /\ Heads(t, b + 1, last)
      BY <2>5, <2>6, PastHead
    <3> QED
      BY <3>1, <3>2
  <2>8. Orderly(Ahead)'
    BY <2>7 DEF Orderly, Paired, Rising, Once
  <2>9. PlaceInv'
    <3>1. Base' = b + 1 /\ (rd'.pc = "body") = TRUE /\ Len(frames') = last
      BY <2>1, <2>2
    <3> QED
      BY <2>1, <2>7, <3>1 DEF PlaceInv, Left, Heads
  <2>10. Owes(conn)' /\ Owes(relay)'
    <3>1. \A i \in 1..Len(Ahead') : i + 2 \in 1..Len(Ahead) /\ Ahead'[i] = Ahead[i + 2]
      BY <2>1, <2>4
    <3> QED
      BY <2>1, <3>1 DEF InStep, Owes
  <2>11. OneQuestion'
    <3>1. Len(frames) # Len(taken)
      BY <2>1, <2>4
    <3> QED
      BY <2>1, <2>2, <3>1 DEF InStep, OneQuestion
  <2>12. ReaderInv' /\ TakenInOrder'
    BY <2>1, <2>2 DEF ReaderInv, TakenInOrder
  <2> QED
    BY <2>8, <2>9, <2>10, <2>11, <2>12 DEF OrderInv, InStep
<1> QED
  BY <1>1, <1>2 DEF IInv, TypeOK

\* What Receive leaves of nothing.
LEMMA NothingRests ==
  ASSUME NEW s \in Seq(Units), NEW r \in Rests(s), kind = "tunnel" \/ s = <<>>
  PROVE  r = s
<1>1. CASE kind = "tunnel"
  BY <1>1 DEF Rests, ReadsAhead
<1>2. CASE s = <<>>
  <2>1. ASSUME NEW k \in 1..(Len(s) + 1) PROVE SubSeq(s, k, Len(s)) = <<>>
    <3>1. Len(s) = 0 /\ k \in Int /\ 0 \in Int /\ 0 < k
      BY <1>2
    <3> QED
      BY <3>1, SubSeqEmpty
  <2> QED
    BY <1>2, <2>1 DEF Rests
<1> QED
  BY <1>1, <1>2

\* A client in step accepts nothing but the body that is due.
LEMMA BodyRead ==
  ASSUME IInv, OrderInv, ReadBody, ~late
  PROVE  /\ InStep /\ TakenInOrder /\ rd.pc = "body"
         /\ UNCHANGED <<kind, frames, torn, conn, relay, tunnelled, unread, late>>
         /\ \/ rd'.pc = "ended" /\ taken' = taken
            \/ /\ rd' = IF kind = "tunnel" THEN NewRead ELSE Idle
               /\ Base = Len(taken) + 1 /\ Base' = Base /\ taken' = Append(taken, Base)
               /\ Base \in 1..MaxFrames /\ (kind = "asker" => Len(frames) = Base)
               /\ Ahead # <<>> /\ Ahead[1].part = 3 /\ Ahead[1].f = Base
               /\ Ahead' \in Seq(Units) /\ Len(Ahead') = Len(Ahead) - 2
               /\ \A i \in 1..Len(Ahead') : Ahead'[i] = Ahead[i + 2]
               /\ stream' = Tail(stream)
<1> USE DEF server
<1> DEFINE u == Append(rd.got, Head(stream))
           ok == Whole(u) /\ Accepts(u[1].f)
           b == Len(taken) + 1
           last == Len(frames)
<1>1. /\ UNCHANGED <<kind, frames, torn, conn, relay, tunnelled, unread, late>>
      /\ stream' \in Rests(Tail(stream)) /\ LastUnit /\ rd.pc = "body"
  BY DEF ReadBody, lock
<1>2. InStep /\ TakenInOrder
  BY <1>1 DEF OrderInv
<1>3. CASE ~ok
  <2>1. ok \/ (End /\ UNCHANGED taken)
    BY DEF ReadBody
  <2> HIDE DEF ok
  <2>2. rd'.pc = "ended" /\ taken' = taken
    BY <1>3, <2>1 DEF End, Ended, NewRead
  <2> QED
    BY <1>1, <1>2, <2>2
<1>4. CASE ok
  <2>1. /\ Ahead # <<>> /\ Tail(stream) \in Seq(Units)
        /\ Len(Tail(stream)) = Len(Ahead) - 2
        /\ \A i \in 1..Len(Tail(stream)) : Tail(stream)[i] = Ahead[i + 2]
        /\ Len(u) = 2 /\ u[1] = Ahead[1] /\ u[2] = Ahead[2]
    BY <1>1, <1>2, PairRead
  <2>2. /\ taken' = Append(taken, u[1].f) /\ rd' = IF kind = "tunnel" THEN NewRead ELSE Idle
        /\ u[1].part = 3
    BY <1>4 DEF ReadBody, Whole
  <2> HIDE DEF u, ok
  <2>3. /\ Ahead \in Seq(Units) /\ Len(frames) \in Nat /\ Len(taken) \in Nat
        /\ taken \in Seq(1..MaxFrames)
        /\ \A i \in 1..Len(Ahead) : Ahead[i].f \in 1..Len(frames)
    BY AheadUnits
  <2>4. /\ Orderly(Ahead) /\ Left(Ahead, b, TRUE) /\ Heads(Ahead, b, last)
        /\ b \in Nat /\ last \in Nat /\ b <= last /\ Base = b
    BY <1>1, <1>2, <2>3 DEF InStep, PlaceInv, Base, Left, Heads
  <2>5. \A i \in 1..Len(Ahead) : Ahead[i].f \in 1..last
    BY <2>3
  <2>6. u[1].f = b /\ Ahead[1].f = b /\ Ahead[1].part = 3
    <3> HIDE DEF b, last
    <3> QED
      BY <2>1, <2>2, <2>3, <2>4, <2>5, BodyFirst
  <2>7. b \in 1..MaxFrames
    <3>1. 1 \in 1..Len(Ahead) /\ Ahead[1].f \in 1..MaxFrames
      BY <2>1, <2>3, <2>4, FirstPair, UnitTypes DEF Orderly
    <3> QED
      BY <2>6, <3>1
  <2>8. Left(Tail(stream), b, FALSE)
    <3> HIDE DEF b, last
    <3> QED
      BY <2>1, <2>3, <2>4, <2>5, <2>6, PastBody
  <2>9. /\ rd'.pc \in {"head", "idle"} /\ rd'.got = <<>>
    BY <2>2 DEF NewRead, Idle
  <2>10. kind = "asker" => Len(frames) = b
    <3>1. OneQuestion
      BY <1>2 DEF InStep
    <3> QED
      BY <2>3, <2>4, <3>1 DEF OneQuestion
  <2>11. kind = "tunnel" \/ Tail(stream) = <<>>
    <3> SUFFICES ASSUME kind = "asker", Tail(stream) # <<>> PROVE FALSE
      BY DEF IInv, TypeOK
    <3>1. 1 \in 1..Len(Tail(stream))
      BY <2>1
    <3>2. Tail(stream)[1].f > b
      BY <2>8, <3>1 DEF Left
    <3>3. Tail(stream)[1] = Ahead[1 + 2] /\ 1 + 2 \in 1..Len(Ahead)
      <4>1. Tail(stream)[1] = Ahead[1 + 2]
        BY <2>1, <3>1
      <4>2. 1 + 2 \in 1..Len(Ahead)
        BY <2>1, <2>3, <3>1
      <4> QED
        BY <4>1, <4>2
    <3>4. Tail(stream)[1].f \in 1..b
      BY <2>3, <2>10, <3>3
    <3> QED
      BY <2>4, <3>2, <3>4
  <2>12. stream' = Tail(stream)
    BY <1>1, <2>1, <2>11, NothingRests
  <2>13. Ahead' = Tail(stream)
    BY <2>1, <2>9, <2>12, ConcatEmptySeq DEF Ahead
  <2>14. Len(taken') = b /\ Base' = b
    <3>1. Len(taken') = b
      BY <2>2, <2>3, <2>6, <2>7, Appended
    <3> QED
      BY <2>9, <3>1 DEF Base
  <2> QED
    BY <1>1, <1>2, <2>1, <2>2, <2>4, <2>6, <2>7, <2>10, <2>12, <2>13, <2>14
<1> QED
  BY <1>3, <1>4

LEMMA OrderReadBody ==
  ASSUME IInv, OrderInv, ReadBody
  PROVE  OrderInv'
<1>1. CASE late
  BY <1>1 DEF OrderInv, ReadBody
<1>2. CASE ~late /\ rd'.pc = "ended" /\ taken' = taken
  BY <1>2, BodyRead DEF OrderInv, TakenInOrder
<1>3. CASE ~late /\ ~(rd'.pc = "ended" /\ taken' = taken)
  <2> DEFINE s == Ahead
             t == Ahead'
             b == Base
             last == Len(frames)
  <2>1. /\ InStep /\ TakenInOrder /\ rd.pc = "body"
        /\ UNCHANGED <<kind, frames, conn, relay, tunnelled, unread, late>>
        /\ rd' = IF kind = "tunnel" THEN NewRead ELSE Idle
        /\ b = Len(taken) + 1 /\ Base' = b /\ taken' = Append(taken, b)
        /\ b \in 1..MaxFrames /\ (kind = "asker" => Len(frames) = b)
        /\ s # <<>> /\ s[1].part = 3 /\ s[1].f = b
        /\ t \in Seq(Units) /\ Len(t) = Len(s) - 2
        /\ \A i \in 1..Len(t) : t[i] = s[i + 2]
    BY <1>3, BodyRead
  <2>2. /\ s \in Seq(Units) /\ last \in Nat /\ Len(taken) \in Nat
        /\ taken \in Seq(1..MaxFrames)
        /\ \A i \in 1..Len(s) : s[i].f \in 1..last
    BY AheadUnits
  <2>3. Orderly(s) /\ Left(s, b, TRUE) /\ Heads(s, b, last) /\ b \in Nat /\ b <= last
    BY <2>1, <2>2 DEF InStep, PlaceInv, Left, Heads
  <2>4. /\ rd'.pc \in {"head", "idle"} /\ rd'.need = 2 /\ rd'.got = <<>> /\ Len(rd'.got) = 0
        /\ rd'.pc = "idle" => kind # "tunnel"
    BY <2>1 DEF NewRead, Idle
  <2>5. Orderly(t) /\ Left(t, b, FALSE) /\ Heads(t, b, last)
    <3> HIDE DEF s, t, b, last
    <3>1. Orderly(t)
      BY <2>1, <2>2, <2>3, DropPair
    <3>2. Left(t, b, FALSE) /\ Heads(t, b, last)
      BY <2>1, <2>2, <2>3, PastBody
    <3> QED
      BY <3>1, <3>2
  <2>6. /\ Len(taken') = b /\ taken'[b] = b /\ \A i \in 1..Len(taken) : taken'[i] = taken[i]
    <3> HIDE DEF b
    <3> QED
      BY <2>1, <2>2, Appended
  <2>7. TakenInOrder'
    <3>1. \A i \in 1..b : i \in 1..Len(taken) \/ i = b
      BY <2>1, <2>2
    <3>2. \A i \in 1..Len(taken) : taken[i] = i
      BY <1>3, <2>1 DEF TakenInOrder
    <3> HIDE DEF b
    <3>3. ASSUME NEW i \in 1..Len(taken') PROVE taken'[i] = i
      <4>1. i \in 1..Len(taken) \/ i = b
        BY <2>6, <3>1, Zenon
      <4> QED
        BY <2>6, <3>2, <4>1, Zenon
    <3> QED
      BY <3>3, Zenon DEF TakenInOrder
  <2>8. Orderly(Ahead)'
    BY <2>5 DEF Orderly, Paired, Rising, Once
  <2>9. PlaceInv'
    <3>1. Base' = b /\ (rd'.pc = "body") = FALSE /\ Len(frames') = last
      BY <2>1, <2>4
    <3> QED
      BY <2>3, <2>5, <3>1 DEF PlaceInv, Left, Heads
  <2>10. ASSUME NEW w, w.pc = "body" => w.f \in Nat, Owes(w)
         PROVE  w.pc = "body" =>
                  w.f > b /\ \A i \in 1..Len(t) : t[i].f = w.f => t[i].part \in {1, 2}
    <3>1. \A i \in 1..Len(t) : i + 2 \in 1..Len(s) /\ t[i] = s[i + 2]
      BY <2>1, <2>2
    <3>2. w.pc = "body" => w.f # b
      <4>1. 1 \in 1..Len(s)
        BY <2>1, <2>2
      <4> QED
        BY <2>1, <2>10, <4>1, SMTT(30) DEF Owes
    <3>3. w.pc = "body" => w.f > Len(taken)
      BY <2>10 DEF Owes
    <3>4. w.pc = "body" => w.f > b
      BY <2>1, <2>2, <2>10, <3>2, <3>3
    <3>5. w.pc = "body" => \A i \in 1..Len(s) : s[i].f = w.f => s[i].part \in {1, 2}
      BY <2>10 DEF Owes
    <3> HIDE DEF s, t, b
    <3> QED
      BY <3>1, <3>4, <3>5
  <2>11. Owes(conn)' /\ Owes(relay)'
    <3>1. Owes(conn) /\ Owes(relay)
      BY <2>1 DEF InStep
    <3>2. /\ conn.pc = "body" => conn.f \in Nat
          /\ relay.pc = "body" => relay.f \in Nat
      BY DEF IInv, WriterInv, WriterOK, Numbers
    <3> QED
      BY <2>1, <2>6, <2>10, <3>1, <3>2 DEF Owes
  <2>12. OneQuestion'
    <3>1. ASSUME kind = "asker" PROVE tunnelled = {} /\ unread = 0 /\ conn.pc \notin {"lock", "head"}
      <4>1. OneQuestion /\ unread \in Nat
        BY <2>1 DEF InStep, IInv, TypeOK
      <4> QED
        BY <2>1, <3>1, <4>1 DEF OneQuestion
    <3> QED
      BY <2>1, <2>3, <2>4, <2>6, <3>1 DEF OneQuestion
  <2>13. ReaderInv'
    BY <2>4 DEF ReaderInv
  <2> QED
    BY <2>7, <2>8, <2>9, <2>11, <2>12, <2>13 DEF OrderInv, InStep
<1> QED
  BY <1>1, <1>2, <1>3 DEF IInv, TypeOK

LEMMA InitOrder == Init => OrderInv
<1> SUFFICES ASSUME Init PROVE OrderInv
  OBVIOUS
<1>1. /\ taken = <<>> /\ frames = <<>> /\ stream = <<>> /\ rd = Idle /\ unread = 0 /\ tunnelled = {}
      /\ conn.pc = "read" /\ relay.pc = "read"
  BY DEF Init, Rest
<1>2. Idle.pc = "idle" /\ Idle.need = 2 /\ Idle.got = <<>>
  BY DEF Idle, NewRead
<1>3. <<>> \in Seq(Units) /\ Ahead = <<>>
  BY <1>1, <1>2, ConcatEmptySeq DEF Ahead
<1>4. Len(taken) = 0 /\ Len(frames) = 0 /\ Len(Ahead) = 0 /\ Base = 0
  BY <1>1, <1>2, <1>3 DEF Base
<1>5. Orderly(Ahead) /\ PlaceInv /\ TakenInOrder
  BY <1>4 DEF Orderly, Paired, Rising, Once, PlaceInv, Left, Heads, TakenInOrder
<1>6. Owes(conn) /\ Owes(relay) /\ OneQuestion /\ ReaderInv
  BY <1>1, <1>2, <1>4 DEF Owes, OneQuestion, ReaderInv
<1> QED
  BY <1>5, <1>6 DEF OrderInv, InStep

LEMMA StepOrder == IInv /\ OrderInv /\ [Next]_vars => OrderInv'
<1> SUFFICES ASSUME IInv, OrderInv, [Next]_vars PROVE OrderInv'
  OBVIOUS
<1>1. CASE UNCHANGED vars
  <2>1. UNCHANGED <<frames, stream, taken, late, rd, conn, relay, kind, tunnelled, unread>>
    BY <1>1 DEF vars, lock, output, client
  <2>2. ~late /\ rd.pc # "ended" => OneQuestion'
    BY <2>1 DEF OrderInv, InStep, OneQuestion
  <2> QED
    BY <2>1, <2>2, OrderQuiet
<1>2. CASE Next
  BY <1>2, OrderServer, OrderHeads, OrderBodies, OrderClient, OrderReadHead, OrderReadBody DEF Next
<1> QED
  BY <1>1, <1>2

\* A client in whose frames no deadline fell has accepted the frames the server
\* wrote, in order, none twice and none left out.
THEOREM TakenInOrderAlways == Spec => []TakenInOrder
<1>1. OrderInv => TakenInOrder
  BY DEF OrderInv, TakenInOrder
<1> QED
  BY <1>1, InitOrder, StepOrder, Invariant, PTL DEF Spec

\* A client in step never waits for a body of another length than the one that
\* was written (Receive, readFrameWithTimeout): whatever tears a frame, a length
\* is read where a length was written.
THEOREM LengthsAreLengths ==
  Spec => [][ReadHead /\ ~late => rd'.pc = "body" /\ rd'.need = 2]_vars
<1>1. ASSUME IInv, OrderInv, ReadHead, ~late PROVE rd'.pc = "body" /\ rd'.need = 2
  <2>1. rd' = [pc |-> "body", need |-> 2, got |-> <<>>]
    BY <1>1, HeadRead
  <2> QED
    BY <2>1
<1>2. IInv /\ OrderInv => [ReadHead /\ ~late => rd'.pc = "body" /\ rd'.need = 2]_vars
  BY <1>1
<1> QED
  BY <1>2, InitOrder, StepOrder, Invariant, PTL DEF Spec

\* Only the tunnel's loop goes on after a deadline.
AskerInTime == kind = "asker" => ~late

LEMMA StepAsker == IInv /\ AskerInTime /\ [Next]_vars => AskerInTime'
<1> SUFFICES ASSUME AskerInTime, [Next]_vars PROVE AskerInTime'
  OBVIOUS
<1> USE DEF AskerInTime, client, server
<1>1. CASE Timeout
  BY <1>1 DEF Timeout
<1>2. CASE Next /\ ~Timeout
  <2>1. UNCHANGED <<kind, late>>
    BY <1>2 DEF Next, HearHello, HearEcho, HearPacket, HearBad, ConnLocks, ConnPutsHead,
      ConnPutsBody, ConnFails, ConnCloses, RelayPicks, RelayLocks, RelayPutsHead,
      RelayPutsBody, RelayFails, UdpPacket, Reap, Close, Ask, Send, ReadUnit, ReadHead,
      ReadBody, Eof
  <2> QED
    BY <2>1
<1>3. CASE UNCHANGED vars
  BY <1>3 DEF vars
<1> QED
  BY <1>1, <1>2, <1>3

\* Receive makes a bufio.Reader for each frame and drops it, with whatever it
\* read ahead: when it returns a frame there is nothing behind that frame yet.
THEOREM ReceiveLosesNothing ==
  Spec => [][ReadBody /\ rd'.pc # "ended" => stream' = Tail(stream)]_vars
<1>1. ASSUME IInv, OrderInv, AskerInTime, ReadBody, rd'.pc # "ended"
      PROVE  stream' = Tail(stream)
  <2>1. CASE kind = "tunnel"
    BY <1>1, <2>1 DEF ReadBody, Rests, ReadsAhead
  <2>2. CASE ~late
    BY <1>1, <2>2, BodyRead
  <2> QED
    BY <1>1, <2>1, <2>2 DEF AskerInTime, IInv, TypeOK
<1>2. IInv /\ OrderInv /\ AskerInTime =>
        [ReadBody /\ rd'.pc # "ended" => stream' = Tail(stream)]_vars
  BY <1>1
<1>3. Init => AskerInTime
  BY DEF Init, AskerInTime
<1> QED
  BY <1>2, <1>3, InitOrder, StepOrder, StepAsker, Invariant, PTL DEF Spec

-----------------------------------------------------------------------------
(* Torn frames.                                                            *)

\* A client in whose frames no deadline fell accepts no torn frame: failConn
\* may write its error frame into a data frame, but what the client has of that
\* frame ends the session and is never taken for it.
TornNotTaken == ~late => \A p \in torn : \A i \in 1..Len(taken) : taken[i] # p[1]

\* Something else comes where the body of frame f is due.
Broken(f) ==
  \/ /\ Base < f
     /\ \E i \in 1..Len(Ahead) : /\ Ahead[i].f = f /\ Ahead[i].part = 2
                                 /\ i + 1 \in 1..Len(Ahead) /\ Ahead[i + 1].f # f
  \/ Base = f /\ rd.pc = "body" /\ 1 \in 1..Len(Ahead) /\ Ahead[1].f # f

RelayUntaken == relay.pc = "body" => \A i \in 1..Len(taken) : taken[i] # relay.f

BrokenInv ==
  ~late => /\ RelayUntaken /\ TornNotTaken
           /\ rd.pc # "ended" => \A p \in torn : Broken(p[1])

LEMMA BrokenStays ==
  ASSUME NEW f, Broken(f), Base' = Base, rd'.pc = rd.pc,
         \A i \in 1..Len(Ahead) : i \in 1..Len(Ahead') /\ Ahead'[i] = Ahead[i]
  PROVE  Broken(f)'
<1>1. CASE Base = f /\ rd.pc = "body" /\ 1 \in 1..Len(Ahead) /\ Ahead[1].f # f
  BY <1>1 DEF Broken
<1>2. ASSUME Base < f, NEW i \in 1..Len(Ahead), Ahead[i].f = f, Ahead[i].part = 2,
             i + 1 \in 1..Len(Ahead), Ahead[i + 1].f # f
      PROVE  Broken(f)'
  <2>1. /\ i \in 1..Len(Ahead') /\ Ahead'[i].f = f /\ Ahead'[i].part = 2
        /\ i + 1 \in 1..Len(Ahead') /\ Ahead'[i + 1].f # f
    BY <1>2
  <2> QED
    BY <1>2, <2>1 DEF Broken
<1> QED
  BY <1>1, <1>2 DEF Broken

\* A frame whose body is not written is broken by two units of another one.
LEMMA OwedBreaks ==
  ASSUME IInv, InStep, NEW f \in Numbers, f > Len(taken), NEW g, g # f,
         \A i \in 1..Len(Ahead) : Ahead[i].f = f => Ahead[i].part \in {1, 2},
         Base' = Base, rd'.pc = rd.pc, Len(Ahead') = Len(Ahead) + 2,
         \A i \in 1..Len(Ahead) : Ahead'[i] = Ahead[i], Ahead'[Len(Ahead) + 1].f = g
  PROVE  Broken(f)'
<1>1. /\ Len(Ahead) \in Nat /\ Ahead \in Seq(Units) /\ Len(taken) \in Nat /\ Len(frames) \in Nat
      /\ f \in Nat /\ f <= Len(frames)
  BY AheadUnits DEF Numbers
<1>2. \/ Base < f
      \/ Base = f /\ rd.pc = "body"
  BY <1>1 DEF Base
<1>3. Orderly(Ahead) /\ Base \in Nat
  BY <1>1 DEF InStep, Base
<1>4. CASE Base < f
  <2>1. f \in (Base + 1)..Len(frames)
    BY <1>1, <1>3, <1>4
  <2>2. PICK i \in 1..Len(Ahead) : Ahead[i].f = f /\ Ahead[i].part = 1
    BY <2>1 DEF InStep, PlaceInv, Heads
  <2>3. i + 1 \in 1..Len(Ahead) /\ Ahead[i + 1].f = f /\ Ahead[i + 1].part = 2
    BY <1>3, <2>2 DEF Orderly, Paired
  <2>4. i + 2 \in 1..Len(Ahead') /\ i + 1 \in 1..Len(Ahead') /\ i + 1 + 1 = i + 2
    BY <1>1, <2>3
  <2>5. Ahead'[i + 2].f # f
    <3>1. CASE i + 2 = Len(Ahead) + 1
      BY <3>1
    <3>2. CASE i + 2 # Len(Ahead) + 1
      <4>1. i + 2 \in 1..Len(Ahead) /\ i < i + 2 /\ i + 2 - 1 = i + 1
        BY <1>1, <2>3, <3>2
      <4>2. Ahead[i + 2].part \in 1..4
        BY <1>1, <4>1, UnitTypes
      <4>3. ~(Ahead[i + 2].part \in {2, 4})
        <5>1. Ahead[i + 2].part \in {2, 4} => Ahead[i + 2 - 1].part = Ahead[i + 2].part - 1
          BY <1>3, <4>1 DEF Orderly, Paired
        <5>2. Ahead[i + 2 - 1].part = 2
          BY <2>3, <4>1
        <5> QED
          BY <5>1, <5>2
      <4>4. Ahead[i + 2].part = 1 => Ahead[i].f < Ahead[i + 2].f
        BY <1>3, <4>1 DEF Orderly, Rising
      <4>5. Ahead[i + 2].f = f => Ahead[i + 2].part \in {1, 2}
        BY <4>1
      <4>6. Ahead[i + 2].f # f
        BY <1>1, <2>2, <4>2, <4>3, <4>4, <4>5
      <4> QED
        BY <4>1, <4>6
    <3> QED
      BY <3>1, <3>2
  <2>6. Ahead'[i + 1].f = f /\ Ahead'[i + 1].part = 2
    BY <2>3
  <2> QED
    BY <1>4, <2>4, <2>5, <2>6 DEF Broken
<1>5. CASE Base = f /\ rd.pc = "body"
  <2>1. 1 \in 1..Len(Ahead')
    BY <1>1
  <2>2. Ahead'[1].f # f
    <3>1. CASE Len(Ahead) = 0
      BY <3>1
    <3>2. CASE Len(Ahead) # 0
      <4>1. 1 \in 1..Len(Ahead)
        BY <1>1, <3>2
      <4>2. Ahead[1].f > Base \/ (Ahead[1].f = Base /\ Ahead[1].part \in {3, 4})
        BY <4>1 DEF InStep, PlaceInv, Left
      <4>3. Ahead[1].f # f
        BY <1>1, <1>5, <4>1, <4>2
      <4> QED
        BY <4>1, <4>3
    <3> QED
      BY <3>1, <3>2
  <2> QED
    BY <1>5, <2>1, <2>2 DEF Broken
<1> QED
  BY <1>2, <1>4, <1>5

LEMMA BrokenQuiet ==
  ASSUME IInv, OrderInv, BrokenInv, UNCHANGED <<torn, taken>>, late' \/ ~late,
         relay'.pc = "body" => relay' = relay,
         \/ rd'.pc = "ended"
         \/ late'
         \/ rd'.pc # "ended" /\ Ahead' = Ahead /\ Base' = Base /\ (rd'.pc = "body" <=> rd.pc = "body")
            /\ rd.pc # "ended"
  PROVE  BrokenInv'
<1> SUFFICES ASSUME ~late' PROVE BrokenInv'
  BY DEF BrokenInv
<1>1. RelayUntaken' /\ TornNotTaken'
  BY DEF BrokenInv, RelayUntaken, TornNotTaken
<1>2. ASSUME rd'.pc # "ended" PROVE \A p \in torn' : Broken(p[1])'
  BY <1>2 DEF BrokenInv, Broken
<1> QED
  BY <1>1, <1>2 DEF BrokenInv

\* Two units of frame g are written, into frame f or into none.
LEMMA TornStep ==
  ASSUME IInv, OrderInv, BrokenInv, NEW F \in SUBSET Numbers, NEW g,
         UNCHANGED <<rd, taken, late>>, torn' = torn \cup (F \X {g}),
         \A f \in F : f # g /\ \A i \in 1..Len(taken) : taken[i] # f,
         ~late /\ rd.pc # "ended" =>
           \A f \in F : f > Len(taken) /\ \A i \in 1..Len(Ahead) : Ahead[i].f = f => Ahead[i].part \in {1, 2},
         Len(Ahead') = Len(Ahead) + 2,
         \A i \in 1..Len(Ahead) : Ahead'[i] = Ahead[i], Ahead'[Len(Ahead) + 1].f = g
  PROVE  /\ TornNotTaken'
         /\ ~late /\ rd.pc # "ended" => \A p \in torn' : Broken(p[1])'
<1>1. \A p \in torn' : p \in torn \/ (p[1] \in F /\ p[2] = g)
  OBVIOUS
<1>2. TornNotTaken'
  BY <1>1 DEF BrokenInv, TornNotTaken
<1>3. ASSUME ~late, rd.pc # "ended", NEW p \in torn' PROVE Broken(p[1])'
  <2>1. InStep /\ Base' = Base /\ rd'.pc = rd.pc /\ Len(Ahead) \in Nat
    BY <1>3, AheadUnits DEF OrderInv, Base
  <2>2. \A i \in 1..Len(Ahead) : i \in 1..Len(Ahead') /\ Ahead'[i] = Ahead[i]
    BY <2>1
  <2>3. CASE p \in torn
    <3>1. Broken(p[1])
      BY <1>3, <2>3 DEF BrokenInv
    <3> QED
      BY <2>1, <2>2, <3>1, BrokenStays
  <2>4. CASE p \notin torn
    <3>1. p[1] \in F
      BY <1>1, <2>4
    <3> DEFINE f == p[1]
    <3>2. /\ f \in Numbers /\ f # g /\ f > Len(taken)
          /\ \A i \in 1..Len(Ahead) : Ahead[i].f = f => Ahead[i].part \in {1, 2}
      BY <1>3, <3>1
    <3> HIDE DEF f
    <3>3. Broken(f)'
      BY <2>1, <3>2, OwedBreaks
    <3> QED
      BY <3>3 DEF f
  <2> QED
    BY <2>3, <2>4
<1> QED
  BY <1>2, <1>3

LEMMA BrokenWrites ==
  ASSUME IInv, OrderInv, BrokenInv, ConnPutsHead \/ RelayPutsHead \/ ConnPutsBody \/ RelayPutsBody
  PROVE  BrokenInv'
<1> USE DEF client
<1>1. /\ conn.pc = "body" => conn.f \in Numbers /\ \A i \in 1..Len(taken) : taken[i] # conn.f
      /\ relay.pc = "body" => relay.f \in Numbers
      /\ conn.pc = "body" /\ relay.pc = "body" => conn.f # relay.f
      /\ \A i \in 1..Len(taken) : taken[i] \in Numbers
      /\ Len(frames) \in Nat /\ conn \in Writers /\ relay \in Writers /\ late \in BOOLEAN
      /\ Len(frames) <= MaxFrames
  BY AheadUnits DEF IInv, TypeOK, WriterInv, WriterOK, UnitInv
<1>2. CASE late
  <2>1. late' = late
    BY DEF ConnPutsHead, RelayPutsHead, ConnPutsBody, RelayPutsBody
  <2> QED
    BY <1>2, <2>1 DEF BrokenInv
<1>3. CASE ~late
  <2>1. ~late /\ rd.pc # "ended" =>
          /\ conn.pc = "body" => conn.f > Len(taken)
               /\ \A i \in 1..Len(Ahead) : Ahead[i].f = conn.f => Ahead[i].part \in {1, 2}
          /\ relay.pc = "body" => relay.f > Len(taken)
               /\ \A i \in 1..Len(Ahead) : Ahead[i].f = relay.f => Ahead[i].part \in {1, 2}
    BY DEF OrderInv, InStep, Owes
  <2>2. relay.pc = "body" => \A i \in 1..Len(taken) : taken[i] # relay.f
    BY <1>3 DEF BrokenInv, RelayUntaken
  <2>3. UNCHANGED <<rd, taken, late>>
    BY DEF ConnPutsHead, RelayPutsHead, ConnPutsBody, RelayPutsBody
  <2>4. ASSUME NEW f \in 1..MaxFrames, NEW k \in {1, 3}, stream' = stream \o <<Part(f, k), Part(f, k + 1)>>
        PROVE  /\ Len(Ahead') = Len(Ahead) + 2 /\ \A i \in 1..Len(Ahead) : Ahead'[i] = Ahead[i]
               /\ Ahead'[Len(Ahead) + 1].f = f
    <3>1. /\ Len(Ahead') = Len(Ahead) + 2 /\ \A i \in 1..Len(Ahead) : Ahead'[i] = Ahead[i]
          /\ Ahead'[Len(Ahead) + 1] = Part(f, k)
      BY <2>3, <2>4, PutAhead
    <3> QED
      BY <3>1 DEF Part
  <2>5. \A f \in 1..MaxFrames : 1 \in {1, 3} /\ 3 \in {1, 3} /\ 1 + 1 = 2 /\ 3 + 1 = 4
    OBVIOUS
  <2> DEFINE n == Len(frames) + 1
  <2>6. ASSUME ConnPutsHead \/ RelayPutsHead PROVE
          /\ n \in 1..MaxFrames /\ n \notin Numbers
          /\ stream' = stream \o <<Part(n, 1), Part(n, 1 + 1)>>
    <3>1. Len(frames) < MaxFrames /\ stream' = stream \o <<Part(n, 1), Part(n, 2)>>
      BY <2>6 DEF ConnPutsHead, RelayPutsHead, PutHead
    <3>2. n \in 1..MaxFrames /\ n \notin Numbers
      BY <1>1, <3>1, BoundsAreNumbers DEF Numbers
    <3>3. 1 + 1 = 2
      OBVIOUS
    <3> HIDE DEF n
    <3> QED
      BY <3>1, <3>2, <3>3
  <2>7. CASE ConnPutsHead
    <3> DEFINE F == OpenFrames(relay)
    <3>1. torn' = torn \cup (F \X {n}) /\ relay' = relay
      BY <2>7 DEF ConnPutsHead, PutHead, Tear
    <3>2. /\ F \in SUBSET Numbers
          /\ \A f \in F : f # n /\ \A i \in 1..Len(taken) : taken[i] # f
          /\ ~late /\ rd.pc # "ended" =>
               \A f \in F :
                 f > Len(taken) /\ \A i \in 1..Len(Ahead) : Ahead[i].f = f => Ahead[i].part \in {1, 2}
      BY <1>1, <2>1, <2>2, <2>6, <2>7 DEF OpenFrames
    <3>3. /\ Len(Ahead') = Len(Ahead) + 2 /\ \A i \in 1..Len(Ahead) : Ahead'[i] = Ahead[i]
          /\ Ahead'[Len(Ahead) + 1].f = n
      BY <2>4, <2>5, <2>6, <2>7
    <3> HIDE DEF n, F
    <3>0. torn' = torn \cup (F \X {n})
      BY <3>1
    <3>4. /\ TornNotTaken'
          /\ ~late /\ rd.pc # "ended" => \A p \in torn' : Broken(p[1])'
      BY <2>3, <3>2, <3>3, <3>0, TornStep
    <3>5. RelayUntaken'
      BY <2>2, <2>3, <3>1 DEF RelayUntaken
    <3> QED
      BY <2>3, <3>4, <3>5 DEF BrokenInv
  <2>8. CASE RelayPutsHead
    <3> DEFINE F == OpenFrames(conn)
    <3>1. torn' = torn \cup (F \X {n}) /\ relay' = [relay EXCEPT !.pc = "body", !.f = n]
      BY <2>8 DEF RelayPutsHead, PutHead, Tear
    <3>2. /\ F \in SUBSET Numbers
          /\ \A f \in F : f # n /\ \A i \in 1..Len(taken) : taken[i] # f
          /\ ~late /\ rd.pc # "ended" =>
               \A f \in F :
                 f > Len(taken) /\ \A i \in 1..Len(Ahead) : Ahead[i].f = f => Ahead[i].part \in {1, 2}
      BY <1>1, <2>1, <2>6, <2>8 DEF OpenFrames
    <3>3. /\ Len(Ahead') = Len(Ahead) + 2 /\ \A i \in 1..Len(Ahead) : Ahead'[i] = Ahead[i]
          /\ Ahead'[Len(Ahead) + 1].f = n
      BY <2>4, <2>5, <2>6, <2>8
    <3>4. n \notin Numbers
      BY <2>6, <2>8
    <3> HIDE DEF n, F
    <3>0. torn' = torn \cup (F \X {n})
      BY <3>1
    <3>5. /\ TornNotTaken'
          /\ ~late /\ rd.pc # "ended" => \A p \in torn' : Broken(p[1])'
      BY <2>3, <3>2, <3>3, <3>0, TornStep
    <3>6. RelayUntaken'
      <4>1. relay'.f = n
        BY <1>1, <3>1 DEF Writers
      <4> QED
        BY <1>1, <2>3, <3>4, <4>1 DEF RelayUntaken
    <3> QED
      BY <2>3, <3>5, <3>6 DEF BrokenInv
  <2>9. CASE ConnPutsBody
    <3> DEFINE F == OpenFrames(relay)
    <3> DEFINE g == conn.f
    <3>1. /\ torn' = torn \cup (F \X {g}) /\ relay' = relay /\ conn.pc = "body"
          /\ stream' = stream \o <<Part(g, 3), Part(g, 3 + 1)>>
      BY <2>9 DEF ConnPutsBody, PutBody, Tear
    <3>2. /\ F \in SUBSET Numbers
          /\ \A f \in F : f # g /\ \A i \in 1..Len(taken) : taken[i] # f
          /\ ~late /\ rd.pc # "ended" =>
               \A f \in F :
                 f > Len(taken) /\ \A i \in 1..Len(Ahead) : Ahead[i].f = f => Ahead[i].part \in {1, 2}
      BY <1>1, <2>1, <2>2, <3>1 DEF OpenFrames
    <3>3. g \in 1..MaxFrames
      BY <1>1, <3>1, BoundsAreNumbers DEF Numbers
    <3> HIDE DEF g, F
    <3>4. /\ Len(Ahead') = Len(Ahead) + 2 /\ \A i \in 1..Len(Ahead) : Ahead'[i] = Ahead[i]
          /\ Ahead'[Len(Ahead) + 1].f = g
      BY <2>4, <2>5, <3>1, <3>3
    <3>0. torn' = torn \cup (F \X {g})
      BY <3>1
    <3>5. /\ TornNotTaken'
          /\ ~late /\ rd.pc # "ended" => \A p \in torn' : Broken(p[1])'
      BY <2>3, <3>2, <3>4, <3>0, TornStep
    <3>6. RelayUntaken'
      BY <2>2, <2>3, <3>1 DEF RelayUntaken
    <3> QED
      BY <2>3, <3>5, <3>6 DEF BrokenInv
  <2>10. CASE RelayPutsBody
    <3> DEFINE F == OpenFrames(conn)
    <3> DEFINE g == relay.f
    <3>1. /\ torn' = torn \cup (F \X {g}) /\ relay'.pc = "read" /\ relay.pc = "body"
          /\ stream' = stream \o <<Part(g, 3), Part(g, 3 + 1)>>
      BY <2>10 DEF RelayPutsBody, PutBody, Tear, Rest
    <3>2. /\ F \in SUBSET Numbers
          /\ \A f \in F : f # g /\ \A i \in 1..Len(taken) : taken[i] # f
          /\ ~late /\ rd.pc # "ended" =>
               \A f \in F :
                 f > Len(taken) /\ \A i \in 1..Len(Ahead) : Ahead[i].f = f => Ahead[i].part \in {1, 2}
      BY <1>1, <2>1, <3>1 DEF OpenFrames
    <3>3. g \in 1..MaxFrames
      BY <1>1, <3>1, BoundsAreNumbers DEF Numbers
    <3> HIDE DEF g, F
    <3>4. /\ Len(Ahead') = Len(Ahead) + 2 /\ \A i \in 1..Len(Ahead) : Ahead'[i] = Ahead[i]
          /\ Ahead'[Len(Ahead) + 1].f = g
      BY <2>4, <2>5, <3>1, <3>3
    <3>0. torn' = torn \cup (F \X {g})
      BY <3>1
    <3>5. /\ TornNotTaken'
          /\ ~late /\ rd.pc # "ended" => \A p \in torn' : Broken(p[1])'
      BY <2>3, <3>2, <3>4, <3>0, TornStep
    <3>6. RelayUntaken'
      BY <3>1 DEF RelayUntaken
    <3> QED
      BY <2>3, <3>5, <3>6 DEF BrokenInv
  <2> QED
    BY <2>7, <2>8, <2>9, <2>10
<1> QED
  BY <1>1, <1>2, <1>3

\* The quiet steps of the server.
LEMMA BrokenServer ==
  ASSUME IInv, OrderInv, BrokenInv,
         \/ HearHello \/ HearEcho \/ HearPacket \/ HearBad \/ ConnLocks \/ ConnFails \/ ConnCloses
         \/ RelayPicks \/ RelayLocks \/ RelayFails \/ UdpPacket \/ Reap \/ Close
  PROVE  BrokenInv'
<1>1. UNCHANGED <<frames, torn, stream, taken, late, rd, kind>> /\ (relay'.pc = "body" => relay' = relay)
  BY QuietServer
<1>2. Ahead' = Ahead /\ Base' = Base
  BY <1>1 DEF Ahead, Base
<1>3. late' \/ ~late'
  BY <1>1 DEF IInv, TypeOK
<1> QED
  BY <1>1, <1>2, <1>3, BrokenQuiet DEF BrokenInv

LEMMA BrokenClient ==
  ASSUME IInv, OrderInv, BrokenInv, Ask \/ Send \/ ReadUnit \/ Timeout \/ Eof
  PROVE  BrokenInv'
<1> USE DEF server
<1>1. /\ UNCHANGED <<kind, taken, torn, relay>> /\ (late => late')
      /\ late \in BOOLEAN
  BY DEF Ask, Send, ReadUnit, Timeout, Eof, IInv, TypeOK
<1>2. /\ Idle.pc = "idle" /\ NewRead.pc = "head" /\ Ended.pc = "ended"
      /\ Idle.got = <<>> /\ NewRead.got = <<>>
  BY DEF Idle, NewRead, Ended
<1>3. \/ rd'.pc = "ended"
      \/ late'
      \/ rd' = rd /\ stream' = stream
      \/ rd'.pc # "ended" /\ Ahead' = Ahead /\ Base' = Base /\ (rd'.pc = "body" <=> rd.pc = "body")
         /\ rd.pc # "ended"
  <2>1. CASE Ask
    <3>1. stream' = stream /\ rd = Idle /\ rd' = NewRead
      BY <2>1 DEF Ask
    <3> QED
      BY <1>1, <1>2, <3>1 DEF Ahead, Base
  <2>2. CASE Send
    BY <2>2 DEF Send
  <2>3. CASE Eof
    BY <1>2, <2>3 DEF Eof, End
  <2>4. CASE Timeout
    <3>1. CASE ~(kind = "tunnel" /\ InSession)
      BY <1>2, <2>4, <3>1 DEF Timeout, End
    <3>2. CASE kind = "tunnel" /\ InSession
      <4>1. rd' = NewRead /\ late' = (late \/ rd # NewRead) /\ stream' = stream
        BY <2>4, <3>2 DEF Timeout
      <4> QED
        BY <4>1
    <3> QED
      BY <3>1, <3>2
  <2>5. CASE ReadUnit
    <3>1. /\ rd.pc \in {"head", "body"} /\ stream # <<>>
          /\ rd' = [rd EXCEPT !.got = Append(@, Head(stream))] /\ stream' = Tail(stream)
      BY <2>5 DEF ReadUnit
    <3>2. rd.got \in Seq(Units) /\ stream \in Seq(Units)
      BY AheadUnits
    <3>3. rd'.got = Append(rd.got, Head(stream)) /\ rd'.pc = rd.pc
      <4>1. rd \in [pc : {"idle", "head", "body", "ended"}, need : Nat, got : Seq(Units)]
        BY DEF IInv, TypeOK
      <4> QED
        BY <3>1, <4>1
    <3>4. Ahead' = Ahead /\ Base' = Base
      BY <1>1, <3>1, <3>2, <3>3, MoveUnit DEF Ahead, Base
    <3> QED
      BY <3>1, <3>3, <3>4
  <2> QED
    BY <2>1, <2>2, <2>3, <2>4, <2>5
<1>4. CASE rd' = rd /\ stream' = stream
  <2>1. Ahead' = Ahead /\ Base' = Base
    BY <1>1, <1>4 DEF Ahead, Base
  <2> QED
    BY <1>1, <1>4, <2>1, BrokenQuiet
<1> QED
  BY <1>1, <1>3, <1>4, BrokenQuiet

\* A broken frame that is not the next one stays so when two units are read.
LEMMA BrokenLater ==
  ASSUME NEW f, NEW i \in 1..Len(Ahead), Ahead \in Seq(Units), Ahead[i].f = f, Ahead[i].part = 2,
         i + 1 \in 1..Len(Ahead), Ahead[i + 1].f # f, Len(Ahead') = Len(Ahead) - 2,
         \A j \in 1..Len(Ahead') : Ahead'[j] = Ahead[j + 2], i > 2, Base' < f
  PROVE  Broken(f)'
<1> DEFINE k == i - 2
<1>1. /\ Len(Ahead) \in Nat /\ k \in 1..Len(Ahead') /\ k + 1 \in 1..Len(Ahead')
      /\ k + 2 = i /\ k + 1 + 2 = i + 1
  OBVIOUS
<1> HIDE DEF k
<1>2. Ahead'[k].f = f /\ Ahead'[k].part = 2 /\ Ahead'[k + 1].f # f
  BY <1>1
<1> QED
  BY <1>1, <1>2 DEF Broken

LEMMA BrokenReadHead ==
  ASSUME IInv, OrderInv, BrokenInv, ReadHead
  PROVE  BrokenInv'
<1>1. CASE late
  BY <1>1 DEF BrokenInv, ReadHead
<1>2. CASE ~late
  <2>1. /\ InStep /\ UNCHANGED <<taken, torn, relay, late>>
        /\ rd' = [pc |-> "body", need |-> 2, got |-> <<>>]
        /\ Base = Len(taken) /\ Base' = Base + 1
        /\ Ahead # <<>> /\ Ahead[1].part = 1 /\ Ahead[1].f = Base + 1
        /\ Len(Ahead') = Len(Ahead) - 2
        /\ \A i \in 1..Len(Ahead') : Ahead'[i] = Ahead[i + 2]
    BY <1>2, HeadRead
  <2>2. Ahead \in Seq(Units) /\ Len(Ahead) \in Nat /\ Base \in Nat /\ rd'.pc = "body" /\ rd.pc = "head"
    BY <2>1, AheadUnits DEF ReadHead
  <2>3. 2 \in 1..Len(Ahead) /\ Ahead[2].f = Base + 1
    <3>1. Paired(Ahead)
      BY <2>1 DEF InStep, Orderly
    <3>2. 2 \in 1..Len(Ahead) /\ Ahead[2].f = Ahead[1].f
      BY <2>1, <2>2, <3>1, FirstPair
    <3> QED
      BY <2>1, <3>2
  <2>4. ASSUME NEW p \in torn' PROVE Broken(p[1])'
    <3> DEFINE f == p[1]
    <3>1. Broken(f)
      BY <1>2, <2>1, <2>2, <2>4 DEF BrokenInv
    <3> HIDE DEF f
    <3>2. PICK i \in 1..Len(Ahead) : /\ Base < f /\ Ahead[i].f = f /\ Ahead[i].part = 2
                                     /\ i + 1 \in 1..Len(Ahead) /\ Ahead[i + 1].f # f
      BY <2>2, <3>1 DEF Broken
    <3>3. i # 1 /\ f \in Int
      BY <2>1, <2>2, <3>2, UnitTypes
    <3>4. CASE f = Base + 1
      <4>1. i = 2
        <5>1. i - 1 \in 1..Len(Ahead) /\ Ahead[i - 1].f = f /\ Ahead[i - 1].part = 1
          BY <2>1, <3>2 DEF InStep, Orderly, Paired
        <5>2. ~(1 < i - 1)
          <6>1. 1 \in 1..Len(Ahead) /\ Ahead[1].f = f
            BY <2>1, <2>3, <3>4
          <6>2. 1 < i - 1 => Ahead[1].f < Ahead[i - 1].f
            BY <2>1, <5>1, <6>1 DEF InStep, Orderly, Rising
          <6> QED
            BY <3>3, <5>1, <6>1, <6>2
        <5> QED
          BY <3>3, <5>1, <5>2
      <4>2. 1 \in 1..Len(Ahead') /\ Ahead'[1] = Ahead[3] /\ Ahead[3].f # f
        BY <2>1, <2>2, <3>2, <4>1
      <4>3. Base' = f
        BY <2>1, <3>4
      <4> QED
        BY <2>2, <4>2, <4>3 DEF Broken, f
    <3>5. CASE f # Base + 1
      <4>1. i > 2 /\ Base' < f
        BY <2>1, <2>2, <2>3, <3>2, <3>3, <3>5
      <4>2. Broken(f)'
        BY <2>1, <2>2, <3>2, <4>1, BrokenLater
      <4> QED
        BY <4>2 DEF f
    <3> QED
      BY <3>4, <3>5
  <2>5. RelayUntaken' /\ TornNotTaken'
    BY <1>2, <2>1 DEF BrokenInv, RelayUntaken, TornNotTaken
  <2> QED
    BY <2>4, <2>5 DEF BrokenInv
<1> QED
  BY <1>1, <1>2 DEF IInv, TypeOK

LEMMA BrokenReadBody ==
  ASSUME IInv, OrderInv, BrokenInv, ReadBody
  PROVE  BrokenInv'
<1>1. CASE late
  BY <1>1 DEF BrokenInv, ReadBody
<1>2. CASE ~late
  <2>1. InStep /\ rd.pc = "body" /\ UNCHANGED <<torn, relay, late>>
    BY <1>2, BodyRead
  <2>2. CASE rd'.pc = "ended" /\ taken' = taken
    BY <1>2, <2>1, <2>2 DEF BrokenInv, RelayUntaken, TornNotTaken
  <2>3. CASE /\ rd' = IF kind = "tunnel" THEN NewRead ELSE Idle
             /\ Base = Len(taken) + 1 /\ Base' = Base /\ taken' = Append(taken, Base)
             /\ Ahead # <<>> /\ Ahead[1].part = 3 /\ Ahead[1].f = Base
             /\ Len(Ahead') = Len(Ahead) - 2
             /\ \A i \in 1..Len(Ahead') : Ahead'[i] = Ahead[i + 2]
    <3>1. /\ Ahead \in Seq(Units) /\ Len(Ahead) \in Nat /\ taken \in Seq(1..MaxFrames)
          /\ Len(taken) \in Nat /\ Base \in Nat
      BY <2>3, AheadUnits
    <3>2. 1 \in 1..Len(Ahead) /\ 2 \in 1..Len(Ahead) /\ Ahead[2].f = Base
      <4>1. Paired(Ahead)
        BY <2>1 DEF InStep, Orderly
      <4>2. 2 \in 1..Len(Ahead) /\ Ahead[2].f = Ahead[1].f
        BY <2>3, <3>1, <4>1, FirstPair
      <4> QED
        BY <2>3, <3>1, <4>2
    <3>3. rd.pc # "ended" /\ (rd'.pc # "body")
      BY <2>1, <2>3 DEF NewRead, Idle
    <3>4. \A p \in torn : Broken(p[1])
      BY <1>2, <3>3 DEF BrokenInv
    <3>5. ASSUME NEW p \in torn PROVE p[1] # Base /\ Broken(p[1])'
      <4> DEFINE f == p[1]
      <4>1. Broken(f)
        BY <3>4
      <4> HIDE DEF f
      <4>2. PICK i \in 1..Len(Ahead) : /\ Base < f /\ Ahead[i].f = f /\ Ahead[i].part = 2
                                       /\ i + 1 \in 1..Len(Ahead) /\ Ahead[i + 1].f # f
        BY <2>3, <3>2, <4>1 DEF Broken
      <4>3. i > 2 /\ f # Base /\ Base' < f
        BY <2>3, <3>1, <3>2, <4>2
      <4>4. Broken(f)'
        BY <2>3, <3>1, <4>2, <4>3, BrokenLater
      <4> QED
        BY <4>3, <4>4 DEF f
    <3>6. \A i \in 1..Len(taken') : taken'[i] = Base \/ (i \in 1..Len(taken) /\ taken'[i] = taken[i])
      BY <2>3, <3>1
    <3>7. TornNotTaken'
      BY <1>2, <2>1, <3>5, <3>6 DEF BrokenInv, TornNotTaken
    <3>8. RelayUntaken'
      <4>1. relay.pc = "body" => relay.f # Base
        <5>1. relay.pc = "body" => (Ahead[1].f = relay.f => Ahead[1].part \in {1, 2})
          BY <2>1, <3>2 DEF InStep, Owes
        <5>2. Ahead[1].f = Base /\ ~(Ahead[1].part \in {1, 2})
          BY <2>3
        <5> QED
          BY <5>1, <5>2
      <4> QED
        BY <1>2, <2>1, <3>6, <4>1 DEF BrokenInv, RelayUntaken
    <3> QED
      BY <2>1, <3>5, <3>7, <3>8 DEF BrokenInv
  <2> QED
    BY <1>2, <2>2, <2>3, BodyRead
<1> QED
  BY <1>1, <1>2 DEF IInv, TypeOK

LEMMA InitBroken == Init => BrokenInv
BY DEF Init, Rest, BrokenInv, RelayUntaken, TornNotTaken

LEMMA StepBroken == IInv /\ OrderInv /\ BrokenInv /\ [Next]_vars => BrokenInv'
<1> SUFFICES ASSUME IInv, OrderInv, BrokenInv, [Next]_vars PROVE BrokenInv'
  OBVIOUS
<1>1. CASE UNCHANGED vars
  <2>1. UNCHANGED <<torn, stream, taken, late, rd, relay>>
    BY <1>1 DEF vars, output, client
  <2>2. Ahead' = Ahead /\ Base' = Base /\ (late' \/ ~late)
    BY <2>1 DEF Ahead, Base, IInv, TypeOK
  <2> QED
    BY <2>1, <2>2, BrokenQuiet DEF BrokenInv
<1>2. CASE Next
  BY <1>2, BrokenServer, BrokenWrites, BrokenClient, BrokenReadHead, BrokenReadBody DEF Next
<1> QED
  BY <1>1, <1>2

\* No frame into which another was written is accepted by a client in whose
\* frames no deadline fell (failConn, sendSecurePayload, Receive): what the
\* client finds where its body is due ends the session.
THEOREM TornNeverTaken == Spec => []TornNotTaken
<1>1. OrderInv /\ BrokenInv => TornNotTaken
  BY DEF BrokenInv, TornNotTaken
<1> QED
  BY <1>1, InitOrder, StepOrder, InitBroken, StepBroken, Invariant, PTL DEF Spec
=============================================================================
