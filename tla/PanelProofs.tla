---------------------------- MODULE PanelProofs ----------------------------
(* What holds of the panel for any number of requests, keys and tokens.    *)
EXTENDS Panel, TLAPS

Saving(r) == pc[r] \in {"open", "write"}

\* The mutex is held by the one request that saves; there is none before NewStore
\* is done.
MutexInv ==
  /\ \A r \in Reqs : Saving(r) <=> mutex = r
  /\ boot # "up" => mutex = None /\ \A r \in Reqs : pc[r] = "idle"

\* What is being saved is the state in memory, and nothing is known yet of the
\* slot it changes.
SaveInv ==
  /\ boot \in {"down", "open", "write"} => mem = NewState
  /\ boot \in {"open", "write"} => \A s \in Slots : acked[s] = "unknown"
  /\ \A r \in Reqs : Saving(r) =>
       /\ Changes(op[r])
       /\ buf[r] = mem
       /\ mem[op[r].slot] = After(op[r], mem)[op[r].slot]
       /\ acked[op[r].slot] = "unknown"

\* A request with a dead token does not get past authOnly.
StaleInv ==
  \A r \in Reqs : stale[r] =>
    /\ pc[r] \in {"auth", "forget"}
    /\ tok[r] \in Tokens
    /\ sessions[tok[r]] \in {"expired", "gone"}

IInv == TypeOK /\ MutexInv /\ SaveInv /\ StaleInv /\ RestartKeeps /\ AckedKept

-----------------------------------------------------------------------------

\* The state NewStore starts from is one of the states.
LEMMA NewStateTyped == NewState \in States
BY KeysAreKeys DEF NewState, States, Slots, Kept

\* An operation leads from a state to a state and touches its slot alone.
LEMMA AfterTyped ==
  ASSUME NEW o \in Ops, Changes(o), NEW st \in States
  PROVE  /\ After(o, st) \in States
         /\ \A s \in Slots : s # o.slot => After(o, st)[s] = st[s]
         /\ After(o, st)[o.slot] = IF o.slot = "settings" THEN Applied(o.value) ELSE o.value
         /\ o.slot \in Slots
BY KeysAreKeys
   DEF Ops, Changes, States, Slots, Kept, Asked, After, Applied, WithDefaults

\* What is loaded is a state, and of a saved state the state itself.
LEMMA LoadedTyped ==
  ASSUME NEW file \in Files
  PROVE  /\ Loaded(file) \in States
         /\ file.kind = "whole" => Loaded(file) = file.state
         /\ file.kind # "whole" => Loaded(file) = NewState
<1>1. file.state["settings"] \in Kept /\ file.state \in States
  BY DEF Files, States
<1>2. WithDefaults(file.state["settings"]) = file.state["settings"]
  BY <1>1 DEF WithDefaults, Kept
<1>3. [file.state EXCEPT !["settings"] = WithDefaults(@)] = file.state
  BY <1>1, <1>2 DEF States
<1> QED
  BY <1>1, <1>3, NewStateTyped DEF Loaded

\* The kinds of file the panel writes.
LEMMA FileTyped ==
  /\ \A kind \in {"absent", "empty", "torn"} :
       File(kind) \in Files /\ File(kind).kind = kind
  /\ \A st \in States : Whole(st) \in Files /\ Whole(st).kind = "whole" /\ Whole(st).state = st
BY NewStateTyped DEF File, Whole, Files

\* The invariant holds before the panel is started.
LEMMA InitIInv == Init => IInv
<1> SUFFICES ASSUME Init PROVE IInv
  OBVIOUS
<1>1. disk \in Files /\ disk.kind = "absent" /\ mem \in States
  BY NewStateTyped, FileTyped DEF Init
<1>2. /\ pc \in [Reqs -> {"idle", "auth", "forget", "act", "open", "write"}]
      /\ \A r \in Reqs : pc[r] = "idle" /\ stale[r] = FALSE
  BY DEF Init
<1>3. op \in [Reqs -> Ops]
  BY DEF Init, Ops, Read
<1>4. buf \in [Reqs -> States] /\ tok \in [Reqs -> Tokens \cup {None}]
  BY NewStateTyped DEF Init
<1>5. /\ sessions \in [Tokens -> {"new", "live", "expired", "gone"}]
      /\ stale \in [Reqs -> BOOLEAN]
  BY DEF Init
<1>6. /\ acked \in [Slots -> Items \cup Kept \cup {"none", "unknown"}]
      /\ \A s \in Slots : acked[s] = "unknown"
  BY DEF Init
<1>7. TypeOK
  BY <1>1, <1>2, <1>3, <1>4, <1>5, <1>6 DEF Init, TypeOK
<1>8. MutexInv /\ SaveInv /\ StaleInv
  BY <1>2, <1>6, NoneIsNone DEF Init, MutexInv, SaveInv, StaleInv, Saving
<1>9. RestartKeeps /\ AckedKept
  BY <1>1, <1>6 DEF Init, RestartKeeps, AckedKept
<1> QED
  BY <1>7, <1>8, <1>9 DEF IInv

-----------------------------------------------------------------------------
(* Requests on their way to the store.                                     *)

\* A request that ends leaves nothing behind, and the others as they were.
LEMMA DoneTyped ==
  ASSUME TypeOK, NEW r \in Reqs, Done(r)
  PROVE  /\ pc' \in [Reqs -> {"idle", "auth", "forget", "act", "open", "write"}]
         /\ op' \in [Reqs -> Ops]
         /\ tok' \in [Reqs -> Tokens \cup {None}]
         /\ buf' \in [Reqs -> States]
         /\ stale' \in [Reqs -> BOOLEAN]
         /\ pc'[r] = "idle" /\ stale'[r] = FALSE
         /\ \A q \in Reqs \ {r} : /\ pc'[q] = pc[q] /\ op'[q] = op[q] /\ tok'[q] = tok[q]
                                 /\ buf'[q] = buf[q] /\ stale'[q] = stale[q]
<1>1. Read \in Ops
  BY DEF Read, Ops
<1> QED
  BY <1>1, NewStateTyped DEF Done, TypeOK

\* A step of a request outside its save, which leaves the store alone.
LEMMA QuietIInv ==
  ASSUME IInv, NEW r \in Reqs, ~Saving(r), ~Saving(r)', TypeOK', StaleInv',
         UNCHANGED <<boot, mem, disk, mutex, acked, failed>>,
         boot = "up" \/ pc'[r] = "idle",
         \A q \in Reqs \ {r} : pc'[q] = pc[q] /\ op'[q] = op[q] /\ buf'[q] = buf[q]
  PROVE  IInv'
<1>1. \A q \in Reqs : Saving(q)' <=> Saving(q)
  BY DEF Saving
<1>2. MutexInv'
  BY <1>1 DEF IInv, MutexInv
<1>3. \A q \in Reqs : Saving(q)' => op'[q] = op[q] /\ buf'[q] = buf[q]
  BY DEF Saving
<1>4. SaveInv'
  <2> SUFFICES ASSUME NEW q \in Reqs, Saving(q)'
               PROVE  /\ Changes(op[q])
                      /\ buf[q] = mem
                      /\ mem[op[q].slot] = After(op[q], mem)[op[q].slot]
                      /\ acked[op[q].slot] = "unknown"
    BY <1>3 DEF IInv, SaveInv, Changes, After, Applied, WithDefaults
  <2> QED
    BY <1>1 DEF IInv, SaveInv
<1>5. RestartKeeps' /\ AckedKept'
  BY DEF IInv, RestartKeeps, AckedKept, Loaded, WithDefaults
<1> QED
  BY <1>2, <1>4, <1>5 DEF IInv

\* What a request does before its save, and one that makes none.
LEMMA RequestIInv ==
  ASSUME IInv, NEW r \in Reqs,
         \/ \E o \in Ops, t \in Tokens : Arrive(r, o, t)
         \/ Auth(r) \/ Refuse(r) \/ FindExpired(r) \/ Forget(r) \/ Answer(r) \/ Logout(r)
  PROVE  IInv'
<1> USE DEF IInv
<1>0. pc[r] # "idle" => boot = "up"
  BY DEF MutexInv
<1>1. ASSUME NEW o \in Ops, NEW t \in Tokens, Arrive(r, o, t) PROVE IInv'
  <2>1. TypeOK'
    BY <1>1 DEF Arrive, TypeOK
  <2>2. pc'[r] = "auth" /\ tok'[r] = t
        /\ stale'[r] = (sessions[t] \in {"expired", "gone"})
    BY <1>1 DEF Arrive, TypeOK
  <2>3. \A q \in Reqs \ {r} : /\ pc'[q] = pc[q] /\ op'[q] = op[q] /\ tok'[q] = tok[q]
                              /\ buf'[q] = buf[q] /\ stale'[q] = stale[q]
    BY <1>1 DEF Arrive, TypeOK
  <2>4. StaleInv'
    <3> SUFFICES ASSUME NEW q \in Reqs, stale'[q]
                 PROVE  /\ pc'[q] \in {"auth", "forget"}
                        /\ tok'[q] \in Tokens
                        /\ sessions[tok'[q]] \in {"expired", "gone"}
      BY <1>1 DEF Arrive, StaleInv
    <3>1. CASE q = r
      BY <2>2, <3>1
    <3>2. CASE q # r
      BY <2>3, <3>2 DEF StaleInv
    <3> QED
      BY <3>1, <3>2
  <2>5. boot = "up" /\ ~Saving(r) /\ UNCHANGED <<boot, mem, disk, mutex, acked, failed>>
    BY <1>1 DEF Arrive, Saving
  <2>6. ~Saving(r)'
    BY <2>2 DEF Saving
  <2> QED
    BY <2>1, <2>3, <2>4, <2>5, <2>6, QuietIInv
<1>2. CASE Auth(r)
  <2>1. TypeOK'
    BY <1>2 DEF Auth, TypeOK, history
  <2>2. pc'[r] = "act" /\ \A q \in Reqs \ {r} : pc'[q] = pc[q]
    BY <1>2 DEF Auth, TypeOK
  <2>3. StaleInv'
    BY <1>2, <2>2 DEF Auth, Valid, StaleInv, history
  <2> QED
    BY <1>0, <1>2, <2>1, <2>2, <2>3, QuietIInv DEF Auth, Saving, history
<1>3. CASE Refuse(r)
  <2>1. TypeOK'
    BY <1>3, DoneTyped DEF Refuse, TypeOK
  <2>2. StaleInv'
    BY <1>3, DoneTyped, ZenonT(30) DEF Refuse, StaleInv
  <2> QED
    BY <1>3, <2>1, <2>2, DoneTyped, QuietIInv DEF Refuse, Saving
<1>4. CASE FindExpired(r)
  <2>1. TypeOK'
    BY <1>4 DEF FindExpired, TypeOK, history
  <2>2. pc'[r] = "forget" /\ \A q \in Reqs \ {r} : pc'[q] = pc[q]
    BY <1>4 DEF FindExpired, TypeOK
  <2>3. StaleInv'
    BY <1>4, <2>2 DEF FindExpired, StaleInv, history
  <2> QED
    BY <1>0, <1>4, <2>1, <2>2, <2>3, QuietIInv DEF FindExpired, Saving, history
<1>5. CASE Forget(r)
  <2>1. TypeOK'
    BY <1>5, DoneTyped DEF Forget, TypeOK
  <2>2. \A t \in Tokens : sessions'[t] \in {sessions[t], "gone"}
    BY <1>5 DEF Forget, TypeOK
  <2>3. StaleInv'
    <3> SUFFICES ASSUME NEW q \in Reqs, stale'[q]
                 PROVE  /\ pc'[q] \in {"auth", "forget"}
                        /\ tok'[q] \in Tokens
                        /\ sessions'[tok'[q]] \in {"expired", "gone"}
      BY DEF StaleInv
    <3>1. q # r /\ pc'[q] = pc[q] /\ tok'[q] = tok[q] /\ stale[q]
      BY <1>5, DoneTyped DEF Forget
    <3>2. /\ pc[q] \in {"auth", "forget"}
          /\ tok[q] \in Tokens
          /\ sessions[tok[q]] \in {"expired", "gone"}
      BY <3>1 DEF StaleInv
    <3> QED
      BY <1>5, <3>1, <3>2 DEF Forget, TypeOK
  <2> QED
    BY <1>5, <2>1, <2>3, DoneTyped, QuietIInv DEF Forget, Saving
<1>6. CASE Answer(r)
  <2>1. TypeOK'
    BY <1>6, DoneTyped DEF Answer, TypeOK
  <2>2. StaleInv'
    BY <1>6, DoneTyped DEF Answer, StaleInv
  <2> QED
    BY <1>6, <2>1, <2>2, DoneTyped, QuietIInv DEF Answer, Saving
<1>7. CASE Logout(r)
  <2>1. TypeOK'
    BY <1>7, DoneTyped DEF Logout, TypeOK
  <2>2. StaleInv'
    <3> SUFFICES ASSUME NEW q \in Reqs, stale'[q]
                 PROVE  /\ pc'[q] \in {"auth", "forget"}
                        /\ tok'[q] \in Tokens
                        /\ sessions'[tok'[q]] \in {"expired", "gone"}
      BY DEF StaleInv
    <3>1. q # r /\ pc'[q] = pc[q] /\ tok'[q] = tok[q] /\ stale[q]
      BY <1>7, DoneTyped DEF Logout
    <3>2. /\ pc[q] \in {"auth", "forget"}
          /\ tok[q] \in Tokens
          /\ sessions[tok[q]] \in {"expired", "gone"}
      BY <3>1 DEF StaleInv
    <3> QED
      BY <1>7, <3>1, <3>2 DEF Logout, TypeOK
  <2> QED
    BY <1>7, <2>1, <2>2, DoneTyped, QuietIInv DEF Logout, Saving
<1> QED
  BY <1>1, <1>2, <1>3, <1>4, <1>5, <1>6, <1>7

-----------------------------------------------------------------------------
(* The store.                                                              *)

\* The operation is done in memory, under the mutex.
LEMMA ChangeIInv == ASSUME IInv, NEW r \in Reqs, Change(r) PROVE IInv'
<1> USE DEF IInv
<1>1. /\ Changes(op[r]) /\ op[r] \in Ops /\ mutex = None /\ boot = "up" /\ pc[r] = "act"
      /\ \A q \in Reqs : ~Saving(q)
  BY NoneIsNone DEF Change, MutexFree, TypeOK, MutexInv, Saving
<1>2. /\ mem' \in States
      /\ \A s \in Slots : s # op[r].slot => mem'[s] = mem[s]
      /\ op[r].slot \in Slots
  BY <1>1, AfterTyped DEF Change, TypeOK
<1>3. mem'[op[r].slot] = After(op[r], mem')[op[r].slot]
  BY <1>1, <1>2, AfterTyped DEF Change, TypeOK
<1>4. /\ pc' \in [Reqs -> {"idle", "auth", "forget", "act", "open", "write"}]
      /\ pc'[r] = "open" /\ \A q \in Reqs \ {r} : pc'[q] = pc[q]
  BY DEF Change, TypeOK
<1>5. buf' \in [Reqs -> States] /\ buf'[r] = mem'
  BY <1>2 DEF Change, Bytes, TypeOK
<1>6. /\ acked' \in [Slots -> Items \cup Kept \cup {"none", "unknown"}]
      /\ acked'[op[r].slot] = "unknown"
      /\ \A s \in Slots : s # op[r].slot => acked'[s] = acked[s]
  BY <1>2 DEF Change, TypeOK
<1>7. TypeOK'
  BY <1>2, <1>4, <1>5, <1>6 DEF Change, TypeOK
<1>8. MutexInv'
  BY <1>1, <1>4 DEF Change, MutexInv, Saving
<1>9. SaveInv'
  BY <1>1, <1>3, <1>4, <1>5, <1>6 DEF Change, SaveInv, Saving, Changes
<1>10. StaleInv'
  BY <1>1, <1>4 DEF Change, StaleInv
<1>11. RestartKeeps'
  BY NoneIsNone DEF Change, RestartKeeps
<1>12. AckedKept'
  <2> SUFFICES ASSUME NEW s \in Slots, acked'[s] # "unknown"
               PROVE  /\ boot' = "up" => mem'[s] = acked'[s]
                      /\ disk'.kind = "whole" => Loaded(disk')[s] = acked'[s]
    BY DEF AckedKept
  <2>1. mem'[s] = mem[s] /\ acked'[s] = acked[s] /\ boot' = boot /\ disk' = disk
    BY <1>2, <1>6 DEF Change
  <2> QED
    BY <2>1 DEF AckedKept, Loaded, WithDefaults
<1> QED
  BY <1>7, <1>8, <1>9, <1>10, <1>11, <1>12

\* Who saves holds the mutex alone.
LEMMA SavesAlone ==
  ASSUME IInv, NEW r \in Reqs, Saving(r)
  PROVE  /\ mutex = r /\ boot = "up"
         /\ \A q \in Reqs \ {r} : ~Saving(q)
         /\ op[r] \in Ops /\ op[r].slot \in Slots /\ buf[r] = mem
BY DEF IInv, TypeOK, MutexInv, SaveInv, Saving, Changes

\* The end of a save, good or bad, gives the mutex back.
LEMMA SavedIInv ==
  ASSUME IInv, NEW r \in Reqs, Saving(r), Done(r), mutex' = None,
         UNCHANGED <<boot, mem, sessions>>, disk' \in Files, failed' \in BOOLEAN,
         acked' \in [Slots -> Items \cup Kept \cup {"none", "unknown"}],
         RestartKeeps', AckedKept'
  PROVE  IInv'
<1> USE DEF IInv
<1>1. TypeOK'
  BY DoneTyped DEF TypeOK
<1>2. MutexInv'
  BY SavesAlone, DoneTyped, NoneIsNone DEF MutexInv, Saving
<1>3. SaveInv'
  BY SavesAlone, DoneTyped DEF SaveInv, Saving
<1>4. StaleInv'
  BY DoneTyped, ZenonT(30) DEF StaleInv
<1> QED
  BY <1>1, <1>2, <1>3, <1>4

\* Every step of a save.
LEMMA SaveIInv ==
  ASSUME IInv, NEW r \in Reqs, OpenFails(r) \/ Truncate(r) \/ WriteFails(r) \/ Written(r)
  PROVE  IInv'
<1> USE DEF IInv
<1>0. Saving(r)
  BY DEF Saving, OpenFails, Truncate, WriteFails, Written
<1>1. CASE OpenFails(r)
  <2>1. RestartKeeps' /\ AckedKept'
    BY <1>1 DEF OpenFails, RestartKeeps, AckedKept, Loaded, WithDefaults
  <2> QED
    BY <1>0, <1>1, <2>1, SavedIInv DEF OpenFails, Unlocked, TypeOK
<1>2. CASE Truncate(r)
  <2>1. disk' \in Files /\ disk'.kind # "whole"
    BY <1>2, FileTyped DEF Truncate
  <2>2. /\ pc' \in [Reqs -> {"idle", "auth", "forget", "act", "open", "write"}]
        /\ pc'[r] = "write" /\ \A q \in Reqs \ {r} : pc'[q] = pc[q]
    BY <1>2 DEF Truncate, TypeOK
  <2>3. TypeOK'
    BY <1>2, <2>1, <2>2 DEF Truncate, TypeOK, history
  <2>4. \A q \in Reqs : Saving(q)' <=> Saving(q)
    BY <1>0, <2>2 DEF Saving
  <2>5. MutexInv'
    BY <1>0, <1>2, <2>4, SavesAlone DEF Truncate, MutexInv
  <2>6. SaveInv'
    BY <1>2, <2>4 DEF Truncate, SaveInv, history, Changes, After, Applied, WithDefaults
  <2>7. StaleInv'
    BY <1>0, <1>2, <2>2 DEF Truncate, StaleInv, history, Saving
  <2>8. RestartKeeps'
    BY <1>0, <1>2, SavesAlone, NoneIsNone DEF Truncate, RestartKeeps
  <2>9. AckedKept'
    BY <1>2, <2>1 DEF Truncate, AckedKept, history
  <2> QED
    BY <2>3, <2>5, <2>6, <2>7, <2>8, <2>9
<1>3. CASE WriteFails(r)
  <2>1. disk' \in Files /\ disk'.kind # "whole"
    BY <1>3, FileTyped DEF WriteFails
  <2>2. RestartKeeps' /\ AckedKept'
    BY <1>3, <2>1 DEF WriteFails, RestartKeeps, AckedKept
  <2> QED
    BY <1>0, <1>3, <2>1, <2>2, SavedIInv DEF WriteFails, Unlocked, TypeOK
<1>4. CASE Written(r)
  <2>1. disk' \in Files /\ Loaded(disk') = mem /\ mem' = mem /\ boot' = "up"
    BY <1>0, <1>4, SavesAlone, FileTyped, LoadedTyped DEF Written, TypeOK
  <2>2. /\ op[r] \in Ops /\ Changes(op[r]) /\ op[r].slot \in Slots
        /\ mem[op[r].slot] = After(op[r], mem)[op[r].slot]
    BY <1>0, SavesAlone DEF SaveInv
  <2>3. mem[op[r].slot] = IF op[r].slot = "settings"
                            THEN WithDefaults(op[r].value) ELSE op[r].value
    BY <2>2, AfterTyped DEF TypeOK, Applied
  <2>4. mem \in [Slots -> Items \cup {"none"} \cup Kept]
    BY DEF TypeOK, States
  <2>5. acked' = [acked EXCEPT ![op[r].slot] = mem[op[r].slot]]
    BY <1>4, <2>3 DEF Written
  <2>6. acked' \in [Slots -> Items \cup Kept \cup {"none", "unknown"}]
    BY <2>2, <2>4, <2>5 DEF TypeOK
  <2>7. \A s \in Slots : acked'[s] # "unknown" => mem[s] = acked'[s]
    BY <1>0, <2>2, <2>5, SavesAlone DEF AckedKept, TypeOK
  <2>8. RestartKeeps' /\ AckedKept'
    BY <2>1, <2>7 DEF RestartKeeps, AckedKept, Loaded, WithDefaults
  <2> QED
    BY <1>0, <1>4, <2>1, <2>6, <2>8, SavedIInv DEF Written
<1> QED
  BY <1>1, <1>2, <1>3, <1>4

-----------------------------------------------------------------------------
(* The process.                                                            *)

\* NewStore reads the file.
LEMMA LoadIInv == ASSUME IInv, Load PROVE IInv'
<1> USE DEF IInv
<1>1. mem' = Loaded(disk) /\ mem' \in States /\ disk' = disk /\ disk \in Files
  BY LoadedTyped DEF Load, TypeOK
<1>2. acked' \in [Slots -> Items \cup Kept \cup {"none", "unknown"}]
  BY DEF Load, TypeOK
<1>3. TypeOK'
  BY <1>1, <1>2 DEF Load, TypeOK, requests
<1>4. mutex' = None /\ \A r \in Reqs : pc'[r] = "idle" /\ ~Saving(r)'
  BY DEF Load, MutexInv, requests, Saving
<1>5. MutexInv'
  BY <1>4, NoneIsNone DEF MutexInv, Saving
<1>6. disk.kind = "absent" => mem' = NewState /\ \A s \in Slots : acked'[s] = "unknown"
  BY <1>1, LoadedTyped DEF Load
<1>7. SaveInv'
  BY <1>4, <1>6 DEF Load, SaveInv
<1>8. StaleInv'
  BY DEF Load, StaleInv, requests
<1>9. RestartKeeps'
  BY <1>1 DEF RestartKeeps, Loaded, WithDefaults
<1>10. AckedKept'
  <2> SUFFICES ASSUME NEW s \in Slots, acked'[s] # "unknown"
               PROVE  mem'[s] = acked'[s] /\ Loaded(disk')[s] = acked'[s]
    BY DEF AckedKept
  <2>1. disk.kind = "whole" /\ acked' = acked
    BY DEF Load
  <2>2. Loaded(disk)[s] = acked[s]
    BY <2>1 DEF AckedKept
  <2>3. Loaded(disk') = Loaded(disk)
    BY <1>1 DEF Loaded, WithDefaults
  <2> QED
    BY <1>1, <2>1, <2>2, <2>3
<1> QED
  BY <1>3, <1>5, <1>7, <1>8, <1>9, <1>10

\* NewStore creates the file.
LEMMA BootIInv == ASSUME IInv, BootTruncate \/ BootWritten PROVE IInv'
<1> USE DEF IInv
<1>1. /\ disk' \in Files /\ mem = NewState /\ mem \in States
      /\ \A s \in Slots : acked[s] = "unknown"
      /\ \A r \in Reqs : pc[r] = "idle"
      /\ UNCHANGED <<mem, mutex, requests, sessions, history>>
  BY FileTyped DEF BootTruncate, BootWritten, SaveInv, MutexInv, TypeOK
<1>2. TypeOK'
  BY <1>1 DEF BootTruncate, BootWritten, TypeOK, requests, history
<1>3. MutexInv' /\ StaleInv'
  BY <1>1 DEF BootTruncate, BootWritten, MutexInv, StaleInv, Saving, requests, history
<1>4. SaveInv'
  BY <1>1 DEF BootTruncate, BootWritten, SaveInv, Saving, requests, history
<1>5. RestartKeeps'
  <2>1. CASE BootTruncate
    BY <2>1 DEF BootTruncate, RestartKeeps
  <2>2. CASE BootWritten
    <3>1. Loaded(disk') = mem'
      BY <1>1, <2>2, FileTyped, LoadedTyped DEF BootWritten
    <3> QED
      BY <3>1 DEF RestartKeeps, Loaded, WithDefaults
  <2> QED
    BY <2>1, <2>2
<1>6. AckedKept'
  BY <1>1 DEF AckedKept, history
<1> QED
  BY <1>2, <1>3, <1>4, <1>5, <1>6

\* The process dies: memory is lost, the file is not.
LEMMA DieIInv == ASSUME IInv, Die PROVE IInv'
<1> USE DEF IInv
<1>1. disk' \in Files /\ (disk' = disk \/ disk'.kind = "torn")
  BY FileTyped DEF Die, TypeOK
<1>2. /\ pc' \in [Reqs -> {"idle", "auth", "forget", "act", "open", "write"}]
      /\ \A r \in Reqs : pc'[r] = "idle" /\ stale'[r] = FALSE
  BY DEF Die
<1>3. op' \in [Reqs -> Ops] /\ tok' \in [Reqs -> Tokens \cup {None}]
  BY DEF Die, Ops, Read
<1>4. buf' \in [Reqs -> States] /\ mem' = NewState /\ mem' \in States
  BY NewStateTyped DEF Die
<1>5. /\ sessions' \in [Tokens -> {"new", "live", "expired", "gone"}]
      /\ stale' \in [Reqs -> BOOLEAN]
  BY DEF Die
<1>6. TypeOK'
  BY <1>1, <1>2, <1>3, <1>4, <1>5 DEF Die, TypeOK
<1>7. MutexInv' /\ StaleInv'
  BY <1>2, NoneIsNone DEF Die, MutexInv, StaleInv, Saving
<1>8. SaveInv'
  BY <1>2, <1>4 DEF Die, SaveInv, Saving
<1>9. RestartKeeps'
  BY DEF Die, RestartKeeps
<1>10. AckedKept'
  BY <1>1 DEF Die, AckedKept, Loaded, WithDefaults
<1> QED
  BY <1>6, <1>7, <1>8, <1>9, <1>10

\* A token is given out, or expires.
LEMMA TokenIInv == ASSUME IInv, NEW t \in Tokens, Login(t) \/ Expire(t) PROVE IInv'
<1> USE DEF IInv
<1>1. /\ sessions' \in [Tokens -> {"new", "live", "expired", "gone"}]
      /\ \A u \in Tokens : sessions[u] \in {"expired", "gone"} => sessions'[u] = sessions[u]
      /\ UNCHANGED <<boot, mem, disk, mutex, requests, history>>
  BY DEF Login, Expire, TypeOK
<1>2. TypeOK'
  BY <1>1 DEF TypeOK, requests, history
<1>3. MutexInv' /\ SaveInv'
  BY <1>1 DEF MutexInv, SaveInv, Saving, Changes, After, Applied, WithDefaults, requests, history
<1>4. StaleInv'
  <2> SUFFICES ASSUME NEW r \in Reqs, stale[r]
               PROVE  /\ pc[r] \in {"auth", "forget"}
                      /\ tok[r] \in Tokens
                      /\ sessions'[tok[r]] \in {"expired", "gone"}
    BY <1>1 DEF StaleInv, requests, history
  <2>1. pc[r] \in {"auth", "forget"} /\ sessions[tok[r]] \in {"expired", "gone"}
    BY DEF StaleInv
  <2>2. tok[r] \in Tokens
    BY DEF StaleInv
  <2> QED
    BY <1>1, <2>1, <2>2
<1>5. RestartKeeps' /\ AckedKept'
  BY <1>1 DEF RestartKeeps, AckedKept, Loaded, WithDefaults, history
<1> QED
  BY <1>2, <1>3, <1>4, <1>5

\* Every step of the panel keeps the invariant.
LEMMA NextIInv == IInv /\ [Next]_vars => IInv'
<1> SUFFICES ASSUME IInv, [Next]_vars PROVE IInv'
  OBVIOUS
<1>1. CASE UNCHANGED vars
  <2>1. TypeOK' /\ StaleInv'
    BY <1>1 DEF IInv, vars, requests, history, TypeOK, StaleInv
  <2>2. MutexInv' /\ SaveInv'
    BY <1>1 DEF IInv, vars, requests, history, MutexInv, SaveInv, Saving, Changes, After,
                Applied, WithDefaults
  <2>3. RestartKeeps' /\ AckedKept'
    BY <1>1 DEF IInv, vars, history, RestartKeeps, AckedKept, Loaded, WithDefaults
  <2> QED
    BY <2>1, <2>2, <2>3 DEF IInv
<1>2. CASE Next
  BY <1>2, LoadIInv, BootIInv, DieIInv, TokenIInv, RequestIInv, SaveIInv, ChangeIInv
     DEF Next, Step
<1> QED
  BY <1>1, <1>2

-----------------------------------------------------------------------------

\* The panel's state is well formed; in particular the settings in memory and in
\* the file are always complete.
THEOREM Typing == Spec => []TypeOK
<1>1. IInv => TypeOK
  BY DEF IInv
<1> QED
  BY InitIInv, NextIInv, <1>1, PTL DEF Spec

\* After every save that did not fail a restart would bring back the very state
\* in memory, for any number of concurrent requests.
THEOREM RestartKeepsAlways == Spec => []RestartKeeps
<1>1. IInv => RestartKeeps
  BY DEF IInv
<1> QED
  BY InitIInv, NextIInv, <1>1, PTL DEF Spec

\* What was answered with 200 stays, until the same slot is changed again or a save
\* is cut short.
THEOREM AckedKeptAlways == Spec => []AckedKept
<1>1. IInv => AckedKept
  BY DEF IInv
<1> QED
  BY InitIInv, NextIInv, <1>1, PTL DEF Spec

\* A token that was dead when its request came opens nothing.
THEOREM DeadTokenRefusedAlways == Spec => []DeadTokenRefused
<1>1. IInv => DeadTokenRefused
  BY DEF IInv, StaleInv, DeadTokenRefused
<1> QED
  BY InitIInv, NextIInv, <1>1, PTL DEF Spec

\* The mutex is held by a request that is saving, and by no other: one saves at a
\* time, and one that waits waits for a save, not for a request that is over
\* (UpsertInbound and the others unlock in a defer).
HeldBySaver ==
  /\ \A r \in Reqs : mutex = r <=> pc[r] \in {"open", "write"}
  /\ mutex # None => boot = "up"

\* No error path of a save keeps the mutex, and no two requests save at once.
THEOREM HeldBySaverAlways == Spec => []HeldBySaver
<1>1. IInv => HeldBySaver
  BY DEF IInv, MutexInv, HeldBySaver, Saving
<1> QED
  BY InitIInv, NextIInv, <1>1, PTL DEF Spec
=============================================================================
