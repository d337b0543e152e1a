------------------------------- MODULE Panel -------------------------------
(***************************************************************************)
(* The panel: the state file of internal/panel/store.go, the sessions of   *)
(* internal/panel/auth.go and the handlers of internal/panel/server.go     *)
(* that change either.                                                     *)
(*                                                                         *)
(* Each request is a goroutine: authOnly, then one operation of the store, *)
(* which holds the store's mutex while it changes the state in memory and  *)
(* rewrites the whole file.  os.WriteFile first empties the file, then     *)
(* fills it; either half may fail, and the process may die between any two *)
(* steps.  (The file outlives the process; losing power, when what was     *)
(* written may be lost as well, is not modelled.)                          *)
(*                                                                         *)
(* Inbounds and clients go through the same code under separate keys; Keys *)
(* stands for both.                                                        *)
(***************************************************************************)
EXTENDS FiniteSets

CONSTANTS
  Reqs,      \* requests served at the same time (bound)
  Keys,      \* ids of inbounds and clients
  Items,     \* what an inbound or a client may be
  Tokens,    \* the values of the session cookie, each given out once (bound)
  None       \* no one holds the mutex; no cookie

ASSUME NoneIsNone == None \notin Reqs \cup Tokens
ASSUME KeysAreKeys == "settings" \notin Keys /\ "none" \notin Items

VARIABLES
  boot,      \* the process: "down", in NewStore at "open" or "write", "up"
  mem,       \* Store.state
  disk,      \* the state file
  mutex,     \* Store.mu
  pc, op, tok,  \* each request: where it is, what it does, its cookie
  buf,       \* the bytes it is about to write
  sessions,  \* authManager.sessions
  acked,     \* history: what the last change of a slot to be saved, and so
             \*   answered with 200, made of it
  stale,     \* history: was the request's token dead when it arrived
  failed     \* history: has a save failed since the last one that did not

requests == <<pc, op, tok, buf>>
history == <<acked, stale, failed>>
vars == <<boot, mem, disk, mutex, requests, sessions, history>>

-----------------------------------------------------------------------------
(* The state of the store.                                                 *)

Slots == Keys \cup {"settings"}

\* A PUT of settings may leave fields empty ("partial"); applyDefaultsLocked
\* fills them in ("filled").  Mutant: only load applies the defaults.
Asked == {"default", "custom", "partial"}
Kept == {"default", "custom", "filled"}
WithDefaults(s) == IF s = "partial" THEN "filled" ELSE s
Applied_raw(s) == s
Applied(s) == WithDefaults(s)

States == {st \in [Slots -> Items \cup {"none"} \cup Kept] :
             /\ st["settings"] \in Kept
             /\ \A k \in Keys : st[k] \in Items \cup {"none"}}

NewState == [s \in Slots |-> IF s = "settings" THEN "default" ELSE "none"]

\* What NewStore makes of a file: of an empty one, the defaults.
Loaded(file) ==
  IF file.kind = "whole"
    THEN [file.state EXCEPT !["settings"] = WithDefaults(@)] ELSE NewState

Files == [kind : {"absent", "empty", "torn", "whole"}, state : States]
File(kind) == [kind |-> kind, state |-> NewState]
Whole(st) == [kind |-> "whole", state |-> st]

Ops == [slot : Keys, value : Items \cup {"none"}]   \* Upsert and Delete
       \cup [slot : {"settings"}, value : Asked]    \* UpdateSettings
       \cup [slot : {"logout", "read"}, value : {"none"}]
Read == [slot |-> "read", value |-> "none"]
Changes(o) == o.slot \in Slots

After(o, st) ==
  [st EXCEPT ![o.slot] = IF o.slot = "settings" THEN Applied(o.value) ELSE o.value]

-----------------------------------------------------------------------------
(* NewStore, and the end of the process.                                   *)

Init ==
  /\ boot = "down"
  /\ mem = NewState
  /\ disk = File("absent")
  /\ mutex = None
  /\ pc = [r \in Reqs |-> "idle"]
  /\ op = [r \in Reqs |-> Read]
  /\ tok = [r \in Reqs |-> None]
  /\ buf = [r \in Reqs |-> NewState]
  /\ sessions = [t \in Tokens |-> "new"]
  /\ acked = [s \in Slots |-> "unknown"]
  /\ stale = [r \in Reqs |-> FALSE]
  /\ failed = FALSE

\* load: a missing file is created, an empty one passes for the defaults, and a
\* torn one keeps the panel from starting.  What was answered about an empty
\* file's former content is forgotten here.
Load ==
  /\ boot = "down"
  /\ disk.kind # "torn"
  /\ mem' = Loaded(disk)
  /\ boot' = IF disk.kind = "absent" THEN "open" ELSE "up"
  /\ acked' = IF disk.kind = "whole" THEN acked ELSE [s \in Slots |-> "unknown"]
  /\ failed' = FALSE
  /\ UNCHANGED <<disk, mutex, requests, sessions, stale>>

\* The first save: the directory and the file can be made, or New fails.
BootTruncate ==
  /\ boot = "open"
  /\ disk' = File("empty")
  /\ boot' = "write"
  /\ UNCHANGED <<mem, mutex, requests, sessions, history>>

BootWritten ==
  /\ boot = "write"
  /\ disk' = Whole(mem)
  /\ boot' = "up"
  /\ UNCHANGED <<mem, mutex, requests, sessions, history>>

\* The process ends at any step, in NewStore because a step of the save failed,
\* later because it is killed or its shutdown took longer than five seconds.  A
\* write cut short leaves part of the file.
Writing == boot = "write" \/ \E r \in Reqs : pc[r] = "write"
Die ==
  /\ boot # "down"
  /\ boot' = "down"
  /\ disk' \in {disk} \cup (IF Writing THEN {File("torn")} ELSE {})
  /\ mem' = NewState
  /\ mutex' = None
  /\ pc' = [r \in Reqs |-> "idle"]
  /\ op' = [r \in Reqs |-> Read]
  /\ tok' = [r \in Reqs |-> None]
  /\ buf' = [r \in Reqs |-> NewState]
  /\ stale' = [r \in Reqs |-> FALSE]
  /\ sessions' = [t \in Tokens |-> IF sessions[t] = "new" THEN "new" ELSE "gone"]
  /\ UNCHANGED <<acked, failed>>

-----------------------------------------------------------------------------
(* Sessions.                                                               *)

\* Login gives out a fresh token.
Login(t) ==
  /\ boot = "up"
  /\ sessions[t] = "new"
  /\ sessions' = [sessions EXCEPT ![t] = "live"]
  /\ UNCHANGED <<boot, mem, disk, mutex, requests, history>>

\* Twenty-four hours later the entry is still in the map, past ExpiresAt.
Expire(t) ==
  /\ sessions[t] = "live"
  /\ sessions' = [sessions EXCEPT ![t] = "expired"]
  /\ UNCHANGED <<boot, mem, disk, mutex, requests, history>>

\* Mutant: ExpiresAt is not looked at.
Valid_anyTime(s) == s \in {"live", "expired"}
Valid(s) == s = "live"

-----------------------------------------------------------------------------
(* Requests.                                                               *)

Arrive(r, o, t) ==
  /\ boot = "up"
  /\ pc[r] = "idle"
  /\ pc' = [pc EXCEPT ![r] = "auth"]
  /\ op' = [op EXCEPT ![r] = o]
  /\ tok' = [tok EXCEPT ![r] = t]
  /\ stale' = [stale EXCEPT ![r] = sessions[t] \in {"expired", "gone"}]
  /\ UNCHANGED <<boot, mem, disk, mutex, buf, sessions, acked, failed>>

Done(r) ==
  /\ pc' = [pc EXCEPT ![r] = "idle"]
  /\ op' = [op EXCEPT ![r] = Read]
  /\ tok' = [tok EXCEPT ![r] = None]
  /\ buf' = [buf EXCEPT ![r] = NewState]
  /\ stale' = [stale EXCEPT ![r] = FALSE]

\* authOnly and Validate.  "read" stands for every request that changes nothing,
\* the one with a bad body included.
Auth(r) ==
  /\ pc[r] = "auth"
  /\ Valid(sessions[tok[r]])
  /\ pc' = [pc EXCEPT ![r] = "act"]
  /\ UNCHANGED <<boot, mem, disk, mutex, op, tok, buf, sessions, history>>

Refuse(r) ==
  /\ pc[r] = "auth"
  /\ sessions[tok[r]] \in {"new", "gone"}
  /\ Done(r)
  /\ UNCHANGED <<boot, mem, disk, mutex, sessions, acked, failed>>

\* An expired entry is found under one lock and deleted under another.
FindExpired(r) ==
  /\ pc[r] = "auth"
  /\ sessions[tok[r]] = "expired" /\ ~Valid(sessions[tok[r]])
  /\ pc' = [pc EXCEPT ![r] = "forget"]
  /\ UNCHANGED <<boot, mem, disk, mutex, op, tok, buf, sessions, history>>

Forget(r) ==
  /\ pc[r] = "forget"
  /\ sessions' = [sessions EXCEPT ![tok[r]] = "gone"]
  /\ Done(r)
  /\ UNCHANGED <<boot, mem, disk, mutex, acked, failed>>

Answer(r) ==
  /\ pc[r] = "act"
  /\ op[r].slot = "read"
  /\ Done(r)
  /\ UNCHANGED <<boot, mem, disk, mutex, sessions, acked, failed>>

Logout(r) ==
  /\ pc[r] = "act"
  /\ op[r].slot = "logout"
  /\ sessions' = [sessions EXCEPT ![tok[r]] = "gone"]
  /\ Done(r)
  /\ UNCHANGED <<boot, mem, disk, mutex, acked, failed>>

\* Mutant: the store is not locked while it saves.
MutexFree_always == TRUE
MutexFree == mutex = None

\* The operation itself, and the bytes to save.  Mutant: they are made first.
Bytes_before(st, o) == st
Bytes(st, o) == After(o, st)

Change(r) ==
  /\ pc[r] = "act"
  /\ Changes(op[r])
  /\ MutexFree
  /\ mutex' = r
  /\ mem' = After(op[r], mem)
  /\ buf' = [buf EXCEPT ![r] = Bytes(mem, op[r])]
  /\ pc' = [pc EXCEPT ![r] = "open"]
  /\ acked' = [acked EXCEPT ![op[r].slot] = "unknown"]
  /\ UNCHANGED <<boot, disk, op, tok, sessions, stale, failed>>

\* The directory or the file cannot be opened: the answer is 500 and the change
\* stays in memory.  Mutant: the error path forgets the mutex.
Unlocked_not == mutex
Unlocked == None
OpenFails(r) ==
  /\ pc[r] = "open"
  /\ mutex' = Unlocked
  /\ failed' = TRUE
  /\ Done(r)
  /\ UNCHANGED <<boot, mem, disk, sessions, acked>>

Truncate(r) ==
  /\ pc[r] = "open"
  /\ disk' = File("empty")
  /\ pc' = [pc EXCEPT ![r] = "write"]
  /\ UNCHANGED <<boot, mem, mutex, op, tok, buf, sessions, history>>

\* The disk is full: the file stays empty or is torn.
WriteFails(r) ==
  /\ pc[r] = "write"
  /\ disk' \in {File("empty"), File("torn")}
  /\ mutex' = Unlocked
  /\ failed' = TRUE
  /\ Done(r)
  /\ UNCHANGED <<boot, mem, sessions, acked>>

\* The file is whole again.  The unlock and the answer of 200 that follows it
\* are one step: two requests for one slot that were saved in one order may be
\* answered in the other.
Written(r) ==
  /\ pc[r] = "write"
  /\ disk' = Whole(buf[r])
  /\ mutex' = None
  /\ acked' = [acked EXCEPT ![op[r].slot] =
                 IF op[r].slot = "settings" THEN WithDefaults(op[r].value) ELSE op[r].value]
  /\ failed' = FALSE
  /\ Done(r)
  /\ UNCHANGED <<boot, mem, sessions>>

-----------------------------------------------------------------------------
(* The specification.  A handler takes its steps and Go's mutex lets every  *)
(* waiter in at last; nothing makes a request come, or the panel die.      *)

Step(r) ==
  \/ Auth(r) \/ Refuse(r) \/ FindExpired(r) \/ Forget(r) \/ Answer(r) \/ Logout(r)
  \/ OpenFails(r) \/ Truncate(r) \/ WriteFails(r) \/ Written(r)

Next ==
  \/ Load \/ BootTruncate \/ BootWritten \/ Die
  \/ \E t \in Tokens : Login(t) \/ Expire(t)
  \/ \E r \in Reqs, o \in Ops, t \in Tokens : Arrive(r, o, t)
  \/ \E r \in Reqs : Step(r) \/ Change(r)

Fairness == \A r \in Reqs : WF_vars(Step(r)) /\ SF_vars(Change(r))

Spec == Init /\ [][Next]_vars /\ Fairness

-----------------------------------------------------------------------------
(* Properties.                                                             *)

TypeOK ==
  /\ boot \in {"down", "open", "write", "up"}
  /\ mem \in States
  /\ disk \in Files
  /\ mutex \in Reqs \cup {None}
  /\ pc \in [Reqs -> {"idle", "auth", "forget", "act", "open", "write"}]
  /\ op \in [Reqs -> Ops]
  /\ tok \in [Reqs -> Tokens \cup {None}]
  /\ buf \in [Reqs -> States]
  /\ sessions \in [Tokens -> {"new", "live", "expired", "gone"}]
  /\ acked \in [Slots -> Items \cup Kept \cup {"none", "unknown"}]
  /\ stale \in [Reqs -> BOOLEAN]
  /\ failed \in BOOLEAN

\* While nobody saves and the last save did not fail, a restart would bring back
\* exactly the state in memory: no concurrent request is lost from the file,
\* and the settings are stored as load would complete them.
RestartKeeps ==
  boot = "up" /\ mutex = None /\ ~failed => Loaded(disk) = mem

\* What the last saved change, the one answered with 200, made of an inbound, a
\* client or the settings is in memory, and in the file whenever the file can be
\* read: failed saves and restarts of other requests do not undo it.
AckedKept ==
  \A s \in Slots : acked[s] # "unknown" =>
    /\ boot = "up" => mem[s] = acked[s]
    /\ disk.kind = "whole" => Loaded(disk)[s] = acked[s]

\* No request that came after its token was logged out, or was a day old, or
\* was forgotten in a restart reaches a handler.
DeadTokenRefused ==
  \A r \in Reqs : pc[r] \in {"act", "open", "write"} => ~stale[r]

\* Every request gets its answer, or dies with the process: no error path of a
\* save keeps the others waiting for the mutex.
RequestAnswered == \A r \in Reqs : pc[r] # "idle" ~> pc[r] = "idle"
=============================================================================
