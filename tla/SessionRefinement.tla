-------------------------- MODULE SessionRefinement -------------------------
(* The session tables of the server implement SessionLifecycle.            *)
EXTENDS ServerSessions

Issued(i) == \E s \in States : sid[s] = i
Holder(i) == CHOOSE s \in States : sid[s] = i
BindPending(i) == \E c \in Conns : At(c, "bind") /\ sid[st[c]] = i

\* An id is open while bySID has it, and issued from newSessionID until
\* bindSessionID; nothing is remembered of the past.
life ==
  [i \in Sids |-> IF ~Issued(i) THEN "unused"
                  ELSE IF bySID[i] # None THEN "open"
                  ELSE IF BindPending(i) THEN "issued" ELSE "closed"]

peer == [i \in Sids |-> IF Issued(i) THEN owner[Holder(i)] ELSE None]

L == INSTANCE SessionLifecycle
       WITH Conns <- Conns, Sids <- Sids, None <- None,
            life <- life, peer <- peer, told <- told

\* Every behaviour of handleTCPPayload, the reaper, the UDP listener and the
\* relay on conns and bySID is, for the ids, a behaviour of SessionLifecycle
\* (server_secure.go:112-122, server_sessions.go:24-100).
ImplementsLifecycle == L!Spec
=============================================================================
