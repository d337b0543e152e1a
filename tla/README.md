# DarkSideProtocol in TLA+

Specifications, model-checking runs and machine-checked proofs for the concurrent
core of this repository: the server's sessions, their handshake and frames, its start and
stop, both clients, and the panel. Paths such as `server_secure.go:116` are relative to
the package that is being discussed, under `src/internal/`.

Contents: [inventory](#inventory) · [modules](#modules) ·
[runs](#runs-and-bounds) · [fairness](#fairness) · [proofs](#proofs) ·
[what the work showed](#what-the-work-showed) · [not modelled](#what-is-not-modelled) ·
[plan](#plan)

Run `tlc -workers 2 -config <run>.cfg <module>` for a run and
`tlapm <module>Proofs.tla` for the proofs.

## Inventory

### Components

| Component | State | Operations | What makes it correct |
|---|---|---|---|
| **Server sessions** (`server/server_secure.go`, `server_sessions.go`) | `conns`: connection → `connState`; `bySID`: session id → `connState`; in each object the handshake phase, version, id, `lastSeen`, `udpAddr`, `tunnelEnabled`, `writeMu` | a frame on a connection (hello, auth, data), `failConn`, `removeConnState`, `bindSessionID`, `unbindSessionID`, the reaper's `dropIdleConnStates` | an id leads to the one state that proved itself with it, from before its client is told until after the entry is gone, and never again; idle entries, ids and goroutines are released |
| **UDP listener** (`server/server_udp_secure.go`, `transport/udp`) | none of its own | lookup by id, then changes to the object found | it finds authenticated v2 states only |
| **Relay** (`server/tunnel_types.go`) | none of its own | packet from the device → some client, by UDP or TCP | one client that does not read cannot block it for ever |
| **Server start and stop** (`server/server.go`, `cmd/server/main.go`) | goroutines for two listeners, relay and reaper, `errCh`, a `WaitGroup`, `udpSrv` | `New`, `Run`, signals, exit | it returns for an error or a signal |
| **Linux tunnel device** (`server/tunnel_linux.go`) | the device; the kernel's firewall rules | open, `ensureIPTablesRule` | rules are there once, after any number of restarts |
| **TCP transport** (`transport/tcp`) | a goroutine and a buffered reader per connection | accept, read loop, `WriteFrame`, `Receive` | a frame arrives whole, none is lost or repeated |
| **Client** (`client/client.go`) | session id, sequence counter | dial, handshake, UDP bind, a probe every 3 s with fallback to TCP | replies match probes; it stops when cancelled |
| **Policy engine** (`policy/policy.go`) | current transport, two failure counters, last round trip, time of the last switch, profile | `Observe` | it leaves a transport that fails and returns to one that works |
| **Windows client** (`winclient/secure_client.go`, `tunnel_device*.go`, `frame_io.go`) | connection, UDP socket, wintun device, routes, three goroutines, `errCh` | session loop, device and route set-up, three forwarding loops, teardown | nothing outlives its session; the routes are restored |
| **secureproto** | none | frames, datagrams, v1/v2 handshake messages, cipher, keys | both ends derive the same session; a frame is what was sent |
| **Panel store** (`panel/store.go`) | the state in memory and the file | upsert, delete, settings, load, save | the file is the memory; what was acknowledged stays |
| **Panel logins** (`panel/auth.go`) | `sessions` | login, validate, logout | a dead token opens nothing |
| **Panel handlers** (`panel/server.go`) | none of their own | `authOnly` around the store's operations | every request is answered |
| mux, proto, handshake, tun, obfs, config, `cmd/*`, `web-ui`, deployment | — | — | not modelled, see below |

### How they interact

The goroutine of each TCP connection calls `handleTCPPayload`, which works on
`conns` under `connMu` and on `bySID` under `sidMu`, never under both. The
reaper does the same from a ticker; the UDP listener reads `bySID` and then
writes fields of the object it found, unlocked; the relay reads `conns` and then
writes to the connection under the object's `writeMu`. These four share the
objects. The client and the Windows client each own one session at a time and
meet the server through TCP and UDP alone. The panel is a process of its own:
HTTP handlers share the store's mutex and the map of logins, and a file that
outlives the process. Nothing connects the panel's state to the server's.

### What is hard

* **Interleaving**: the reaper against a frame in progress; three writers of one socket,
  each frame of which is two writes; the UDP listener and
  the relay holding an object its connection has let go of; concurrent saves of
  the panel; three tunnel goroutines against the teardown.
* **Order**: bind before telling the client, delete before unbinding, wait before
  closing the device.
* **Failure**: a connection cut between any two frames of a handshake, a process killed between
  two firewall commands, a reply that cannot be sent, a save that fails or is cut short, a
  route command that fails half way.
* **Time**: late and repeated datagrams, a session id that outlives its session, timeouts inside a frame, idle cutoffs, expiry.
* **Progress**: writes without a deadline, waiting for a goroutine that waits for
  a packet, a mutex on an error path.

`PROJECT.json` lists each of these at its line, with the properties that would
catch it going wrong.

## Modules

| Module | What it is |
|---|---|
| `ServerSessions` | the session tables with the goroutines of the connections, the reaper, the UDP listener and the relay |
| `SessionLifecycle` | the abstract specification: what the server promises about session ids |
| `SessionRefinement` | the refinement mapping, `INSTANCE SessionLifecycle WITH ...` |
| `MCServerSessions` | instances and symmetry for TLC |
| `ServerSessionsProofs`, `SessionRefinementProofs` | proofs |
| `Handshake`, `MCHandshake`, `HandshakeProofs` | both ends of the v1 and v2 handshakes, what follows them on TCP and UDP; instances; proofs |
| `FrameWrites`, `FrameWritesProofs` | the two writes of every frame and the two readers; proofs |
| `ServerRun`, `ServerRunProofs` | the server process, its goroutines, firewall rules, signals and restarts; proofs |
| `ClientPolicy`, `ClientPolicyProofs` | the probing client with its policy engine; proofs |
| `WinTunnel`, `WinTunnelProofs` | the Windows client's sessions, tunnel goroutines and routes; proofs |
| `Panel`, `MCPanel`, `PanelProofs` | the panel's store, logins and handlers; instances; proofs |

### ServerSessions

A step ends where the code takes or releases a lock or blocks in a read or a
write; code between two such places is one step. One action per handler
branch: `Frame` is `getConnState`; `Hello`, `Auth`, `Tunnel`, `Echo`, `Reject`
are the branches of the handler on the state found; `Bind`, `Drop`, `Unbind` are
the critical sections of `bindSessionID` and `removeConnState`; `WriteOk`,
`WriteError`, `Fail` the writes. What a frame contains is chosen where
the code looks at it. A frame can find its state changed: after
`Frame` the reaper may take the entry (`Take`) before `Auth` or `Bind`.

The reaper's scan holds `connMu` throughout (`sweeping`), meets the entries in any
order (`Scan`) and reads `lastSeen`, which its owner writes without a lock. The
read (`Scan`) and the removal (`Take`) are separate, so that a frame or datagram
that arrives in between is still dropped with the entry. The write of
`lastSeen` is merged with the branch that follows it: nobody but the reaper reads it.

Time is the set `idle`: any entry may fall behind the cutoff at any moment when no
scan is under way. The fields `secureReady` and `awaitAuthV2` are one `phase`.
`told` (ids a ready frame was written for) and `raced` (states the reaper took
while their goroutine might still bind them) are history variables: no guard but
the client's — a datagram carries an id its sender was told — reads them.

`SessionLifecycle` knows ids only: *unused → issued → open → closed*, told only after
being opened. The mapping reads `life` from `sid`, `bySID` and the goroutines about to
bind; it has no history, so a closed id that came back would be seen as a step
the abstract specification does not have.

### Handshake

Both clients and the server's handlers, with the frames as records. Cryptography is
symbolic: a MAC is the record of what it covers, an X25519 secret the set of the two key
pairs, a derived key that set with the two nonces, a nonce its connection. Everyone is
honest; what goes wrong is a configuration that does not fit (keys that do not parse or
belong to another, a wrong pre-shared key), a connection that is cut, a deadline, a timestamp too
old, no random number, and datagrams that are lost, repeated or late for ever (`net` only grows).

`place` is where a client is in its session over a connection, `entry` what the server has
for it. A handler is one step here; `ServerSessions` has what comes in between. `plain`
tells `internal/client` from `winclient`: the first sends v2 data frames whatever its version is.
`csid` is `Client.sessionID`, which outlives the session. `fault` is history: the connections
something went wrong on.

### FrameWrites

One connection. `WriteFrame` writes a length and a body; each is two *units*, so that
a deadline may fall inside either. `conn` and `relay` are the writers, each before the mutex (`lock`),
before the length (`head`), before the body (`body`). Replies and packets are written under
`writeMu` of their state (`mu`, one for each state the connection had), the ready frame and
errors under none. The error frame is the next after a frame that was refused (`Failing`), a packet the device does
not take included, `tunnelEnabled` being set by then. The client takes whatever two units it finds for a length; if they are not one,
the length it reads is arbitrary (`0..MaxLength`), which is what a torn frame does to it. Only two
units of one body parse. The handshake counts as one question and one answer.
`late` records that a deadline of the tunnel's loop fell inside a frame: it reads on from there.

### ServerRun

One process after the other, under systemd. `main` is its main goroutine, `thread` the goroutines of
`Run`, `table` the kernel's rules, which remain. A rule is looked for (`CheckRule`) and
then added (`AddRule`), and the process may be killed in between. Serve looks at the context only when
no client came for a second; `busy` are the listeners that never have such a second.

### ClientPolicy

The loop of `Client.runSession` as a sequence of places. Replies are named by the
request they answer seen from now (`"cur"`, `"old"`), which is all that a client that
ignores sequence numbers can confuse. UDP loses, duplicates and reorders; TCP does
not. Round trips and times are kept as far as the code compares them: below
120 ms, below 250 ms, longer; more than 2 s, more than 8 s since the last switch. A
probe that waited 3 s for UDP cannot have a short round trip.
`client.go:134` tests `VerifyReady` as if it returned one value (it returns three, so
the package does not compile as it stands); the model takes its verdict, which is
what the line means and what `winclient` does.

### WinTunnel

`cfg` is a variable that never changes, so that one run covers every configuration.
`main` is where `Run` and what it calls are, `th` where the three goroutines are.
Each command of the set-up and of the clean-up may fail, with its work done, undone or
half done; `left` is history: the routes that may stay because of it. `aligned` is false once a timeout fell inside a frame:
what is read from then on does not decrypt, so that no packet reaches the device. A host route to the server that the
user had before is not told from the one the session adds.

### Panel

Each request passes `authOnly`, then does one operation. A save has three
steps — open, empty the file, fill it — each of which may fail, and between any
two of which the process may die (`Die`). Then the file is absent, empty,
torn or whole; `Load` is what `NewStore` makes of each. Inbounds and clients are
served by the same code and appear as `Keys`; the settings are one more slot, whose
value a request may leave incomplete (`"partial"`) and the store completes
(`"filled"`). A slot is `acked` with a value from the end of a save that succeeded until the next
change of that slot begins, and as long as the panel was not started from an empty file. The deferred
unlock and the answer 200 are one step (`Written`), so `AckedKept` goes by the order of the saves: two
requests for one slot may have their answers in the other order.

## Runs and bounds

| Run | Instance | Shows |
|---|---|---|
| `sessions_tables` | 2 connections, 2 objects, 2 ids, no device, replies may exceed a frame | types; an id is bound to the right state; a told id leads to its state; a bound id without an entry is about to be unbound or comes from the one race; retired ids stay retired; the tables implement `SessionLifecycle` |
| `sessions_relay` | 1 connection, 3 objects, 1 id, device, replies fit | where the relay may block, the reaper can close the connection |
| `sessions_liveness` | 1 connection, 2 objects, 1 id, oversized replies | idle entries leave, ids of removed entries are unbound, goroutines of reaped connections end |
| `relay_liveness` | 1 connection, 2 objects, no id, device | a blocked relay is freed when its client falls silent |
| `handshake` | 2 clients, 2 connections, 2 ids, 6 configurations for each client, the server with either of two pre-shared keys or none | the ends of a session agree, the UDP plane is its own, only mismatched ends are refused, no end waits for one that waits for it, every handshake ends |
| `frame_writes` | 2 states, 4 frames, 4 frames of the client, misread lengths to 4, either client | which frames may be torn; what the client accepts is what was written, in order; the mutex is given back |
| `server_run` | 3 starts, 1 firewall program, 1 fixed rule and the masquerading rule for 2 upstreams, any listeners, with and without tunnel | rules are not repeated; `Run` ends for an error or a signal |
| `client_policy` | starts on UDP, multi-transport, counters to 4 | consistency of the policy, when it leaves UDP and that it returns, which replies TCP gives, that it stops |
| `win_tunnel` | all six configurations | goroutines within their session, routes restored, errors and cancellation end the session |
| `win_probe_route` | all six configurations | *violated*: a probe-only session may set the default route |
| `panel_store` | 2 requests, 1 key with 2 values and the settings, 2 tokens | the file is the memory, acknowledged changes stay, dead tokens open nothing |
| `panel_liveness` | 2 requests, the settings, 1 token | every request is answered |

Why these are enough:

* **Objects and ids** (`States`, `Sids`) are bounds: a real server allocates without
  end. Two connections with an object each show every interference between
  connections; one connection with three objects shows an entry dropped and made
  again twice, which is where an old object meets the relay, the UDP listener and
  the reaper. When the pool is used up a frame that needs an object waits; the
  proofs hold for any number.
* `relay_liveness` has no ids so that every packet takes TCP, the case with the
  blocking write.
* **`handshake`**: a session has at most four frames before its data, all of which fit. Two connections are
  one client's two sessions, where the old id and old datagrams meet the new one, or two clients'
  sessions at once. Each configuration has at most one mistake, since the first one found ends the
  session. The two clients differ in what they send with v1 only, so that v2 is given to one of them.
* **`frame_writes`**: a frame can be torn by one other writer at a time, and then there is room for
  two more frames behind it, so that a wrong resynchronisation would be accepted as a wrong frame.
  Misread lengths reach past the longest frame. Two states are a re-made one. The proof is for any bounds.
* **`server_run`**: three starts are one that is killed with its rules half done, one that finds
  another upstream, and one that finds all. The three fixed rules of the code go through the same
  function and differ in nothing it looks at.
* **`MaxFailures`** is above the 2 and 3 the code compares with; counters stay there.
* **Panel**: two requests are enough to interleave saves, and the mutex admits one
  saver at a time. A key and the settings are two slots, so that one request can
  spoil what another was told. Two tokens let a login follow a restart. In
  `panel_liveness` there are no keys because all changes share the same save.
* Symmetry is used in runs of invariants and of step properties only, never with
  liveness under fairness. `ImplementsLifecycle` and `RetiredForGood` are safety
  formulas and treat connections, objects and ids alike.
* `CHECK_DEADLOCK FALSE` is set for the client, the Windows client and the panel,
  where stopping, a route command that never comes back to a session, or using up
  the tokens is legitimate, and for `handshake`, `frame_writes` and `server_run`, where the
  connections, frames and starts are used up.

Every property of a passing run has a mutant in `PROJECT.json`: a small change of
the modelled code (noted as "Mutant" beside the definition) under which TLC
finds it violated.

## Fairness

* **Server**: the Go scheduler runs every goroutine, and `sync.Mutex` starves nobody;
  a handler that waits for a mutex others keep taking is therefore strongly fair.
  The read loop meets the error of a closed socket, since what its buffer holds is
  finite. A *write* is fair only once the socket is not open: a peer that does not
  read blocks it for ever. Peers, packets, datagrams and the passing of time
  owe nothing.
* **Handshake**: each end handles the frame it was sent, or the end of its connection (`WF` of
  `Handle`): the reader of a connection is a goroutine or a receive under a deadline. Probes,
  datagrams, faults and new sessions need not happen.
* **ServerRun**: `Run` itself, the listener's start and each goroutine's look at the context are
  fair, since nothing blocks them. Reading a packet, writing to a client, a pause in the traffic,
  signals and errors are not. `RunEnds` speaks of runs in which the relay and the traffic do not hold it (`Held`) again and again.
* **FrameWrites** has safety properties only.
* **Client**: one goroutine, every wait of which has a deadline. `select` with
  several ready cases picks any, so a cancelled context is seen in the
  end (strong fairness of `StopSession`, `StopRun`). `ReturnsToUdp` further assumes,
  in its statement, that TCP keeps answering, and quickly.
* **Windows client**: `Run` and the TCP and UDP goroutines have deadlines (60 s, 3 s) and
  wintun takes a packet at once. In the ping and probe loops there is one request
  outstanding, so its write does not block. Nothing is assumed of the device's
  reads or of writes to the server: that is the exception `DeviceHolds`.
* **Panel**: a handler takes its steps and a waiter gets the mutex. No request need
  come, and the panel need not die or live.

## Proofs

All hold for every value of the constants, under the assumptions named in the
modules (`None` is none of the other values; the flags are booleans; `"settings"` is no
key; `MaxFailures > 3`; the bounds of `FrameWrites` and `ServerRun` are numbers; no client has the server's
private key).

* **`ServerSessionsProofs`**. `IInv` strengthens `TypeOK` and `BoundIsSecure` with what a
  goroutine holds (`HandOk`: a state of its own connection), what `conns` holds
  (`EntriesOk`), that only an authenticated v2 object has an id (`ObjectsOk`) and that
  the reaper's scan is over entries still in `conns` (`ReapOk`). Without `HandOk`, `Bind`
  could bind a state that never authenticated. `IdsInv` adds freshness: ids have one
  holder, an id about to be bound is bound to nothing and known to nobody
  (`BindOk`), entries are bound or about to be (`EntriesBound`), what is about to be
  unbound has left `conns` (`UnbindOk`), and a state that may still be bound is in
  `conns` unless the reaper took it (`BindingOk`). From these follow
  `ReadyIsReachable`, `OrphansOnlyByRace` and the step property `RetiredForGood`. `RelayInv`
  adds that without oversized replies an entry is dropped only when its connection
  is cut or closed; with it `RelayIsReapable` is proved for `~HugeReplies`.
* **`SessionRefinementProofs`**. Initial states map to initial states, and every step
  maps to a step of `SessionLifecycle` or a stutter, under `IInv /\ IdsInv`: uniqueness
  of holders makes the mapping well defined. What `SessionLifecycle` gives its user then holds of the
  server: a client is told only of an id that was opened (`ToldWereOpened`), and no id changes its
  connection or comes back once closed (`IdsNeverReturn`), in terms of the mapped `life` and `peer`.
* **`HandshakeProofs`**. `KeyInv` has what each end's key is made of and whose key each frame on its
  way carries; `SidInv` and `NetInv` that ids are issued once and that a datagram belongs to one
  session for ever. From these `ClientKnowsServer`, `ServerKnowsClient` and `PlaneIsOwn`. For
  `RefusedForAReason` one must know that, while nothing has gone wrong between two ends that match,
  the frame under way is the one the other waits for (`TrackInv`). `NoMutualWait` says that one of the two ends always
  has something to do: it needs `GoneIsCut`, that an entry leaves the table only with its
  connection, and that every frame read is answered or its connection cut. `HandshakeEnds` adds
  fairness to it, which only TLC can.
* **`FrameWritesProofs`**. Two writers of data for one state exclude each other (`MutexOK`). The ready frame
  has no mutex: `HsInv` says that its state is not tunnelled before it is written, so that the relay cannot
  have it, and that needs `UnitInv`, that no unit of a body yet to be written has reached the
  client, which could otherwise have learnt its id. `WriterInv` says which frame a writer is in.
  `TakenInOrder` needs what lies ahead of the client, `Ahead`, the units it holds and those in the stream:
  the two units of a length or a body are neighbours, a frame begins behind all there is of earlier ones and
  no body comes twice (`Orderly`), the length of every frame not yet read is ahead and nothing of those accepted
  (`PlaceInv`), the body a writer still has to write is not (`Owes`), and a client that
  asks one question at a time has one frame to come (`OneQuestion`). This holds until a deadline falls
  inside a frame or the session has ended. So a length is always read where one was written
  (`LengthsAreLengths`); the arbitrary lengths of the model come after such a deadline only. With one
  frame to come, the reader `Receive` makes for each frame has nothing to lose (`ReceiveLosesNothing`).
  `TornNeverTaken`: once a frame is torn, something else stands where its body is due (`Broken`), until the
  session ends of it.
* **`ServerRunProofs`**. `SetupInv` has how far `New` has come: of the rules for what this start found, those
  dealt with are there; `OnceInv` that the rule about to be added is not.
* **`ClientPolicyProofs`**. Both counters change together; when the client is idle nothing of
  an unanswered probe is on the connection; a policy that has counted two
  failures has seen TCP fail.
* **`WinTunnelProofs`**. The device is open exactly while `runTunnelSession` has it, and
  outside of set-up and clean-up there are only the routes a failed command has left (`left`).
  `ErrChHasRoom`: each of the three goroutines reports at most once, the errors in `errCh` and
  the goroutines still to report are together at most three (`RoomInv`), so that none blocks on it.
* **`PanelProofs`**. The mutex is held by exactly the request that saves (`MutexInv`);
  what it writes is what memory holds, with nothing acknowledged about its slot
  (`SaveInv`); a request with a dead token is still in `authOnly` (`StaleInv`). `HeldBySaver` is the
  part of `RequestAnswered` that needs no fairness.

Only model-checked: all liveness properties (the prover has no fairness or
`ENABLED`), so `IdleEntryLeaves`, `SidRetired`, `ReapedPeerReleased`, `RelayReleased`,
`ReturnsToUdp`, `StopsWhenCancelled`, `ErrorEndsSession`, `RequestAnswered`, `HandshakeEnds`,
`RunEnds`. Every safety property of every passing run is proved.

## What the work showed

* **Comment and code differ** (`winclient/tunnel_device.go:33-36`): "In safe/probe mode we
  must not inject default gateway at all", but the test is `setDefaultRoute` alone; with
  `tun_probe_only` and `tun_set_default_route` both set the default route goes into
  a tunnel whose data plane is off. Run `win_probe_route`.
* **One race leaks an id** (`server_secure.go:33` and `116` against
  `server_sessions.go:63-77`): if the reaper takes an entry while the frame that
  authenticates it is handled, the id is bound after the reaper looked for it, and
  no sweep finds it again. The connection is closed, so its goroutine ends; the id and
  the key stay, and datagrams with it are still served if the ready frame got
  out. `OrphansOnlyByRace` says that this is the only way; without the exception
  for `raced` TLC finds the trace.
* **An oversized reply removes an entry without closing the connection**
  (`server_secure.go:164-166`, `188-190`). The reaper no longer sees it, and a relay that
  already chose that state may block on it for good: `RelayIsReapable` fails with
  `HugeReplies = TRUE`. It needs `MaxPacketSize` above some 48 kB.
* **The policy never leaves UDP because of UDP alone** (`client.go:187` and `89`): the
  reply over TCP clears the failure just counted. Every probe then waits three
  seconds first. `LeavesUdpOnlyAfterTcpFailed` states and proves it.
* **The teardown of the Windows tunnel can wait for the device for ever**
  (`secure_client.go:309-318`): the device is closed after the wait, but its reader
  returns only with a packet or when it is closed. `DeviceHolds` is this state.
* **A crash inside a save may lose the panel's whole state silently** (`store.go:43`,
  `115`): an empty file loads as defaults. A torn one keeps the panel from starting.
  A change whose save failed stays in memory and reaches the file with the next
  successful save.
* A request whose token was valid when it was checked may run after the logout.
* **`internal/client` with protocol v1 cannot work** (`client.go:192-207`): the handshake succeeds, then
  its v2 data frame is refused or its reader refuses the v1 reply. `RefusedForAReason` needs the exception.
* **Frames are torn in two cases only**: by the error frame of `failConn`, which takes no mutex
  (`server_sessions.go:35`), and by a frame of a second state on the same connection, which has
  another mutex. The client never takes the wreck for a frame
  (`TornNeverTaken`) and never loses its place behind it (`TakenInOrder`), unless a deadline of the tunnel's loop fell inside one
  (`winclient/secure_client.go:247`).
* **A signal need not stop the server**: the listeners look at the context only after an idle second
  (`udp.go:34`, `tcp.go:32`), and the relay waits in `ReadPacket` or in a write. `Held` names these;
  without it `RunEnds` fails.
* **A firewall rule can be repeated** when `iptables -C` fails for another reason than a missing rule
  (`tunnel_linux.go:110`); a changed upstream leaves the rule for the old one behind.
* **Full-size packets and the UDP plane** (seen while reading, not in a model): readers take 2048 bytes
  (`udp.go:28`); 1380 bytes become some 2020 in a datagram, plus up to 88 of padding, so that most of
  them are cut short and dropped without a word.

## What is not modelled

* The primitives of cryptography, encodings, lengths and padding: a MAC or a ciphertext is checked
  against what it covers. A forged frame is one that does not verify.
* The plain mode of the server (no private key), which keeps no state.
* The handshake's frames one by one in `ServerSessions`, `ClientPolicy`, `WinTunnel` and `FrameWrites`: each has
  it as one step or one answer; `Handshake` has the frames and one step for each handler. Their product is
  far beyond what TLC can visit.
* The ioctl and `ip` commands of the Linux device; commands of the Windows route set-up that change no
  route (MTU, removal of a stale route).
* `mux`, `proto`, `handshake`, `tun`: no program uses them, so there is no caller to model.
* Reading of configuration and keys, once and by a single goroutine: `config`, `winclient/config.go`,
  `key_store.go`, `cmd/keygen`; the web front end; deployment, apart from the restart of the server.
* Loss of power (written data that never reached the disk); the model's crashes are
  those of the process.
* `Settings.Panel.SessionHours`, which nothing reads: logins last 24 hours. Validation, CORS, static files
  and bodies of answers of the panel.

## Plan

Done, in this order: `ServerSessions` with its abstract specification and proofs;
`ClientPolicy`; `Panel`; `WinTunnel`; the explicit refinement; `Handshake`; `FrameWrites`; `ServerRun`.

What could be added, in order of worth:

1. The choice of the primary route in `ensureServerBypassRoute`, once it is known which of two default
   routes Windows prefers.
2. The lengths of v2 frames and datagrams as operators on numbers: `HugeReplies` and the loss of full-size
   datagrams as computed bounds.
