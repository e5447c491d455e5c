# Verification of anvil-agent

TLA+ models of the host-side agent in this repository, the TLC runs that check
them on small instances, and TLAPS proofs of what matters most for every
instance. Paths are relative to the repository (`src/` in `PROJECT.json`).

## The system

The agent is one process. An Anvil backend connects to its WebSocket and sends
requests; the agent answers each one, from what the local Incus daemon says over
its Unix socket or from the host itself, and forwards the events of Incus.

| Part | State it keeps | Operations | Hard behaviour |
|---|---|---|---|
| WebSocket server, `internal/proxy/server.go` | `clients` under an RWMutex, `eventCh`, one reader per connection, one handler per request, one writer per event and client | accept, read, handle, respond, report a protocol error, broadcast, unregister | writers share connections and the lock with stalled peers; time-outs of 5 s and 2 s; two writes without any |
| Lifecycle service, `internal/lifecycle/lifecycle.go` | none between requests; per request: where it is and what it has read | create, start, stop, restart, delete, each up to four calls of Incus | requests interleave without a lock; calls are lost, late or cancelled after they took effect; acceptance is not completion |
| Incus request builder, `internal/lifecycle/incus_request.go` | none | builds the one write of a request | uses a profile read earlier |
| Incus client, `internal/incus/client.go`, `proxy.go` | HTTP connection pool | `Execute`, `ListenEvents` | turns lost replies into 503 or 500 replies of its own |
| Event stream, `internal/incus/events.go`, `listenEvents` | one connection, the channel of 64 events | listen, retry after 5 s, forward | loss across reconnection, back pressure |
| Identity, `internal/state/identity.go` | `identity.json` | load, generate, write | kills and second processes between check, creation and write |
| Start, `cmd/anvil-agent/main.go`, `deploy/systemd` | the listening port | load the identity, listen, restart on failure | the identity comes before the port |
| State report and VM readiness, `state/report.go`, `lifecycle/readiness.go` | start time | up to eight reads of a changing host and Incus | a report from several moments, failures reported as absence or 0 |
| Network apply, `network/apply.go` | none | validate and plan | bounds, allowlists |
| Network state, `network/capabilities.go`, `parsers.go` | none | run `wg` and `ip`, parse | two commands at two moments, commands without a deadline |
| Routing and validation, `proxy/validation.go`, `handleAgentRequest` | none | allowlist, dispatch, map errors to answers | what an error code becomes on the wire |
| Configuration, `config/config.go` | none | read once | none |

They interact by calls (`handleRequest` calls the lifecycle service, which calls
`Execute`), by the shared registry and its lock, by the write side of each
connection, by one channel (`eventCh`), and by contexts: a request's context
ends after 30 s or when the reader of its connection returns.

What makes each part correct:

- *lifecycle*: an answer never contradicts what becomes of the write; every
  request is answered; a create carries the right disk;
- *server*: the lock is free whenever nobody needs it; stalled peers harm only
  themselves; dead connections go; nothing is started for a connection that is
  not registered;
- *identity*: it is written before it is used and never changes after; a restart
  recovers;
- *event stream*: events keep their order, are lost only with a connection or
  between two, and reach every registered client that reads; listening resumes;
- *routing*: what is no path of the agent is only read, and read where it was
  validated; paths of the agent stay in it;
- *reports*: a claim was so at some moment of the request, and a denial has a
  reason;
- *network apply*: a plan is accepted exactly if it is well-formed, and the peer
  that an error blames is the one at fault.

The hazards behind these are listed in `PROJECT.json`, each at its line.

## Modules

| Module | Models |
|---|---|
| `Lifecycle` | the service, one goroutine per request, and the Incus it drives |
| `RootDisk` | the verdict on the root disk of a profile, shared by `Lifecycle` and `StateReport` |
| `LifecycleContract` | what the service promises, without calls and replies |
| `LifecycleRefinement` | the mapping from one to the other |
| `ProxyServer` | readers, handlers, registry lock, connections, event writers |
| `EventStream` | the way of an event from Incus to the clients |
| `EventRelay` | what is promised of that way; `EventStream` implements it |
| `Routes` | which requests are accepted and who answers them, as operators |
| `StateReport` | one report of `GET /agent/v1/state`, read by read |
| `AgentRequests` | one request from its message to its answer: composes `Routes` and `StateReport` |
| `NetworkApply` | the validation of an apply request, as operators |
| `Network` | the network report, with the parsers, and the apply request |
| `Identity` | the identity file, the processes and the port |
| `Loops` | lemmas about loops of any length, for `NetworkProofs` |
| `...Proofs` | the theorems about a module |
| `MC...` | small instances for TLC |

### Lifecycle

`stage[r]` is where the handler of request r is: before its first call
(`received`), or about to make, in, or after the call to read the `profile`,
`submit` the write, `wait` for the operation, `verify` the new instance. `call`
and `reply` are `Execute`'s. `ctxDone` holds the requests whose context ended.
`devices`, `rootDisk`, `opKind` are the locals that outlive a call; `response` is
the error code or the status of the `Result`. On the side of Incus, `op[r]` is
where the write of r is, `instance` and `profile` what exists; `initial` is a
history variable.

| Action | Code |
|---|---|
| `Handle` | `Handle`, `handleCreate`, `handleState`, `handleDelete` up to the first call; every check is in `Valid`, and its refusals share one code |
| `Call` | a call leaves, or the context test before it fails. The submitting call has no such test: the HTTP client answers 503 without sending |
| `CallFails` | `Execute` gives up (503 before the header of a reply, 500 within its body). The write may reach Incus all the same |
| `OnProfile`, `OnSubmit`, `OnWait`, `OnVerify` | the code after each reply: `defaultProfileRootDisk` and `selectProfileRootDisk`, `normalizeResponse`, `waitForOperation`, `verifyCreatedInstance` |
| `Cancel` | the 30 s deadline, or the reader of the connection returned |
| `Incus...`, `Operation...`, `ProfileChanges`, `OtherClientActs` | external |

Incus is modelled from what the code expects: a write is refused, applied at once,
or accepted as an operation that later succeeds or fails; it takes effect only on
an instance in the state it needs. A lookup by name answers 404 only when there
is no instance. Constants say whether replies may be undecodable and whether
other clients act.

The codes are split by what they tell: `Successes`, `Refusals` (the write never
takes effect) and `Doubts` (open). The split is the meaning the names suggest,
made precise, and the properties check that the code keeps to it. It is stated
of the `Result`: `handleLifecycle` drops the code and passes on the HTTP status
and the message (see the hazard at `server.go:261`).

`LifecycleContract` has five actions per request: it commits in one step, fails,
is acknowledged, rejected, or given up. `LifecycleRefinement` maps the write's
`op` to a fate and the code to a kind of answer. `sync-ok` is an acknowledgement
only while replies decode: otherwise the code degrades an undecodable 200 to it
and the mapping says "unknown".

### ProxyServer

`loop[c]` is the reader of connection c, `handler[r]` a request's goroutine,
`current` and `delivery` the forwarder and the writers it starts.
`announced`, `readers` and `blocked` are the RWMutex with Go's rule that a waiting
writer keeps new readers out and lets in those it kept out when it leaves.
`writer[c]` is the goroutine within a frame on c: coder/websocket writes one
message at a time. A frame ends when the peer reads it (`FrameSent`), when the
connection is closed or its peer gone (`FrameFails`), or when the writer's context
ends (`FrameExpires`): that closes the connection if the writer was within its
frame, and only makes it give up if it was waiting. Time-outs strike only on a
connection whose peer does not read, since 2 s and 5 s are long against a write to
a peer that does. Slots for connections, requests and events are used again when
all goroutines of their last use have ended, so a run is not finite.

A reader leaves in three steps, as its deferred function does: `ReadFails` or
`ReadTooLong` ends `readLoop`, `Unregister` deletes the connection under the lock, and
`CloseNow` closes it after the lock is given back. A failed `Read` closes nothing in
the server; the library may close the connection in it (on a close frame, or a
message that is too long), so `open` may lose it there. Between `Unregister` and
`CloseNow` the connection may be open and out of the registry, and handlers and event
writers started before may write on it. What the code does guarantee is `LeftAlone`:
none is started in that time. The bearer
token is left out; what a handler answers is in `AgentRequests`.

### EventStream

Events are numbered as Incus emits them, across all its connections. `conn` and
`wire` are the connection of the moment and what is on it; `listener` and `held` are
`ListenEvents` and the event it has read; `eventCh` is the channel; `forwarder` and
`current` are `forwardEvents` and `broadcastEvent`; `writing[c]` holds the events with a
writer to client c. `lost` and `got` are histories. `up` says whether Incus accepts
connections; `stopping`, that the context of `Start` has ended.

| Action | Code |
|---|---|
| `Dial`, `Read`, `Push` | `ListenEvents`: dial, read and decode, the `select` on the channel |
| `ReadFails` | `Read` or the decoding fails: the deferred `Close` and the end of `ListenEvents`, with all that is on the connection |
| `Retry` | the 5 s of `listenEvents` |
| `ListenerStops` | each wait of the listener watches the context |
| `Take`, `ForwarderStops` | the `select` of `forwardEvents` |
| `Broadcast` | `broadcastEvent`: the registry under its read lock, a writer for each client |
| `Write`, `WriteFails` | a writer succeeds on a peer that reads, and gives up on any other |
| `LockWanted`, `LockGranted` | a connection that registers or leaves: while it has asked for the lock the forwarder waits |
| `Emit`, `Incus...`, `PeerChanges` | external; Incus closes a connection on which `Buffer` events pile up |

The lock and the frames of a connection are modelled in detail in `ProxyServer`;
here they are reduced to what an event meets: a lock that is busy at times, and
peers that read or do not. That the lock's writers get it, which the fairness
here uses, is `NewClientsEnter` there.

`EventRelay` has three actions: an event is emitted, some that have not been passed
on are lost, and the next one that is not lost is passed on.

### Routes, StateReport, AgentRequests

A path is the sequence of its segments; a query is none, empty, or what net/url
makes of it. A segment is plain, or written with escapes and
decoded by `Decode`, external (`url.PathUnescape`): decoding may yield several
segments, when the escape is of a slash. It is loose if it has a character that
ought to be escaped and is not: such a path is looked at as `EscapedPath` escapes it
anew, so on its decoded segments. Among these are the segments with a `#`
(`Fragmented`), which `url.ParseRequestURI` keeps and `http.NewRequestWithContext` takes
for the start of a fragment: `Sent` is what Incus is asked for, the path up to there
(`Cut`), decoded, without the query behind it. `validateProxyRequest`,
`hasAllowedDetailReadShape` and `Route` follow the functions of that name and the
switch of `handleAgentRequest`. The two tests for a path of the agent, the one that
lets it pass the validation (`hasAgentPrefix`) and the server's own (`isAgentRequest`),
are written apart, as in the code, and proved to agree (`ProxiedIsNoAgentPath`,
`ServedIsAgentPath`).

`AgentRequests` follows one request: `Receive`, then `Refuse` (`sendProtocolError`),
`Proxy` (which sends `Sent(request)`) and `IncusReplies` (`Execute`), `RefuseMethod`, `Unknown`, `Capabilities`, `PassOn`
to a service, or `StartReport`. `proxied` is the history of what went to Incus on
behalf of the backend. Handlers share nothing but Incus and the host, which
change at will, so one request stands for any number; how many of them take
turns on a connection is in `ProxyServer`.

`StateReport` reads in the order of `Report`: host name, `wg`, `/dev/kvm`, the default
profile, the root of the API and three lists. `world` is what there is now,
`moments` what it has been since the report was asked for. A call of Incus gives
what is there, or fails, for any reason; once the context has ended it fails.

### Network, NetworkApply

`host` is the tools on the PATH and the WireGuard interfaces with their keys, peers
and addresses; `moments` as above. `Detect`, `RunWg` and `RunIp` are the three reads of
`NetworkState`. `Dump` prints what the comment of `ParseWireGuardDump` documents, and
`ParseWireGuardDump` is the loop over its lines. A command may fail although its
tool is there, and may hang (`CommandHangs`). `HandleApply` answers an apply request
with `Apply` of `NetworkApply`, whose operators are the checks in the order of the
code, the last of them the loop over the peers with the set of keys seen. A body is what decoding
made of it; addresses are a CIDR, none, or too long.

### Identity

`file` is identity.json; `os.WriteFile` is two steps, `Create` and `Write`, with a
kill or another process between them. `Listen` lets one process have the port; any
other ends, as `log.Fatalf` makes it. `served` and `written` are histories.

## Runs

| Run | Properties | Instance |
|---|---|---|
| `lifecycle_safety` | `TypeOK`, `CompletedMeansSucceeded`, `RefusalIsFinal`, `SafeRootDisk` | 2 requests of six kinds, five of them refused or odd; profiles with no, one, two root disks and one without a pool; undecodable replies; another client |
| `lifecycle_live` | `AnswersTellPresence`, `MissingOnlyIfDeleted`, `AckedCreateExists`, `EveryRequestAnswered`, `ImplementsContract` | 2 requests of four kinds on one name, undecodable replies, nobody else |
| `server_responses` | `LockHeldWhileNeeded`, `LeftAlone`, `ResponsesEnd`, `DeadConnectionsLeave`, `StalledResponseDropsClient`, `NewClientsEnter` | 2 connections, 1 request (handlers follow each other in its slot) |
| `server_events` | `TypeOK`, `LockHeldWhileNeeded`, `LeftAlone`, `HealthyClientsGetEvents` | 2 connections, 1 event |
| `event_stream` | `TypeOK`, `EventsAccountedFor`, `WrittenOnce`, `ImplementsRelay`, `ListeningResumes`, `EventsReachClients`, `ShutdownEnds` | 1 client whose slot is used again, 4 events, a channel for 2, a connection for 1 |
| `network` | `TypeOK`, `ReportInventsNothing`, `SteadyInterfacesReported`, `ApplyIsRight`, `RequestsAnswered` | any host with up to three interfaces (managed, with the prefix only, foreign), two changes within a request; bodies with each part varied and any three peers |
| `agent_requests` | `TypeOK`, `ProxiedReadsOnly`, `AgentPathsStay`, `ClaimsWereTrue`, `DenialsHadReason`, `RequestsAnswered` | every route with near misses, plain, escaped, twice escaped and loose segments, fragments in any place of an item; for a report any host and Incus with counts 0 or 1, and two changes |
| `network_without_ip` | `BothToolsRequired` is violated | as `network` |
| `agent_fragment` | `ProxiedNamesItem` is violated | as `agent_requests` |
| `identity_safety` | `TypeOK`, `PersistedBeforeServed`, `SettledIdentityStays` | 3 processes, 3 kills |
| `identity_concurrent` | `StableIdentity` is violated | 2 processes |
| `identity_torn` | `RestartRecovers` is violated | 1 process, 1 kill |

Why these bounds. In `Lifecycle` requests meet only at the instance of one name
and at the profile, so one name is the worst case; two requests give every
overlap of one request's steps with another's; that the answers add up for any number
of requests is `AnswersTell`. Two
error statuses stand for those with a meaning of their own (404) and the others.
In `ProxyServer` the second connection is the one that must not suffer, and slots are
used again without bound. Requests and events are in runs of their own, one slot
each: with both, or two of one kind, checking liveness takes too long. So responses
hold the lock one after the other there, which is how they could keep a connection
out, but two readers of the lock at a time, and two events for one stalled peer,
occur in the proofs only: `TypeOK`, `LockHeldWhileNeeded` and `LeftAlone` are proved for
any number of both. In `EventStream` four events fill the channel, the
listener and the connection at once, and clients do not meet but at the lock, which
`busy` stands for. In
`Network` and `StateReport` a claim joined from two reads needs two changes to be
true of no single moment: each of its parts is changed once (`MaxChanges`). In
`NetworkApply` the limits are 1 and 2 and the lists go one beyond. In `Identity` three
processes are one more than the race needs and `MaxKills` allows each a kill.
`MaxEvents`, `MaxChanges` and `MaxKills` are the only bounds on counts.

Symmetry over requests is used in `lifecycle_safety`, which checks invariants only. Deadlock is checked in the runs of `Lifecycle` (which ends in
`Finished`) and `ProxyServer`; not in the others, where the system may stop: a
stopped agent, an answered request, a bounded number of events or identities.

### Findings

- `identity_concurrent`: two processes that start on a host without an identity
  both generate one, since check and write of identity.json are not atomic and
  the port is taken afterwards. The one that serves may find its id overwritten,
  and backends see another after a restart.
- `identity_torn`: a kill between creation and writing of identity.json leaves it
  empty. Every later start ends in "parse identity file", so the restarts of the
  systemd unit never help. That a malformed file is refused is intended and tested
  (`TestLoadIdentityRejectsMalformedIdentityFile`); that the agent itself leaves one
  is what the run shows.
- `network_without_ip`: the comment of `NetworkState` (`network/capabilities.go:151-154`)
  says that interfaces are reported only with both `wg` and `ip`. Line 170 asks for
  `wg` only, and lines 226-229 report them without addresses when `ip` fails. `Network`
  follows the code, and `SteadyInterfacesReported` speaks only of hosts with both
  tools whose commands do not fail, where code and comment agree.
- `agent_fragment`: the validation keeps a `#` in the path (`validation.go:50`), and the
  client drops what begins with it (`incus/client.go:37-38`). A path that ends in `/#f`
  is accepted as an item of that name, and Incus is asked for the path before it, with
  an empty item; with dots before the `#` it is asked for what the tests of the
  validation demand be refused. `ProxiedReadsOnly` says what is left: still a read, and
  of something right below a collection.

Disagreements without a run of their own:

- `network/parsers.go:63-64` says that a peer before its interface line is not lost;
  line 56 replaces the placeholder with it. `wg` never prints that order.
- `proxy/server.go:261-266` passes on the status and message of a lifecycle error but
  not its code, so a failed operation and an unknown outcome look alike to a
  backend.
- `state/report.go:126` uses `opts.Version`, so the default of lines 108-111 has no
  effect; `main` always gives a version.

### Fairness

*Lifecycle*: weak fairness of the agent's own steps (a runnable goroutine runs),
of `Cancel` (the deadline comes), and of giving up a call whose context has
ended (net/http does). Incus owes nothing. *ProxyServer*: weak fairness of steps
that stay enabled; strong fairness where goroutines queue: `mu.Lock` and the
message lock of a connection grant their waiters in turn, and a timer does fire
while others come and go. Peers need not read, leave, or connect, and the work of
a request need not end. *EventStream*: weak fairness of the listener's steps (timers
fire, the context is watched), of taking, of writing to a peer that reads and of
granting the lock; strong fairness of the broadcast, which needs the read lock,
and of the forwarder's end, which its `select` chooses at random while events keep
coming. Incus need not emit, accept or close. *Network*, *AgentRequests*: weak fairness of
the handler; a command that hangs is excepted in the property. *Identity*: weak fairness of each process's step,
restarts included (`Restart=on-failure`).

## Proofs

`LifecycleProofs` proves, for any sets of requests, names, profiles and error
statuses and either value of the two flags, `Spec => []` of `TypeOK`,
`CompletedMeansSucceeded`, `RefusalIsFinal` and `SafeRootDisk`. The assumptions are
those `Lifecycle` names: there is a name, the refused name is none of them, inputs
and profiles have their types, error statuses are in 400..599.

None of the four is inductive. What an answer may say follows from the reply it
was computed from; what a reply may say follows from the write Incus saw; and
where that write can be follows from the handler's stage. `IInv` is `TypeOK` and,
for each request, `Local(r)`:

- `OnlyValidGoOn`: nothing invalid gets as far as Incus;
- `WriteFollowsStage`: before the submitting call the write has not left, in
  `wait` it has been accepted, in `verify` after an operation it has succeeded;
- `ReplyIsTrue`: an error reply to the write means it failed, a success reply that
  it was taken, a reply of the operation tells its end, a lost reply is 500 or 503;
- `AnswerIsTrue`, `SyncIsTrue`: the answers, with and without decodable replies;
- `DiskIsSafe`: from `submit` on the disk is the only root disk of what was read.

`Local(r)` speaks of one request and of Incus, so a step of another request leaves
it alone: that is what makes the proof independent of the number of requests.

Its second part proves `AckedCreateExists`, `MissingOnlyIfDeleted` and
`AnswersTellPresence`, which relate requests to each other through the history of a
name. They hold while nobody but the agent writes: `~OtherClients` is a hypothesis of
the theorems, as it is a constant of the run. Replies may be undecodable; a create
that was acknowledged is there even so (it is looked up), while the other two set
aside the answers that such a reply makes worthless (`Definite`, `KnownOver`). `Balance`
is the bridge: of each name, what there was at first plus the creates that were applied
equals the deletes that were applied plus what there is now, because Incus applies
a create only where there is no instance and a delete only where there is one.
`Local` turns an answer into what became of its own write; the balance
turns that into what exists.

`LifecycleRefinementProofs` proves `Spec => ImplementsContract`: with `IInv`, every
step maps to a step of the contract or a stutter. Operations of Incus map to
`Commit` or `Fail`, the answers to `Acknowledge`, `Reject` or `GiveUp`, other
clients to themselves, everything else to a stutter.

`ProxyServerProofs` proves `TypeOK`, `LockHeldWhileNeeded` and `LeftAlone` for any
connections, requests and events, assuming only that the named goroutines are
distinct. The first two are inductive together: a goroutine that takes the lock had
no use for it before, and each exit gives it back. For the third,
`RegistryFollowsLoop` says what the stage of a reader tells of the registry: a
connection is in it exactly from `Register` to `Unregister`, and one that is about to
enter has no goroutines of an earlier use. So a step that starts a handler or a
writer is one of a connection that is in the registry (`StepLeavesAlone`).
`WritersAreBusy` says that whoever is within a frame still has it to write.

`EventStreamProofs` proves `TypeOK`, `EventsAccountedFor`, `WrittenOnce` and
`ImplementsRelay` for any clients, capacity, buffer and number of events. Its
invariant puts the event that is passed on, the channel, the one that is held and
the connection into one sequence that increases and ends at or before the last
event emitted; what lies between two of its neighbours is lost, and clients know
only events up to the current one. Losing a connection cuts the end off, a push
moves an event within it.

`AgentRequestsProofs` proves `TypeOK`, `ProxiedReadsOnly`, `AgentPathsStay`,
`ClaimsWereTrue` and `DenialsHadReason` for any requests, segments and decoding, and
any number of changes of host and Incus. The invariant says of each stage of a
report what the reads before it have settled (`DeviceSeen`, `WireGuardDenied`,
`LifecycleDenied`, `CountsDenied`); `TimePasses` shows once that none of it is undone
while the world changes or the context ends. `ProxiedShape` is the lemma about
`validateProxyRequest` and `Sent` behind `ProxiedReadsOnly`. Without a fragment what is
sent is what was validated (`PlainPath`, `UnescapedIs`); with one, the path decodes up
to the `#` like what stands before it (`PiecesAgree`, from `FragmentsAssumption`: decoding
leaves a `#` where it is), and since a validated path has no `#` in its first two
segments the cut is in the item (`FragmentInItem`). The root disk's verdict is not
expanded: the theorem holds for whatever verdict `Lifecycle` uses.

`IdentityProofs` proves `TypeOK`, `PersistedBeforeServed` and
`SettledIdentityStays` for any number of processes and kills. `Backed` is the
strengthening: the id of a process that has read or written the file, and the one
in the file, were in it. The two properties that fail have no theorem, of course:
nothing settles an identity while two processes are writing one.

`NetworkProofs` proves `TypeOK`, `ReportInventsNothing`, `SteadyInterfacesReported`
and `ApplyIsRight` for any names, interfaces, number of changes, bodies and limits.
The assumptions are those `Network` and `NetworkApply` name: managed names are
names, the long and the empty key are two and neither is among `Keys`, the limits are naturals, bodies
have the types of `ApplyRequest` or are none, and an interface has finitely many
peers; `Hosts` have finitely many interfaces. Both halves rest on loops of any
length, for which `Loops` has lemmas:

- `LoopStays`: what holds at first and is kept by each turn holds after the last
  (from the least number at which it would fail, `LeastNat`);
- `LoopRuns`: a loop over states of one set has a history, so a function that is
  defined by its turns has a value at each of them.

With `Listed` (`SetToSeq` lists a finite set, each member once, in whatever order) on
them stand `PeersVerdict` (the loop of `validatePeers` has a fault exactly if some
peer cannot stand, and then blames the first), `ValidateSays` and `ApplySays`; and
`DumpPrints` (what wg prints tells the interfaces of the host and nothing else),
`ParserTables` (after each line the table shows the lines so far: `Tabled`) and
`ParsedIsRight` (so the table is `RightTable`: managed interfaces, each once, with the
key and the peers they have). The inductive invariant adds `StageKnows` to the
properties: no command has failed before the answer, and in stage `ip` what was parsed
is the `RightTable` of some moment of the request. That is why a report may join two
moments, and why a steady interface, which is the same at both, is told right: with
its key and peers by the first, and, as `ip` was there and did not fail, with exactly
its addresses by the second.

All invariants and action properties that the passing runs check, and both refinements, are
proved. Only model-checked: liveness, since TLAPS here handles neither fairness nor
`ENABLED`. `Init` of `Network` is one host; `Asked` chooses any.

## Not modelled

- Formats and wording: JSON, messages, logs, the bodies that
  `lifecycle/incus_request.go` builds beyond the write and its root disk.
- The bearer token, `/health` and the configuration: no behaviour over time.
- Power loss: `Identity` keeps what `write` returned.
- The sizes of messages, but not the effect of one that is too long.
- `bytesReader` (`incus/proxy.go:61`): it starts over at each read, which shows only for
  a body read in pieces; bodies of writes fit one read.
- Queries that net/url drops pairs of as malformed (it ignores the error), and
  redirects, which `net/http` follows: the agent sends where Incus points it.
- Writes without a deadline: a reader in `sendProtocolError` and a handler in
  `sendError` are kept for ever by a peer that stalls; no property claims
  otherwise. The same holds of a `wg` or `ip` that hangs.
- The time of day: deadlines of 30 s, 5 s and 2 s are steps that may happen once they
  are due, not durations.

## Plan

1. The request builder as a step of its own between `Lifecycle` and Incus: the body
   of each write, with a theorem that the disk it carries is the one that was read.
2. Lemmas about `Routes` and `RootDisk` as the code's tests state them, apart from
   the requests that use them.
