---------------------------- MODULE ProxyServer ----------------------------
(***************************************************************************)
(* The WebSocket side of anvil-agent (internal/proxy/server.go): how the   *)
(* goroutines of one process share the client registry, its RWMutex and    *)
(* the write side of every connection.                                     *)
(*                                                                         *)
(*   - one reader per connection (handleWebSocket, readLoop), which takes  *)
(*     the write lock of the registry to enter and to leave it and writes  *)
(*     protocol errors itself, without a deadline;                         *)
(*   - one handler per request (handleRequest, writeResponse), which holds *)
(*     the read lock of the registry while it writes its response, for 5 s *)
(*     at most;                                                            *)
(*   - the forwarder (forwardEvents, broadcastEvent), which takes the read *)
(*     lock to copy the registry and starts one writer per client, each    *)
(*     with 2 s.                                                           *)
(*                                                                         *)
(* A peer may stop reading for as long as it likes, and leave at any time. *)
(* A connection takes one message at a time (coder/websocket): a writer    *)
(* whose time is up while it waits for its turn just gives up, one whose   *)
(* time is up within its frame closes the connection.                      *)
(***************************************************************************)
EXTENDS Naturals, FiniteSets

CONSTANTS
    Conns,     \* connections; one that ended stands for a new one later
    Requests,  \* requests under way at a time, on any connection
    Events,    \* events of Incus under way at a time
    Loop,      \* the reader of a connection, as a writer of it
    Forwarder, \* the forwarder, as a reader of the registry
    Free       \* nobody

ASSUME DistinctAssumption ==
    /\ Requests \intersect Events = {}
    /\ {Loop, Forwarder, Free} \intersect (Requests \union Events) = {}
    /\ Loop # Free /\ Loop # Forwarder /\ Forwarder # Free
    /\ Free \notin Conns

VARIABLES
    clients,    \* Server.clients
    loop,       \* where the reader of each connection is
    open,       \* the connections not closed on this side
    peer,       \* the other end: "reading", "stalled" or "gone"
    writer,     \* who is within a frame on each connection
    handler,    \* where the handler of each request is
    client,     \* the connection each request came from
    announced,  \* the reader that has called mu.Lock and waits for it
    readers,    \* the goroutines that hold mu for reading
    blocked,    \* those that wait for it
    current,    \* the event being broadcast
    delivery    \* what became of each event for each connection

registry == <<announced, readers, blocked>>
events == <<current, delivery>>
vars == <<clients, loop, open, peer, writer, handler, client, registry, events>>

LoopStages == {"none", "enter", "read", "error", "leave", "close"}
HandlerStages == {"none", "running", "respond", "sendError"}

Init ==
    /\ clients = {}
    /\ loop = [c \in Conns |-> "none"]
    /\ open = {}
    /\ peer = [c \in Conns |-> "reading"]
    /\ writer = [c \in Conns |-> Free]
    /\ handler = [r \in Requests |-> "none"]
    /\ client = [r \in Requests |-> Free]
    /\ announced = Free
    /\ readers = {}
    /\ blocked = {}
    /\ current = Free
    /\ delivery = [e \in Events |-> [c \in Conns |-> "none"]]

----------------------------------------------------------------------------
(* sync.RWMutex: a waiting writer keeps new readers out, and the readers   *)
(* it kept out go first once it is through.                                *)

RLock(g) ==
    IF announced = Free
    THEN readers' = readers \union {g} /\ UNCHANGED <<blocked, announced>>
    ELSE blocked' = blocked \union {g} /\ UNCHANGED <<readers, announced>>

RUnlock(g) == readers' = readers \ {g} /\ UNCHANGED <<blocked, announced>>

Announce(c) ==
    /\ loop[c] \in {"enter", "leave"}
    /\ announced = Free
    /\ announced' = c
    /\ UNCHANGED <<clients, loop, open, peer, writer, handler, client,
                   readers, blocked, events>>

(* Lock is granted, the critical section runs and Unlock lets the readers  *)
(* in.                                                                     *)
LockedBy(c) ==
    /\ announced = c
    /\ readers = {}
    /\ announced' = Free
    /\ readers' = blocked
    /\ blocked' = {}

----------------------------------------------------------------------------
(* One message on a connection *)

TakeFrameGlobalLock(c, w) ==
    /\ c \in open
    /\ \A d \in Conns : writer[d] = Free
    /\ writer' = [writer EXCEPT ![c] = w]
    /\ UNCHANGED open

TakeFrame(c, w) ==
    /\ c \in open
    /\ writer[c] = Free
    /\ writer' = [writer EXCEPT ![c] = w]
    /\ UNCHANGED open

FrameSent(c, w) ==
    /\ c \in open
    /\ writer[c] = w
    /\ peer[c] = "reading"
    /\ writer' = [writer EXCEPT ![c] = Free]
    /\ UNCHANGED open

(* The connection is closed, or the frame hits a peer that is gone.        *)
FrameFails(c, w) ==
    /\ c \notin open \/ (writer[c] = w /\ peer[c] = "gone")
    /\ open' = open \ {c}
    /\ writer' = [writer EXCEPT ![c] = IF writer[c] = w THEN Free ELSE writer[c]]

(* The write context of w ends.  Time-outs are long against what a peer    *)
(* that reads needs, so they only strike on a connection whose peer does   *)
(* not.                                                                    *)
FrameExpires(c, w) ==
    /\ c \in open
    /\ peer[c] # "reading"
    /\ \/ /\ writer[c] = w
          /\ open' = open \ {c}
          /\ writer' = [writer EXCEPT ![c] = Free]
       \/ /\ writer[c] \notin {w, Free}
          /\ UNCHANGED <<open, writer>>

----------------------------------------------------------------------------
(* The reader of a connection: handleWebSocket and readLoop *)

(* A connection is used again only after all goroutines of its last use.   *)
Accept(c) ==
    /\ loop[c] = "none"
    /\ \A r \in Requests : client[r] # c
    /\ \A e \in Events : delivery[e][c] # "waiting"
    /\ loop' = [loop EXCEPT ![c] = "enter"]
    /\ open' = open \union {c}
    /\ peer' = [peer EXCEPT ![c] = "reading"]
    /\ UNCHANGED <<clients, writer, handler, client, registry, events>>

RegisterNothing(c) ==
    /\ loop[c] = "enter"
    /\ LockedBy(c)
    /\ loop' = [loop EXCEPT ![c] = "read"]
    /\ UNCHANGED <<clients, open, peer, writer, handler, client, events>>

Register(c) ==
    /\ loop[c] = "enter"
    /\ LockedBy(c)
    /\ clients' = clients \union {c}
    /\ loop' = [loop EXCEPT ![c] = "read"]
    /\ UNCHANGED <<open, peer, writer, handler, client, events>>

(* A valid request: a goroutine of its own handles it. *)
ReadRequest(c) ==
    /\ loop[c] = "read" /\ c \in open /\ peer[c] # "gone"
    /\ \E r \in Requests :
          /\ handler[r] = "none"
          /\ handler' = [handler EXCEPT ![r] = "running"]
          /\ client' = [client EXCEPT ![r] = c]
    /\ UNCHANGED <<clients, loop, open, peer, writer, registry, events>>

(* An undecodable or refused message: the reader itself answers it.        *)
ReadInvalid(c) ==
    /\ loop[c] = "read" /\ c \in open /\ peer[c] # "gone"
    /\ loop' = [loop EXCEPT ![c] = "error"]
    /\ UNCHANGED <<clients, open, peer, writer, handler, client, registry, events>>

(* sendProtocolError; its context never ends, and its error is ignored.    *)
SendProtocolError(c) ==
    /\ loop[c] = "error"
    /\ \/ /\ TakeFrame(c, Loop)
          /\ UNCHANGED loop
       \/ /\ FrameSent(c, Loop) \/ FrameFails(c, Loop)
          /\ loop' = [loop EXCEPT ![c] = "read"]
    /\ UNCHANGED <<clients, peer, handler, client, registry, events>>

ReadFailsNoDefer(c) ==
    /\ loop[c] = "read"
    /\ c \notin open \/ peer[c] = "gone"
    /\ loop' = [loop EXCEPT ![c] = "none"]
    /\ open' \in {open, open \ {c}}
    /\ UNCHANGED <<clients, peer, writer, handler, client, registry, events>>

(* Read fails and readLoop returns.  The server closes nothing here;       *)
(* coder/websocket may have, as it does after a close frame of the peer.   *)
ReadFails(c) ==
    /\ loop[c] = "read"
    /\ c \notin open \/ peer[c] = "gone"
    /\ loop' = [loop EXCEPT ![c] = "leave"]
    /\ open' \in {open, open \ {c}}
    /\ UNCHANGED <<clients, peer, writer, handler, client, registry, events>>

(* A message longer than coder/websocket's read limit (32 KiB, the server  *)
(* does not raise it), or one that breaks the protocol: Read fails on a    *)
(* connection whose peer is there, whether or not the library closes it.   *)
ReadTooLong(c) ==
    /\ loop[c] = "read" /\ c \in open /\ peer[c] # "gone"
    /\ loop' = [loop EXCEPT ![c] = "leave"]
    /\ open' \in {open, open \ {c}}
    /\ UNCHANGED <<clients, peer, writer, handler, client, registry, events>>

(* The deferred removal.  The connection is still open once the lock is    *)
(* given back, and what was started for it before may still write on it.   *)
Unregister(c) ==
    /\ loop[c] = "leave"
    /\ LockedBy(c)
    /\ clients' = clients \ {c}
    /\ loop' = [loop EXCEPT ![c] = "close"]
    /\ UNCHANGED <<open, peer, writer, handler, client, events>>

CloseNow(c) ==
    /\ loop[c] = "close"
    /\ loop' = [loop EXCEPT ![c] = "none"]
    /\ open' = open \ {c}
    /\ UNCHANGED <<clients, peer, writer, handler, client, registry, events>>

----------------------------------------------------------------------------
(* The handler of a request *)

(* The work of the request is done.  A result that cannot be marshalled    *)
(* (the body of Incus was no JSON) is answered by sendError, which takes   *)
(* no lock and has no deadline.                                            *)
Execute(r) ==
    /\ handler[r] = "running"
    /\ \/ /\ handler' = [handler EXCEPT ![r] = "respond"]
          /\ RLock(r)
       \/ /\ handler' = [handler EXCEPT ![r] = "sendError"]
          /\ UNCHANGED registry
    /\ UNCHANGED <<clients, loop, open, peer, writer, client, events>>

HandlerEnds(r) ==
    /\ handler' = [handler EXCEPT ![r] = "none"]
    /\ client' = [client EXCEPT ![r] = Free]

WriteResponseForever(r) ==
    /\ handler[r] = "respond"
    /\ r \in readers
    /\ \/ /\ TakeFrame(client[r], r)
          /\ UNCHANGED <<handler, client, registry>>
       \/ /\ FrameSent(client[r], r) \/ FrameFails(client[r], r)
          /\ HandlerEnds(r)
          /\ RUnlock(r)
    /\ UNCHANGED <<clients, loop, peer, events>>

WriteResponseUnlocksOnSuccess(r) ==
    /\ handler[r] = "respond"
    /\ r \in readers
    /\ \/ /\ TakeFrame(client[r], r)
          /\ UNCHANGED <<handler, client, registry>>
       \/ /\ FrameSent(client[r], r)
          /\ HandlerEnds(r)
          /\ RUnlock(r)
       \/ /\ FrameFails(client[r], r) \/ FrameExpires(client[r], r)
          /\ HandlerEnds(r)
          /\ UNCHANGED registry
    /\ UNCHANGED <<clients, loop, peer, events>>

WriteResponse(r) ==
    /\ handler[r] = "respond"
    /\ r \in readers
    /\ \/ /\ TakeFrame(client[r], r)
          /\ UNCHANGED <<handler, client, registry>>
       \/ /\ \/ FrameSent(client[r], r) \/ FrameFails(client[r], r)
             \/ FrameExpires(client[r], r)
          /\ HandlerEnds(r)
          /\ RUnlock(r)
    /\ UNCHANGED <<clients, loop, peer, events>>

SendError(r) ==
    /\ handler[r] = "sendError"
    /\ \/ /\ TakeFrame(client[r], r)
          /\ UNCHANGED <<handler, client>>
       \/ /\ FrameSent(client[r], r) \/ FrameFails(client[r], r)
          /\ HandlerEnds(r)
    /\ UNCHANGED <<clients, loop, peer, registry, events>>

----------------------------------------------------------------------------
(* Events *)

(* forwardEvents takes an event; broadcastEvent asks for the read lock.    *)
TakeEvent(e) ==
    /\ current = Free
    /\ \A c \in Conns : delivery[e][c] # "waiting"
    /\ current' = e
    /\ RLock(Forwarder)
    /\ UNCHANGED <<clients, loop, open, peer, writer, handler, client, delivery>>

BroadcastKeepsLock ==
    /\ Forwarder \in readers
    /\ delivery' = [delivery EXCEPT ![current] =
                       [c \in Conns |-> IF c \in clients THEN "waiting" ELSE "none"]]
    /\ current' = Free
    /\ UNCHANGED <<clients, loop, open, peer, writer, handler, client, registry>>

BroadcastToOpen ==
    /\ Forwarder \in readers
    /\ delivery' = [delivery EXCEPT ![current] =
                       [c \in Conns |-> IF c \in open THEN "waiting" ELSE "none"]]
    /\ current' = Free
    /\ RUnlock(Forwarder)
    /\ UNCHANGED <<clients, loop, open, peer, writer, handler, client>>

(* broadcastEvent copies the registry and starts a writer per client.      *)
Broadcast ==
    /\ Forwarder \in readers
    /\ delivery' = [delivery EXCEPT ![current] =
                       [c \in Conns |-> IF c \in clients THEN "waiting" ELSE "none"]]
    /\ current' = Free
    /\ RUnlock(Forwarder)
    /\ UNCHANGED <<clients, loop, open, peer, writer, handler, client>>

WriteEvent(e, c) ==
    /\ delivery[e][c] = "waiting"
    /\ \/ TakeFrame(c, e) /\ UNCHANGED delivery
       \/ FrameSent(c, e) /\ delivery' = [delivery EXCEPT ![e][c] = "sent"]
       \/ /\ FrameFails(c, e) \/ FrameExpires(c, e)
          /\ delivery' = [delivery EXCEPT ![e][c] = "failed"]
    /\ UNCHANGED <<clients, loop, peer, handler, client, registry, current>>

----------------------------------------------------------------------------
(* The other ends *)

PeerStalls(c) ==
    /\ c \in open /\ peer[c] = "reading"
    /\ peer' = [peer EXCEPT ![c] = "stalled"]
    /\ UNCHANGED <<clients, loop, open, writer, handler, client, registry, events>>

PeerReads(c) ==
    /\ c \in open /\ peer[c] = "stalled"
    /\ peer' = [peer EXCEPT ![c] = "reading"]
    /\ UNCHANGED <<clients, loop, open, writer, handler, client, registry, events>>

PeerLeaves(c) ==
    /\ c \in open /\ peer[c] # "gone"
    /\ peer' = [peer EXCEPT ![c] = "gone"]
    /\ UNCHANGED <<clients, loop, open, writer, handler, client, registry, events>>

----------------------------------------------------------------------------
Reader(c) ==
    \/ Announce(c) \/ Register(c) \/ SendProtocolError(c)
    \/ ReadFails(c) \/ Unregister(c) \/ CloseNow(c)

Handler(r) == Execute(r) \/ WriteResponse(r) \/ SendError(r)

Peer(c) == PeerStalls(c) \/ PeerReads(c) \/ PeerLeaves(c)

Next ==
    \/ \E c \in Conns : Accept(c) \/ ReadRequest(c) \/ ReadInvalid(c)
                        \/ ReadTooLong(c) \/ Reader(c) \/ Peer(c)
    \/ \E r \in Requests : Handler(r)
    \/ \E e \in Events : TakeEvent(e)
    \/ Broadcast
    \/ \E e \in Events, c \in Conns : WriteEvent(e, c)

Spec == Init /\ [][Next]_vars

(* Goroutines run; mu.Lock and the write side of a connection are granted  *)
(* in turn (both queue their waiters); timers fire.  The work of a request *)
(* need not end here, and the backends owe nothing: they need not connect, *)
(* send, read or leave.                                                    *)
Fairness ==
    /\ \A c \in Conns : /\ SF_vars(Announce(c))
                         /\ SF_vars(SendProtocolError(c))
                         /\ WF_vars(Register(c) \/ ReadFails(c) \/ Unregister(c) \/ CloseNow(c))
    /\ \A r \in Requests : SF_vars(WriteResponse(r)) /\ SF_vars(SendError(r))
    /\ WF_vars(Broadcast)
    /\ \A e \in Events, c \in Conns : SF_vars(WriteEvent(e, c))

FairSpec == Spec /\ Fairness

----------------------------------------------------------------------------
(* Properties *)

(* Readers, handlers, locks and deliveries stay within their ranges.       *)
TypeOK ==
    /\ clients \subseteq Conns
    /\ loop \in [Conns -> LoopStages]
    /\ open \subseteq Conns
    /\ peer \in [Conns -> {"reading", "stalled", "gone"}]
    /\ writer \in [Conns -> Requests \union Events \union {Loop, Free}]
    /\ handler \in [Requests -> HandlerStages]
    /\ client \in [Requests -> Conns \union {Free}]
    /\ announced \in Conns \union {Free}
    /\ readers \subseteq Requests \union {Forwarder}
    /\ blocked \subseteq Requests \union {Forwarder}
    /\ readers \intersect blocked = {}
    /\ current \in Events \union {Free}
    /\ delivery \in [Events -> [Conns -> {"none", "waiting", "sent", "failed"}]]
    /\ \A r \in Requests : client[r] = Free <=> handler[r] = "none"

(* The registry's lock is held, or asked for, by exactly the goroutines    *)
(* that still need it: a handler while it writes its response, the         *)
(* forwarder while it copies the registry.  No exit of writeResponse keeps *)
(* it, whether the write succeeds, fails or runs out of time.              *)
LockHeldWhileNeeded ==
    readers \union blocked =
        {r \in Requests : handler[r] = "respond"}
          \union (IF current = Free THEN {} ELSE {Forwarder})

(* The goroutines that still have something to write on c. *)
Bound(c) == {r \in Requests : client[r] = c} \union {e \in Events : delivery[e][c] = "waiting"}

(* Nothing is started for a connection outside the registry: neither       *)
(* before its reader entered it nor between the removal and CloseNow, when *)
(* the connection is still open.  The handlers and event writers that      *)
(* outlive the removal only get fewer.                                     *)
LeftAlone ==
    [][\A c \in Conns :
          c \notin clients /\ c \notin clients' => Bound(c)' \subseteq Bound(c)]_vars

(* A new backend connection is registered, though other peers stall while  *)
(* responses are written to them under the lock (the 5 s of writeResponse).*)
NewClientsEnter == \A c \in Conns : loop[c] = "enter" ~> c \in clients

(* Every response is written or given up, and the lock is free again.      *)
ResponsesEnd == \A r \in Requests : handler[r] = "respond" ~> handler[r] # "respond"

(* A connection whose peer left, or that was closed after a write ran out  *)
(* of time, leaves the registry.                                           *)
DeadConnectionsLeave ==
    \A c \in Conns :
        loop[c] # "none" /\ (c \notin open \/ peer[c] = "gone")
            ~> loop[c] = "none" /\ c \notin clients

(* A peer that stalls within a response is dropped, unless it reads again. *)
StalledResponseDropsClient ==
    \A c \in Conns :
        writer[c] \in Requests /\ handler[writer[c]] = "respond" /\ peer[c] = "stalled"
            ~> loop[c] = "none" \/ peer[c] = "reading"

(* An event reaches every registered client whose peer keeps reading and   *)
(* whose connection lasts, even when the other peers stall for good (one   *)
(* writer per client and event).                                           *)
HealthyClientsGetEvents ==
    \A e \in Events, c \in Conns :
        delivery[e][c] = "waiting"
            ~> delivery[e][c] = "sent" \/ peer[c] # "reading" \/ c \notin open
=============================================================================
