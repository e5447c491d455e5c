---------------------------- MODULE EventStream ----------------------------
(***************************************************************************)
(* The way of an event of Incus through anvil-agent: ListenEvents and      *)
(* listenEvents (internal/incus/events.go, internal/proxy/server.go) read  *)
(* one connection after the other and put what they read into eventCh;     *)
(* forwardEvents takes it out and broadcastEvent starts one writer per     *)
(* registered client.                                                      *)
(*                                                                         *)
(* Events are numbered as Incus emits them, from 1; 0 is no event.  What   *)
(* the registry's lock and the frames of a connection do in detail is in   *)
(* ProxyServer: here the lock is busy at times, and a writer succeeds on a *)
(* peer that reads and gives up on one that does not.                      *)
(***************************************************************************)
EXTENDS Naturals, Sequences

CONSTANTS
    Clients,   \* the connections to follow, among others that come and go;
               \* one that left stands for a new one
    Capacity,  \* the capacity of eventCh
    Buffer,    \* what Incus lets pile up on a connection before it closes it
    MaxEvents  \* bound: how many events Incus emits

ASSUME SizesAssumption ==
    Capacity \in Nat \ {0} /\ Buffer \in Nat \ {0} /\ MaxEvents \in Nat

VARIABLES
    emitted,   \* the number of events so far
    up,        \* Incus accepts connections
    conn,      \* the agent's connection to it: "none", "open", or "closed" by Incus
    wire,      \* the events sent on it and not yet read
    listener,  \* where listenEvents is
    held,      \* the event that ListenEvents has read and not yet passed on
    eventCh,   \* Server.eventCh
    forwarder, \* where forwardEvents is
    current,   \* the event it broadcasts, or the last one it did
    lost,      \* history: the events that no forwarder will see
    clients,   \* Server.clients
    peer,      \* peer[c]: "reads", "stalls", or "closed", by either side
    writing,   \* writing[c]: the events with a writer to c
    got,       \* history; got[c]: the events that c received
    busy,      \* somebody has called Lock on the registry, or has the lock
    stopping   \* the context of Start has ended

incus == <<emitted, up>>
stream == <<conn, wire, listener, held>>
delivery == <<writing, got>>
others == <<clients, peer, busy, stopping>>
vars == <<incus, stream, eventCh, forwarder, current, lost, delivery, others>>

Events == 1 .. MaxEvents

Elements(s) == {s[i] : i \in 1 .. Len(s)}

Init ==
    /\ emitted = 0 /\ up \in BOOLEAN
    /\ conn = "none" /\ wire = <<>> /\ listener = "dial" /\ held = 0
    /\ eventCh = <<>> /\ forwarder = "take" /\ current = 0
    /\ lost = {}
    /\ clients = {} /\ peer = [c \in Clients |-> "reads"]
    /\ writing = [c \in Clients |-> {}] /\ got = [c \in Clients |-> {}]
    /\ busy = FALSE /\ stopping = FALSE

----------------------------------------------------------------------------
(* Incus *)

(* It sends an event to the connection that is there.  One that has piled  *)
(* up Buffer events is closed instead.                                     *)
Emit ==
    /\ up /\ emitted < MaxEvents
    /\ emitted' = emitted + 1
    /\ IF conn = "open" /\ Len(wire) < Buffer
       THEN wire' = Append(wire, emitted + 1) /\ UNCHANGED <<conn, lost>>
       ELSE /\ conn' = IF conn = "open" THEN "closed" ELSE conn
            /\ lost' = lost \union {emitted + 1}
            /\ UNCHANGED wire
    /\ UNCHANGED <<up, listener, held, eventCh, forwarder, current, delivery, others>>

Closes == conn' = IF conn = "open" THEN "closed" ELSE conn

IncusStops ==
    /\ up /\ up' = FALSE
    /\ Closes
    /\ UNCHANGED <<emitted, wire, listener, held, eventCh, forwarder, current, lost, delivery, others>>

IncusStarts ==
    /\ ~up /\ up' = TRUE
    /\ UNCHANGED <<emitted, stream, eventCh, forwarder, current, lost, delivery, others>>

IncusCloses ==
    /\ conn = "open" /\ Closes
    /\ UNCHANGED <<incus, wire, listener, held, eventCh, forwarder, current, lost, delivery, others>>

----------------------------------------------------------------------------
(* ListenEvents and listenEvents *)

(* websocket.Dial, for 30 s at most *)
Dial ==
    /\ listener = "dial"
    /\ IF up /\ ~stopping
       THEN listener' = "read" /\ conn' = "open"
       ELSE listener' = "wait" /\ UNCHANGED conn
    /\ UNCHANGED <<incus, wire, held, eventCh, forwarder, current, lost, delivery, others>>

Read ==
    /\ listener = "read" /\ wire # <<>>
    /\ held' = Head(wire) /\ wire' = Tail(wire)
    /\ listener' = "push"
    /\ UNCHANGED <<incus, conn, eventCh, forwarder, current, lost, delivery, others>>

(* ListenEvents returns: the connection is given up with all that is on it. *)
GiveUpConnection ==
    /\ conn' = "none" /\ wire' = <<>> /\ held' = 0
    /\ lost' = lost \union Elements(wire) \union ({held} \ {0})

ReadFailsForGood ==
    /\ listener = "read" /\ (conn = "closed" \/ wire # <<>>)
    /\ listener' = "stopped"
    /\ GiveUpConnection
    /\ UNCHANGED <<incus, eventCh, forwarder, current, delivery, others>>

(* Read fails: Incus has closed the connection, or a message is longer     *)
(* than the read limit of coder/websocket, or it is no event.              *)
ReadFails ==
    /\ listener = "read" /\ (conn = "closed" \/ wire # <<>>)
    /\ listener' = "wait"
    /\ GiveUpConnection
    /\ UNCHANGED <<incus, eventCh, forwarder, current, delivery, others>>

PushWhenFull ==
    /\ listener = "push"
    /\ eventCh' = Append(eventCh, held) /\ held' = 0
    /\ listener' = "read"
    /\ UNCHANGED <<incus, conn, wire, forwarder, current, lost, delivery, others>>

PushDrops ==
    /\ listener = "push"
    /\ eventCh' = IF Len(eventCh) < Capacity THEN Append(eventCh, held) ELSE eventCh
    /\ held' = 0
    /\ listener' = "read"
    /\ UNCHANGED <<incus, conn, wire, forwarder, current, lost, delivery, others>>

PushFirst ==
    /\ listener = "push" /\ Len(eventCh) < Capacity
    /\ eventCh' = <<held>> \o eventCh /\ held' = 0
    /\ listener' = "read"
    /\ UNCHANGED <<incus, conn, wire, forwarder, current, lost, delivery, others>>

Push ==
    /\ listener = "push" /\ Len(eventCh) < Capacity
    /\ eventCh' = Append(eventCh, held) /\ held' = 0
    /\ listener' = "read"
    /\ UNCHANGED <<incus, conn, wire, forwarder, current, lost, delivery, others>>

(* 5 s after it failed a new goroutine listens. *)
Retry ==
    /\ listener = "wait"
    /\ listener' = "dial"
    /\ UNCHANGED <<incus, conn, wire, held, eventCh, forwarder, current, lost, delivery, others>>

ListenerStopsUnlessPushing ==
    /\ stopping /\ listener \notin {"push", "stopped"}
    /\ listener' = "stopped"
    /\ GiveUpConnection
    /\ UNCHANGED <<incus, eventCh, forwarder, current, delivery, others>>

(* Every wait of the listener also watches the context: dial and read, the *)
(* channel, the 5 s.                                                       *)
ListenerStops ==
    /\ stopping /\ listener # "stopped"
    /\ listener' = "stopped"
    /\ GiveUpConnection
    /\ UNCHANGED <<incus, eventCh, forwarder, current, delivery, others>>

----------------------------------------------------------------------------
(* forwardEvents and broadcastEvent *)

TakePeeks ==
    /\ forwarder = "take" /\ eventCh # <<>>
    /\ current' = Head(eventCh)
    /\ forwarder' = "broadcast"
    /\ UNCHANGED <<incus, stream, eventCh, lost, delivery, others>>

Take ==
    /\ forwarder = "take" /\ eventCh # <<>>
    /\ current' = Head(eventCh) /\ eventCh' = Tail(eventCh)
    /\ forwarder' = "broadcast"
    /\ UNCHANGED <<incus, stream, lost, delivery, others>>

BroadcastTriesLock ==
    /\ forwarder = "broadcast"
    /\ writing' = [c \in Clients |-> IF c \in clients /\ ~busy
                                     THEN writing[c] \union {current} ELSE writing[c]]
    /\ forwarder' = "take"
    /\ UNCHANGED <<incus, stream, eventCh, current, lost, got, others>>

(* The registry is copied under its read lock; then a writer per client.   *)
Broadcast ==
    /\ forwarder = "broadcast" /\ ~busy
    /\ writing' = [c \in Clients |-> IF c \in clients THEN writing[c] \union {current}
                                     ELSE writing[c]]
    /\ forwarder' = "take"
    /\ UNCHANGED <<incus, stream, eventCh, current, lost, got, others>>

ForwarderStops ==
    /\ stopping /\ forwarder = "take"
    /\ forwarder' = "stopped"
    /\ UNCHANGED <<incus, stream, eventCh, current, lost, delivery, others>>

(* The writer of e to c; two writers to c are in no order. *)
Write(c, e) ==
    /\ e \in writing[c] /\ c \in clients /\ peer[c] = "reads"
    /\ writing' = [writing EXCEPT ![c] = @ \ {e}]
    /\ got' = [got EXCEPT ![c] = @ \union {e}]
    /\ UNCHANGED <<incus, stream, eventCh, forwarder, current, lost, others>>

(* The connection is closed, or the 2 s are over: that closes it, unless   *)
(* the writer was still waiting for its turn.                              *)
WriteFails(c, e) ==
    /\ e \in writing[c] /\ (c \notin clients \/ peer[c] # "reads")
    /\ writing' = [writing EXCEPT ![c] = @ \ {e}]
    /\ peer' \in {peer, [peer EXCEPT ![c] = "closed"]}
    /\ UNCHANGED <<incus, stream, eventCh, forwarder, current, lost, got, clients, busy, stopping>>

----------------------------------------------------------------------------
(* The registry and its users *)

(* A new connection, or the reader of one that ends, calls mu.Lock: from   *)
(* now on, behind the responses under way, the forwarder waits.            *)
LockWanted ==
    /\ ~busy /\ busy' = TRUE
    /\ UNCHANGED <<incus, stream, eventCh, forwarder, current, lost, delivery, clients, peer, stopping>>

(* What was started for the last use of a slot has ended before its next.  *)
Join(c) ==
    /\ c \notin clients /\ writing[c] = {}
    /\ clients' = clients \union {c}
    /\ peer' = [peer EXCEPT ![c] = "reads"]
    /\ got' = [got EXCEPT ![c] = {}]

Leave(c) ==
    /\ c \in clients /\ peer[c] = "closed"
    /\ clients' = clients \ {c}
    /\ UNCHANGED <<peer, got>>

LockGranted ==
    /\ busy /\ busy' = FALSE
    /\ \/ \E c \in Clients : Join(c) \/ Leave(c)
       \/ UNCHANGED <<clients, peer, got>>
    /\ UNCHANGED <<incus, stream, eventCh, forwarder, current, lost, writing, stopping>>

PeerChanges(c) ==
    /\ c \in clients /\ peer[c] # "closed"
    /\ \E p \in {"reads", "stalls", "closed"} \ {peer[c]} : peer' = [peer EXCEPT ![c] = p]
    /\ UNCHANGED <<incus, stream, eventCh, forwarder, current, lost, delivery, clients, busy, stopping>>

(* The context of Start ends: SIGINT. *)
Stop ==
    /\ ~stopping /\ stopping' = TRUE
    /\ UNCHANGED <<incus, stream, eventCh, forwarder, current, lost, delivery, clients, peer, busy>>

----------------------------------------------------------------------------
Listener == Dial \/ Read \/ Push \/ Retry \/ ListenerStops

Next ==
    \/ Emit \/ IncusStops \/ IncusStarts \/ IncusCloses
    \/ Listener \/ ReadFails
    \/ Take \/ Broadcast \/ ForwarderStops
    \/ \E c \in Clients, e \in Events : Write(c, e) \/ WriteFails(c, e)
    \/ LockWanted \/ LockGranted \/ Stop
    \/ \E c \in Clients : PeerChanges(c)

Spec == Init /\ [][Next]_vars

(* Goroutines run and timers fire.  The forwarder gets its read lock, since *)
(* a writer that leaves the RWMutex lets in the readers it kept out; that   *)
(* writers get the lock is NewClientsEnter of ProxyServer.  A connection    *)
(* that Incus has closed and that is drained fails its reader; Incus owes   *)
(* nothing else.                                                            *)
Fairness ==
    /\ WF_vars(Listener) /\ WF_vars(ReadFails /\ wire = <<>>)
    /\ WF_vars(ListenerStops)
    /\ WF_vars(Take) /\ SF_vars(Broadcast) /\ SF_vars(ForwarderStops)
    /\ WF_vars(LockGranted)
    /\ \A c \in Clients, e \in Events : WF_vars(Write(c, e))

FairSpec == Spec /\ Fairness

----------------------------------------------------------------------------
(* Properties *)

StreamOK ==
    /\ emitted \in Nat /\ current \in Nat
    /\ conn \in {"none", "open", "closed"}
    /\ wire \in Seq(Nat) /\ Len(wire) <= Buffer
    /\ listener \in {"dial", "read", "push", "wait", "stopped"}
    /\ listener \in {"read", "push"} <=> conn # "none"
    /\ conn = "none" => wire = <<>>
    /\ held \in Nat /\ (held # 0 <=> listener = "push")
    /\ eventCh \in Seq(Nat) /\ Len(eventCh) <= Capacity
    /\ forwarder \in {"take", "broadcast", "stopped"}

DeliveryOK ==
    /\ lost \subseteq 1 .. emitted
    /\ clients \subseteq Clients
    /\ peer \in [Clients -> {"reads", "stalls", "closed"}]
    /\ writing \in [Clients -> SUBSET Nat] /\ got \in [Clients -> SUBSET Nat]

FlagsOK == up \in BOOLEAN /\ busy \in BOOLEAN /\ stopping \in BOOLEAN

(* The listener, the channel and the clients stay within their ranges; the *)
(* channel never holds more than it can, and only a connection that is     *)
(* there carries anything.                                                 *)
TypeOK == StreamOK /\ DeliveryOK /\ FlagsOK

(* Nothing falls out of the agent: an event that the forwarder has not got *)
(* to is under way, or it was lost with a connection or between two of     *)
(* them.  A full channel makes ListenEvents wait (and Incus, in the end,   *)
(* close the connection); it never makes it drop one event of a connection *)
(* and deliver a later one.                                                *)
EventsAccountedFor ==
    \A e \in 1 .. emitted :
        e > current => e \in Elements(eventCh) \union {held} \union Elements(wire) \union lost

Relay == INSTANCE EventRelay

(* The forwarder gets the events in the order in which Incus emitted them, *)
(* none of them twice and none left out that was not lost, across all the  *)
(* connections: the old listener has returned before a new one listens,    *)
(* and what is in the channel stays.                                       *)
ImplementsRelay == Relay!Spec

(* No client has two writers for one event, or one for an event it has     *)
(* received.                                                               *)
WrittenOnce ==
    \A c \in Clients :
        /\ writing[c] \intersect got[c] = {}
        /\ forwarder = "broadcast" => current \notin writing[c] \union got[c]

(* Without a connection the agent gets one again, while Incus accepts any: *)
(* the listener notices the end of one, even when it is blocked on a full  *)
(* channel at the time, and retries.                                       *)
ListeningResumes == conn # "open" ~> conn = "open" \/ ~up \/ stopping

(* An event that the listener has read reaches every client that is        *)
(* registered by then and whose peer keeps reading, though on its way it   *)
(* waits for room in the channel and for the registry's lock, behind       *)
(* clients that come and go.                                               *)
EventsReachClients ==
    \A c \in Clients, e \in Events :
        c \in clients /\ (e \in Elements(eventCh) \/ e = held \/ (forwarder = "broadcast" /\ e = current))
            ~> e \in got[c] \/ c \notin clients \/ peer[c] # "reads" \/ stopping

(* After SIGINT listener and forwarder return, whatever each of them was   *)
(* waiting for: in particular a listener that no forwarder will ever make  *)
(* room for.                                                               *)
ShutdownEnds == stopping ~> listener = "stopped" /\ forwarder = "stopped"
=============================================================================
