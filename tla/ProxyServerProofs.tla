------------------------- MODULE ProxyServerProofs -------------------------
(***************************************************************************)
(* Safety of the WebSocket server for any number of connections, requests  *)
(* and events.                                                             *)
(*                                                                         *)
(* That the lock is held exactly while it is needed is inductive together  *)
(* with TypeOK.  That a connection outside the registry is left alone is   *)
(* an action property, and needs more: it is the reader's stage that tells *)
(* whether a connection is registered, and so whether anything may be      *)
(* started for it.                                                         *)
(***************************************************************************)
EXTENDS ProxyServer, TLAPS

Writers == Requests \union Events \union {Loop}

(* Where the reader is, against the registry and the writers of its        *)
(* connection.                                                             *)
RegistryFollowsLoop ==
    \A c \in Conns :
        /\ loop[c] = "none" => c \notin open /\ c \notin clients
        /\ loop[c] = "enter" =>
              /\ c \notin clients
              /\ \A r \in Requests : client[r] # c
              /\ \A e \in Events : delivery[e][c] # "waiting"
        /\ loop[c] \in {"read", "error", "leave"} => c \in clients
        /\ loop[c] = "close" => c \notin clients

(* Whoever is within a frame still has that frame to write. *)
WritersAreBusy ==
    \A c \in Conns :
        /\ writer[c] \in Requests => client[writer[c]] = c
        /\ writer[c] \in Events => delivery[writer[c]][c] = "waiting"
        /\ writer[c] = Loop => loop[c] = "error"

(* An event not yet broadcast has no writers. *)
CurrentIsUnsent ==
    current \in Events => \A c \in Conns : delivery[current][c] # "waiting"

IInv ==
    /\ TypeOK /\ LockHeldWhileNeeded
    /\ RegistryFollowsLoop /\ WritersAreBusy /\ CurrentIsUnsent

(* A step by which w is done with connection c, one way or another. *)
FrameEnds(c, w) == FrameSent(c, w) \/ FrameFails(c, w) \/ FrameExpires(c, w)

LEMMA InitIInv == Init => IInv
BY DistinctAssumption
   DEF Init, IInv, TypeOK, LockHeldWhileNeeded, RegistryFollowsLoop,
       WritersAreBusy, CurrentIsUnsent, LoopStages, HandlerStages

(* A writer that is done holds no frame, and the other connections and     *)
(* writers are as they were.                                               *)
LEMMA FrameEndsClean ==
    ASSUME TypeOK, NEW c \in Conns, NEW w \in Writers, FrameEnds(c, w)
    PROVE  /\ writer' \in [Conns -> Requests \union Events \union {Loop, Free}]
           /\ writer'[c] # w
           /\ \A d \in Conns : writer'[d] \in {writer[d], Free}
           /\ open' \subseteq open
BY DistinctAssumption DEF TypeOK, Writers, FrameEnds, FrameSent, FrameFails, FrameExpires

(* The reader that gets the write lock swaps the readers for those it kept *)
(* out, so the same goroutines hold or want the lock.                      *)
LEMMA LockedByKeeps ==
    ASSUME TypeOK, LockHeldWhileNeeded, NEW c \in Conns, LockedBy(c),
           UNCHANGED <<handler, current>>
    PROVE  /\ LockHeldWhileNeeded'
           /\ announced' \in Conns \union {Free}
           /\ readers' \subseteq Requests \union {Forwarder}
           /\ blocked' \subseteq Requests \union {Forwarder}
           /\ readers' \intersect blocked' = {}
BY DEF TypeOK, LockHeldWhileNeeded, LockedBy

(* The reader of a connection. *)
LEMMA ReaderKeeps ==
    ASSUME IInv, NEW c \in Conns,
           \/ Accept(c) \/ ReadRequest(c) \/ ReadInvalid(c) \/ ReadTooLong(c)
           \/ Reader(c) \/ Peer(c)
    PROVE  IInv'
<1> USE DEF IInv, TypeOK, LoopStages, HandlerStages, registry, events
<1>1. CASE Accept(c)
  BY <1>1, DistinctAssumption
     DEF Accept, LockHeldWhileNeeded, RegistryFollowsLoop, WritersAreBusy, CurrentIsUnsent
<1>2. CASE ReadRequest(c)
  BY <1>2, DistinctAssumption
     DEF ReadRequest, LockHeldWhileNeeded, RegistryFollowsLoop, WritersAreBusy, CurrentIsUnsent
<1>3. CASE ReadInvalid(c) \/ ReadTooLong(c) \/ ReadFails(c) \/ CloseNow(c)
  BY <1>3, DistinctAssumption
     DEF ReadInvalid, ReadTooLong, ReadFails, CloseNow, LockHeldWhileNeeded,
         RegistryFollowsLoop, WritersAreBusy, CurrentIsUnsent
<1>4. CASE Announce(c)
  BY <1>4 DEF Announce, LockHeldWhileNeeded, RegistryFollowsLoop, WritersAreBusy, CurrentIsUnsent
<1>5. CASE Register(c) \/ Unregister(c)
  <2>1. LockedBy(c) /\ UNCHANGED <<handler, current>>
    BY <1>5 DEF Register, Unregister
  <2> QED
    BY <1>5, <2>1, LockedByKeeps, DistinctAssumption
       DEF Register, Unregister, RegistryFollowsLoop, WritersAreBusy, CurrentIsUnsent
<1>6. CASE SendProtocolError(c)
  <2>1. CASE TakeFrame(c, Loop) /\ UNCHANGED loop
    BY <1>6, <2>1, DistinctAssumption
       DEF SendProtocolError, TakeFrame, LockHeldWhileNeeded, RegistryFollowsLoop,
           WritersAreBusy, CurrentIsUnsent
  <2>2. CASE FrameEnds(c, Loop) /\ loop' = [loop EXCEPT ![c] = "read"]
    BY <1>6, <2>2, FrameEndsClean, DistinctAssumption
       DEF SendProtocolError, Writers, LockHeldWhileNeeded, RegistryFollowsLoop,
           WritersAreBusy, CurrentIsUnsent
  <2> QED BY <1>6, <2>1, <2>2 DEF SendProtocolError, FrameEnds
<1>7. CASE Peer(c)
  BY <1>7 DEF Peer, PeerStalls, PeerReads, PeerLeaves, LockHeldWhileNeeded,
              RegistryFollowsLoop, WritersAreBusy, CurrentIsUnsent
<1> QED BY <1>1, <1>2, <1>3, <1>4, <1>5, <1>6, <1>7 DEF Reader

(* The handler of a request. *)
LEMMA HandlerKeeps ==
    ASSUME IInv, NEW r \in Requests, Handler(r)
    PROVE  IInv'
<1> USE DEF IInv, TypeOK, LoopStages, HandlerStages, registry, events
<1>1. CASE Execute(r)
  BY <1>1, DistinctAssumption
     DEF Execute, RLock, LockHeldWhileNeeded, RegistryFollowsLoop, WritersAreBusy, CurrentIsUnsent
<1>2. CASE WriteResponse(r) \/ SendError(r)
  <2>1. client[r] \in Conns /\ handler[r] # "none"
    BY <1>2 DEF WriteResponse, SendError
  <2>2. CASE TakeFrame(client[r], r) /\ UNCHANGED <<handler, client, registry>>
    BY <1>2, <2>1, <2>2, DistinctAssumption
       DEF WriteResponse, SendError, TakeFrame, LockHeldWhileNeeded, RegistryFollowsLoop,
           WritersAreBusy, CurrentIsUnsent
  <2>3. CASE FrameEnds(client[r], r) /\ HandlerEnds(r)
    <3>1. LockHeldWhileNeeded'
      BY <1>2, <2>3, DistinctAssumption
         DEF WriteResponse, SendError, HandlerEnds, RUnlock, LockHeldWhileNeeded
    <3> QED
      BY <1>2, <2>1, <2>3, <3>1, FrameEndsClean, DistinctAssumption
         DEF WriteResponse, SendError, HandlerEnds, RUnlock, Writers,
             RegistryFollowsLoop, WritersAreBusy, CurrentIsUnsent
  <2> QED BY <1>2, <2>2, <2>3 DEF WriteResponse, SendError, FrameEnds
<1> QED BY <1>1, <1>2 DEF Handler

(* The forwarder and the event writers. *)
LEMMA EventsKeep ==
    ASSUME IInv,
           \/ \E e \in Events : TakeEvent(e)
           \/ Broadcast
           \/ \E e \in Events, c \in Conns : WriteEvent(e, c)
    PROVE  IInv'
<1> USE DEF IInv, TypeOK, LoopStages, HandlerStages, registry, events
<1>1. CASE \E e \in Events : TakeEvent(e)
  BY <1>1, DistinctAssumption
     DEF TakeEvent, RLock, LockHeldWhileNeeded, RegistryFollowsLoop, WritersAreBusy,
         CurrentIsUnsent
<1>2. CASE Broadcast
  <2>1. current \in Events
    BY <1>2, DistinctAssumption DEF Broadcast, LockHeldWhileNeeded
  <2>2. LockHeldWhileNeeded'
    BY <1>2, <2>1, DistinctAssumption DEF Broadcast, RUnlock, LockHeldWhileNeeded
  <2> QED
    BY <1>2, <2>1, <2>2, DistinctAssumption
       DEF Broadcast, RUnlock, RegistryFollowsLoop, WritersAreBusy, CurrentIsUnsent
<1>3. ASSUME NEW e \in Events, NEW c \in Conns, WriteEvent(e, c)
      PROVE  IInv'
  <2>1. CASE TakeFrame(c, e) /\ UNCHANGED delivery
    BY <1>3, <2>1, DistinctAssumption
       DEF WriteEvent, TakeFrame, LockHeldWhileNeeded, RegistryFollowsLoop,
           WritersAreBusy, CurrentIsUnsent
  <2>2. CASE /\ FrameEnds(c, e)
             /\ \E how \in {"sent", "failed"} : delivery' = [delivery EXCEPT ![e][c] = how]
    BY <1>3, <2>2, FrameEndsClean, DistinctAssumption
       DEF WriteEvent, Writers, LockHeldWhileNeeded, RegistryFollowsLoop,
           WritersAreBusy, CurrentIsUnsent
  <2> QED BY <1>3, <2>1, <2>2 DEF WriteEvent, FrameEnds
<1> QED BY <1>1, <1>2, <1>3

(* The inductive invariant holds of every behaviour of the server's        *)
(* goroutines, peers and timers.                                           *)
THEOREM Invariance == Spec => []IInv
<1>1. IInv /\ [Next]_vars => IInv'
  <2> SUFFICES ASSUME IInv, [Next]_vars
               PROVE  IInv'
    OBVIOUS
  <2>1. CASE Next
    BY <2>1, ReaderKeeps, HandlerKeeps, EventsKeep DEF Next
  <2>2. CASE UNCHANGED vars
    BY <2>2 DEF vars, registry, events, IInv, TypeOK, LockHeldWhileNeeded,
                RegistryFollowsLoop, WritersAreBusy, CurrentIsUnsent
  <2> QED BY <2>1, <2>2
<1> QED BY <1>1, InitIInv, PTL DEF Spec

(* The server's goroutines, lock and deliveries stay within their ranges;  *)
(* in particular nobody both holds the registry's lock and waits for it.   *)
THEOREM TypeCorrect == Spec => []TypeOK
<1>1. IInv => TypeOK
  BY DEF IInv
<1> QED BY <1>1, Invariance, PTL

(* Every exit of writeResponse and broadcastEvent gives the lock back, for *)
(* any number of clients and requests.                                     *)
THEOREM LockIsReleased == Spec => []LockHeldWhileNeeded
<1>1. IInv => LockHeldWhileNeeded
  BY DEF IInv
<1> QED BY <1>1, Invariance, PTL

(* One step starts nothing for a connection that is, and stays, outside    *)
(* the registry: requests are read from registered connections only, and   *)
(* an event goes to the copied registry.                                   *)
LEMMA StepLeavesAlone ==
    ASSUME IInv, [Next]_vars, NEW c \in Conns, c \notin clients
    PROVE  Bound(c)' \subseteq Bound(c)
<1> USE DEF Bound, IInv, TypeOK, LoopStages, HandlerStages, registry, events
<1>1. CASE \E d \in Conns : ReadRequest(d)
  BY <1>1 DEF ReadRequest, RegistryFollowsLoop
<1>2. CASE \E d \in Conns :
              Accept(d) \/ ReadInvalid(d) \/ ReadTooLong(d) \/ Reader(d) \/ Peer(d)
  BY <1>2 DEF Accept, ReadInvalid, ReadTooLong, Reader, Announce, Register, SendProtocolError,
              ReadFails, Unregister, CloseNow, Peer, PeerStalls, PeerReads, PeerLeaves
<1>3. CASE \E r \in Requests : Handler(r)
  BY <1>3, DistinctAssumption DEF Handler, Execute, WriteResponse, SendError, HandlerEnds
<1>4. CASE \E e \in Events : TakeEvent(e)
  BY <1>4 DEF TakeEvent
<1>5. CASE Broadcast
  <2>1. current \in Events
    BY <1>5, DistinctAssumption DEF Broadcast, LockHeldWhileNeeded
  <2> QED BY <1>5, <2>1 DEF Broadcast
<1>6. CASE \E e \in Events, d \in Conns : WriteEvent(e, d)
  BY <1>6 DEF WriteEvent
<1>7. CASE UNCHANGED vars
  BY <1>7 DEF vars
<1> QED BY <1>1, <1>2, <1>3, <1>4, <1>5, <1>6, <1>7 DEF Next

(* Nothing new is started for a connection before it is registered or once *)
(* it was removed, for any number of clients, requests and events.         *)
THEOREM OutsidersAreLeftAlone == Spec => LeftAlone
<1>1. IInv /\ [Next]_vars
        => [\A c \in Conns :
              c \notin clients /\ c \notin clients' => Bound(c)' \subseteq Bound(c)]_vars
  BY StepLeavesAlone
<1> QED BY <1>1, Invariance, PTL DEF Spec, LeftAlone
=============================================================================
