------------------------- MODULE EventStreamProofs -------------------------
(***************************************************************************)
(* Theorems about EventStream for any clients, any capacities and any      *)
(* number of events.                                                       *)
(***************************************************************************)
EXTENDS EventStream, TLAPS

(* The stages of the way are in the order of the events: what is further   *)
(* along was emitted earlier.  None of it is lost.                         *)
Increasing(s) == \A i, j \in 1 .. Len(s) : i < j => s[i] < s[j]

UnderWay(e) == e > current /\ e <= emitted /\ e \notin lost

InOrder ==
    /\ current <= emitted /\ current \notin lost
    /\ \A i \in 1 .. Len(eventCh) : UnderWay(eventCh[i])
    /\ \A i \in 1 .. Len(wire) : UnderWay(wire[i])
    /\ held # 0 => UnderWay(held)
    /\ Increasing(eventCh) /\ Increasing(wire)
    /\ \A i \in 1 .. Len(eventCh), j \in 1 .. Len(wire) : eventCh[i] < wire[j]
    /\ held # 0 => /\ \A i \in 1 .. Len(eventCh) : eventCh[i] < held
                   /\ \A j \in 1 .. Len(wire) : held < wire[j]

(* Writers and receipts are of events that the forwarder got to.           *)
Written ==
    \A c \in Clients : \A e \in writing[c] \union got[c] :
        e <= current /\ (forwarder = "broadcast" => e # current)

IInv == TypeOK /\ InOrder /\ EventsAccountedFor /\ WrittenOnce /\ Written

----------------------------------------------------------------------------
(* What happens to the elements of a sequence when one is added at the     *)
(* end, or the first is taken.                                             *)
LEMMA AppendElements ==
    ASSUME NEW s \in Seq(Nat), NEW x \in Nat
    PROVE  /\ Append(s, x) \in Seq(Nat)
           /\ Len(Append(s, x)) = Len(s) + 1
           /\ \A i \in 1 .. Len(s) : Append(s, x)[i] = s[i]
           /\ Append(s, x)[Len(s) + 1] = x
           /\ Elements(Append(s, x)) = Elements(s) \union {x}
<1>1. /\ Append(s, x) \in Seq(Nat)
      /\ Len(Append(s, x)) = Len(s) + 1
      /\ \A i \in 1 .. Len(s) : Append(s, x)[i] = s[i]
      /\ Append(s, x)[Len(s) + 1] = x
  OBVIOUS
<1>2. Elements(Append(s, x)) = Elements(s) \union {x}
  <2>1. 1 .. Len(s) + 1 = (1 .. Len(s)) \union {Len(s) + 1} /\ Len(s) \in Nat
    OBVIOUS
  <2> QED
    BY <1>1, <2>1 DEF Elements
<1> QED
  BY <1>1, <1>2

LEMMA TailElements ==
    ASSUME NEW s \in Seq(Nat), s # <<>>
    PROVE  /\ Head(s) \in Nat /\ Head(s) = s[1] /\ Len(s) > 0 /\ Len(s) \in Nat
           /\ Tail(s) \in Seq(Nat) /\ Len(Tail(s)) = Len(s) - 1
           /\ \A i \in 1 .. Len(Tail(s)) : Tail(s)[i] = s[i + 1] /\ i + 1 \in 1 .. Len(s)
           /\ Elements(s) = {Head(s)} \union Elements(Tail(s))
<1>1. /\ Head(s) \in Nat /\ Head(s) = s[1] /\ Len(s) > 0 /\ Len(s) \in Nat
      /\ Tail(s) \in Seq(Nat) /\ Len(Tail(s)) = Len(s) - 1
      /\ \A i \in 1 .. Len(Tail(s)) : Tail(s)[i] = s[i + 1] /\ i + 1 \in 1 .. Len(s)
  OBVIOUS
<1>2. \A i \in 1 .. Len(s) : i = 1 \/ (i - 1 \in 1 .. Len(Tail(s)) /\ s[i] = Tail(s)[i - 1])
  BY <1>1
<1>3. Elements(s) \subseteq {Head(s)} \union Elements(Tail(s))
  BY <1>1, <1>2 DEF Elements
<1>4. {Head(s)} \union Elements(Tail(s)) \subseteq Elements(s)
  BY <1>1 DEF Elements
<1> QED
  BY <1>1, <1>3, <1>4

(* Elements of a part of the way: those of eventCh and wire are under way. *)
LEMMA ElementsInOrder ==
    ASSUME TypeOK, InOrder
    PROVE  /\ \A e \in Elements(eventCh) : e \in Nat /\ UnderWay(e)
           /\ \A e \in Elements(wire) : e \in Nat /\ UnderWay(e)
BY DEF TypeOK, StreamOK, InOrder, Elements

----------------------------------------------------------------------------
(* The invariant *)

LEMMA InitIInv == Init => IInv
<1> SUFFICES ASSUME Init PROVE IInv
  OBVIOUS
<1>1. TypeOK
  <2>1. StreamOK
    BY SizesAssumption DEF Init, StreamOK
  <2>2. DeliveryOK /\ FlagsOK
    BY DEF Init, DeliveryOK, FlagsOK
  <2> QED
    BY <2>1, <2>2 DEF TypeOK
<1>2. InOrder /\ EventsAccountedFor
  BY DEF Init, InOrder, EventsAccountedFor, Increasing, UnderWay
<1>3. WrittenOnce /\ Written
  BY DEF Init, WrittenOnce, Written
<1> QED
  BY <1>1, <1>2, <1>3 DEF IInv

(* Incus sends: the new event is the last of all, on the wire or lost.     *)
LEMMA EmitKeeps == IInv /\ Emit => IInv'
<1> SUFFICES ASSUME IInv, Emit PROVE IInv'
  OBVIOUS
<1> USE DEF IInv, TypeOK
<1>1. /\ emitted \in Nat /\ current \in Nat /\ emitted' = emitted + 1
      /\ UNCHANGED <<up, listener, held, eventCh, forwarder, current, writing, got, clients, peer, busy, stopping>>
  BY DEF StreamOK, Emit, delivery, others
<1>2. CASE conn = "open" /\ Len(wire) < Buffer
  <2>1. /\ wire' \in Seq(Nat) /\ Len(wire') = Len(wire) + 1
        /\ \A i \in 1 .. Len(wire) : wire'[i] = wire[i]
        /\ wire'[Len(wire) + 1] = emitted + 1
        /\ Elements(wire') = Elements(wire) \union {emitted + 1}
    <3>1. wire' = Append(wire, emitted + 1) /\ wire \in Seq(Nat) /\ emitted + 1 \in Nat
      BY <1>1, <1>2 DEF StreamOK, Emit
    <3> QED
      BY <3>1, AppendElements
  <2>2. conn' = conn /\ lost' = lost
    BY <1>2 DEF Emit
  <2>3. StreamOK'
    BY <1>1, <1>2, <2>1, <2>2, SizesAssumption DEF StreamOK
  <2>4. DeliveryOK' /\ FlagsOK'
    BY <1>1, <2>2 DEF DeliveryOK, FlagsOK
  <2>5. \A e \in Nat : UnderWay(e) => UnderWay(e)' /\ e < emitted + 1
    BY <1>1, <2>2 DEF UnderWay
  <2>6. current' <= emitted' /\ current' \notin lost' /\ emitted + 1 > current /\ emitted + 1 \notin lost
    BY <1>1, <2>2 DEF DeliveryOK, InOrder
  <2>7. InOrder'
    <3>1. /\ \A i \in 1 .. Len(eventCh) : eventCh[i] \in Nat
          /\ \A i \in 1 .. Len(wire) : wire[i] \in Nat
          /\ Len(wire) \in Nat /\ held \in Nat
      BY DEF StreamOK
    <3>2. \A i \in 1 .. Len(wire') : (i \in 1 .. Len(wire) /\ wire'[i] = wire[i]) \/ (i = Len(wire) + 1 /\ wire'[i] = emitted + 1)
      <4>1. \A i \in 1 .. Len(wire) + 1 : i \in 1 .. Len(wire) \/ i = Len(wire) + 1
        BY <3>1
      <4> QED
        BY <2>1, <4>1
    <3>3. \A i \in 1 .. Len(eventCh) : UnderWay(eventCh[i])' /\ eventCh[i] < emitted + 1
      BY <1>1, <2>5, <3>1 DEF InOrder
    <3>4. \A i \in 1 .. Len(wire) : UnderWay(wire[i])' /\ wire[i] < emitted + 1
      BY <2>5, <3>1, <1>1, <2>1, <2>2 DEF InOrder, UnderWay
    <3>5. held # 0 => UnderWay(held)' /\ held < emitted + 1
      BY <1>1, <2>5, <3>1 DEF InOrder
    <3>6. (\A i \in 1 .. Len(wire) : UnderWay(wire[i]))'
      BY <3>2, <3>4, <2>6, <1>1, <2>2 DEF UnderWay
    <3>7. Increasing(wire)'
      BY <3>1, <3>2, <3>4 DEF InOrder, Increasing
    <3>8. \A i \in 1 .. Len(eventCh), j \in 1 .. Len(wire') : eventCh[i] < wire'[j]
      BY <3>2, <3>3 DEF InOrder
    <3>9. held # 0 => \A j \in 1 .. Len(wire') : held < wire'[j]
      BY <3>2, <3>5 DEF InOrder
    <3> QED
      BY <1>1, <2>6, <3>3, <3>5, <3>6, <3>7, <3>8, <3>9 DEF InOrder, Increasing, UnderWay
  <2>8. EventsAccountedFor'
    <3>1. Elements(eventCh)' = Elements(eventCh)
      BY <1>1 DEF Elements
    <3> QED
      BY <1>1, <2>1, <2>2, <3>1 DEF EventsAccountedFor
  <2> QED
    BY <1>1, <2>3, <2>4, <2>7, <2>8 DEF WrittenOnce, Written
<1>3. CASE ~(conn = "open" /\ Len(wire) < Buffer)
  <2>1. /\ conn' = IF conn = "open" THEN "closed" ELSE conn
        /\ lost' = lost \union {emitted + 1} /\ wire' = wire
    BY <1>3 DEF Emit
  <2>2. StreamOK'
    BY <1>1, <2>1 DEF StreamOK
  <2>3. DeliveryOK' /\ FlagsOK'
    BY <1>1, <2>1 DEF DeliveryOK, FlagsOK
  <2>4. \A e \in Nat : UnderWay(e) => UnderWay(e)'
    BY <1>1, <2>1 DEF UnderWay
  <2>5. InOrder'
    BY <1>1, <2>1, <2>4 DEF StreamOK, InOrder, Increasing
  <2>6. EventsAccountedFor'
    <3>1. Elements(eventCh)' = Elements(eventCh) /\ Elements(wire)' = Elements(wire)
      BY <1>1, <2>1 DEF Elements
    <3> QED
      BY <1>1, <2>1, <3>1 DEF EventsAccountedFor
  <2> QED
    BY <1>1, <2>2, <2>3, <2>5, <2>6 DEF WrittenOnce, Written
<1> QED
  BY <1>2, <1>3

LEMMA ReadKeeps == IInv /\ Read => IInv'
<1> SUFFICES ASSUME IInv, Read PROVE IInv'
  OBVIOUS
<1> USE DEF IInv, TypeOK, Read, stream, incus, delivery, others
<1>1. /\ Head(wire) \in Nat /\ Head(wire) = wire[1] /\ Len(wire) > 0 /\ Len(wire) \in Nat
      /\ wire' \in Seq(Nat) /\ Len(wire') = Len(wire) - 1
      /\ \A i \in 1 .. Len(wire') : wire'[i] = wire[i + 1] /\ i + 1 \in 1 .. Len(wire)
      /\ Elements(wire) = {Head(wire)} \union Elements(wire')
  BY TailElements DEF StreamOK
<1>2. held' = wire[1] /\ UnderWay(held') /\ held' \in Nat /\ held' # 0 /\ held = 0
  BY <1>1 DEF StreamOK, InOrder, UnderWay
<1>3. StreamOK'
  <2>1. Len(wire') <= Buffer
    BY <1>1, SizesAssumption DEF StreamOK
  <2> QED
    BY <1>1, <1>2, <2>1 DEF StreamOK
<1>4. DeliveryOK' /\ FlagsOK'
  BY DEF DeliveryOK, FlagsOK
<1>5. InOrder'
  <2>1. \A i \in 1 .. Len(wire') : UnderWay(wire'[i]) /\ held' < wire'[i]
    BY <1>1, <1>2 DEF InOrder, Increasing
  <2>2. Increasing(wire')
    BY <1>1 DEF InOrder, Increasing
  <2>3. \A i \in 1 .. Len(eventCh) : eventCh[i] < held' /\ \A j \in 1 .. Len(wire') : eventCh[i] < wire'[j]
    BY <1>1, <1>2 DEF InOrder
  <2>4. \A e : UnderWay(e)' <=> UnderWay(e)
    BY DEF UnderWay
  <2> QED
    BY <1>2, <2>1, <2>2, <2>3, <2>4 DEF InOrder, Increasing
<1>6. EventsAccountedFor'
  <2>1. UNCHANGED <<emitted, current, lost>> /\ Elements(eventCh)' = Elements(eventCh)
    BY DEF Elements
  <2>2. Elements(wire) = {held'} \union Elements(wire)'
    BY <1>1, <1>2 DEF Elements
  <2> QED
    BY <1>2, <2>1, <2>2 DEF StreamOK, EventsAccountedFor
<1> QED
  BY <1>3, <1>4, <1>5, <1>6 DEF WrittenOnce, Written

(* A listener that gives up its connection loses what is on it.            *)
LEMMA GiveUpKeeps ==
    ASSUME IInv, ReadFails \/ ListenerStops
    PROVE  IInv'
<1> USE DEF IInv, TypeOK
<1>1. /\ conn' = "none" /\ wire' = <<>> /\ held' = 0 /\ listener' \in {"wait", "stopped"}
      /\ lost' = lost \union Elements(wire) \union ({held} \ {0})
      /\ UNCHANGED <<emitted, up, eventCh, forwarder, current, writing, got, clients, peer, busy, stopping>>
  BY DEF ReadFails, ListenerStops, GiveUpConnection, incus, delivery, others
<1>2. \A e \in Elements(wire) \union ({held} \ {0}) : e \in Nat /\ UnderWay(e)
  BY ElementsInOrder DEF StreamOK, InOrder
<1>3. StreamOK'
  BY <1>1, SizesAssumption DEF StreamOK
<1>4. DeliveryOK' /\ FlagsOK'
  <2>1. lost' \subseteq 1 .. emitted
    <3>1. \A e \in Elements(wire) \union ({held} \ {0}) : e \in 1 .. emitted
      BY <1>2 DEF StreamOK, UnderWay
    <3> QED
      BY <1>1, <3>1 DEF DeliveryOK
  <2> QED
    BY <1>1, <2>1 DEF DeliveryOK, FlagsOK
<1>5. \A i \in 1 .. Len(eventCh) : eventCh[i] \notin Elements(wire) \union ({held} \ {0})
  BY DEF StreamOK, InOrder, Elements
<1>6. InOrder'
  <2>1. current \notin lost'
    BY <1>1, <1>2 DEF StreamOK, InOrder, UnderWay
  <2>2. \A i \in 1 .. Len(eventCh) : UnderWay(eventCh[i])'
    BY <1>1, <1>5 DEF InOrder, UnderWay
  <2> QED
    BY <1>1, <2>1, <2>2 DEF InOrder, Increasing
<1>7. EventsAccountedFor'
  <2>1. Elements(wire) \union ({held} \ {0}) \union lost = lost'
    BY <1>1
  <2> QED
    BY <1>1, <2>1 DEF StreamOK, EventsAccountedFor
<1> QED
  BY <1>1, <1>3, <1>4, <1>6, <1>7 DEF WrittenOnce, Written

LEMMA PushKeeps == IInv /\ Push => IInv'
<1> SUFFICES ASSUME IInv, Push PROVE IInv'
  OBVIOUS
<1> USE DEF IInv, TypeOK, Push, incus, delivery, others
<1>1. /\ eventCh' \in Seq(Nat) /\ Len(eventCh') = Len(eventCh) + 1
      /\ \A i \in 1 .. Len(eventCh) : eventCh'[i] = eventCh[i]
      /\ eventCh'[Len(eventCh) + 1] = held
      /\ Elements(eventCh') = Elements(eventCh) \union {held}
  BY AppendElements DEF StreamOK
<1>2. StreamOK'
  BY <1>1, SizesAssumption DEF StreamOK
<1>3. DeliveryOK' /\ FlagsOK'
  BY DEF DeliveryOK, FlagsOK
<1>4. InOrder'
  BY <1>1 DEF StreamOK, InOrder, Increasing, UnderWay
<1>5. EventsAccountedFor'
  BY <1>1 DEF StreamOK, EventsAccountedFor
<1> QED
  BY <1>2, <1>3, <1>4, <1>5 DEF WrittenOnce, Written

LEMMA TakeKeeps == IInv /\ Take => IInv'
<1> SUFFICES ASSUME IInv, Take PROVE IInv'
  OBVIOUS
<1> USE DEF IInv, TypeOK, Take, stream, incus, delivery, others
<1>1. /\ Head(eventCh) \in Nat /\ Head(eventCh) = eventCh[1] /\ Len(eventCh) > 0
      /\ eventCh' \in Seq(Nat) /\ Len(eventCh') = Len(eventCh) - 1
      /\ \A i \in 1 .. Len(eventCh') : eventCh'[i] = eventCh[i + 1] /\ i + 1 \in 1 .. Len(eventCh)
      /\ Elements(eventCh) = {Head(eventCh)} \union Elements(eventCh')
  BY TailElements DEF StreamOK
<1>2. StreamOK'
  BY <1>1, SizesAssumption DEF StreamOK
<1>3. DeliveryOK' /\ FlagsOK'
  BY DEF DeliveryOK, FlagsOK
<1>4. InOrder'
  BY <1>1 DEF StreamOK, InOrder, Increasing, UnderWay
<1>5. current' > current /\ current' \in Nat /\ current \in Nat
  BY <1>1 DEF StreamOK, InOrder, UnderWay
<1>6. EventsAccountedFor'
  BY <1>1, <1>5 DEF StreamOK, EventsAccountedFor
<1>7. WrittenOnce' /\ Written'
  BY <1>5 DEF DeliveryOK, WrittenOnce, Written
<1> QED
  BY <1>2, <1>3, <1>4, <1>6, <1>7

LEMMA BroadcastKeeps == IInv /\ Broadcast => IInv'
<1> SUFFICES ASSUME IInv, Broadcast PROVE IInv'
  OBVIOUS
<1> USE DEF IInv, TypeOK, Broadcast, stream, incus, delivery, others
<1>1. \A c \in Clients : writing'[c] \in {writing[c], writing[c] \union {current}}
  OBVIOUS
<1>2. StreamOK' /\ FlagsOK'
  BY DEF StreamOK, FlagsOK
<1>3. DeliveryOK'
  BY DEF StreamOK, DeliveryOK
<1>4. WrittenOnce' /\ Written'
  BY <1>1 DEF StreamOK, DeliveryOK, WrittenOnce, Written
<1> QED
  BY <1>2, <1>3, <1>4 DEF InOrder, Increasing, UnderWay, EventsAccountedFor

(* What leaves the way of the events alone keeps its invariants.           *)
way == <<emitted, current, wire, held, eventCh, lost>>

LEMMA WayKept ==
    ASSUME InOrder, EventsAccountedFor, UNCHANGED way
    PROVE  InOrder' /\ EventsAccountedFor'
BY DEF InOrder, Increasing, UnderWay, EventsAccountedFor, way

(* Writers end, and clients come and go. *)
LEMMA WritersKeep ==
    ASSUME IInv, NEW c \in Clients, NEW e \in Events, Write(c, e) \/ WriteFails(c, e)
    PROVE  IInv'
<1> USE DEF IInv, TypeOK
<1>1. /\ UNCHANGED way
      /\ UNCHANGED <<up, conn, listener, forwarder, clients, busy, stopping>>
  BY DEF Write, WriteFails, stream, incus, delivery, others, way
<1>2. StreamOK' /\ FlagsOK'
  BY <1>1 DEF StreamOK, FlagsOK, way
<1>3. /\ writing' = [writing EXCEPT ![c] = @ \ {e}] /\ e \in writing[c]
      /\ got' \in {got, [got EXCEPT ![c] = @ \union {e}]}
      /\ peer' \in {peer, [peer EXCEPT ![c] = "closed"]}
  BY DEF Write, WriteFails, others
<1>4. \A d \in Clients : /\ writing'[d] \subseteq writing[d]
                         /\ writing'[d] \union got'[d] \subseteq writing[d] \union got[d]
                         /\ got'[d] \subseteq got[d] \union (writing[d] \ writing'[d])
  BY <1>3 DEF DeliveryOK
<1>5. DeliveryOK'
  <2>1. lost' \subseteq 1 .. emitted' /\ clients' \subseteq Clients
    BY <1>1 DEF DeliveryOK, way
  <2>2. writing' \in [Clients -> SUBSET Nat] /\ got' \in [Clients -> SUBSET Nat]
    BY <1>3 DEF DeliveryOK
  <2>3. peer' \in [Clients -> {"reads", "stalls", "closed"}]
    BY <1>3 DEF DeliveryOK
  <2> QED
    BY <2>1, <2>2, <2>3 DEF DeliveryOK
<1>6. current' = current /\ forwarder' = forwarder
  BY <1>1 DEF way
<1>7. WrittenOnce' /\ Written'
  BY <1>4, <1>6 DEF WrittenOnce, Written
<1> QED
  BY <1>1, <1>2, <1>5, <1>7, WayKept

LEMMA LockGrantedKeeps == IInv /\ LockGranted => IInv'
<1> SUFFICES ASSUME IInv, LockGranted PROVE IInv'
  OBVIOUS
<1> USE DEF IInv, TypeOK
<1>1. /\ UNCHANGED way
      /\ UNCHANGED <<up, conn, listener, forwarder, writing, stopping>>
      /\ busy' = FALSE
  BY DEF LockGranted, stream, incus, way
<1>2. StreamOK' /\ FlagsOK'
  BY <1>1 DEF StreamOK, FlagsOK, way
<1>3. DeliveryOK' /\ WrittenOnce' /\ Written'
  <2>1. ASSUME NEW c \in Clients, Join(c)
        PROVE  DeliveryOK' /\ WrittenOnce' /\ Written'
    BY <1>1, <2>1 DEF Join, way, DeliveryOK, WrittenOnce, Written
  <2>2. ASSUME NEW c \in Clients, Leave(c)
        PROVE  DeliveryOK' /\ WrittenOnce' /\ Written'
    BY <1>1, <2>2 DEF Leave, way, DeliveryOK, WrittenOnce, Written
  <2>3. CASE UNCHANGED <<clients, peer, got>>
    BY <1>1, <2>3 DEF way, DeliveryOK, WrittenOnce, Written
  <2> QED
    BY <2>1, <2>2, <2>3 DEF LockGranted
<1> QED
  BY <1>1, <1>2, <1>3, WayKept

LEMMA NextIInv == IInv /\ [Next]_vars => IInv'
<1> SUFFICES ASSUME IInv, [Next]_vars PROVE IInv'
  OBVIOUS
<1>1. CASE \/ IncusStops \/ IncusStarts \/ IncusCloses \/ Dial \/ Retry
           \/ ForwarderStops \/ LockWanted \/ Stop \/ UNCHANGED vars
  <2>1. UNCHANGED way /\ UNCHANGED <<clients, peer, writing, got>>
    BY <1>1 DEF IncusStops, IncusStarts, IncusCloses, Dial, Retry, ForwarderStops, LockWanted, Stop,
                vars, stream, incus, delivery, others, way
  <2>2. StreamOK'
    BY <1>1, <2>1 DEF IncusStops, IncusStarts, IncusCloses, Closes, Dial, Retry, ForwarderStops, LockWanted,
                      Stop, vars, stream, way, IInv, TypeOK, StreamOK
  <2>3. DeliveryOK'
    BY <2>1 DEF way, IInv, TypeOK, DeliveryOK
  <2>4. FlagsOK'
    BY <1>1 DEF IncusStops, IncusStarts, IncusCloses, Dial, Retry, ForwarderStops, LockWanted, Stop,
                vars, incus, others, IInv, TypeOK, FlagsOK
  <2>5. forwarder' = "broadcast" => forwarder = "broadcast"
    BY <1>1 DEF IncusStops, IncusStarts, IncusCloses, Dial, Retry, ForwarderStops, LockWanted, Stop, vars
  <2>6. WrittenOnce' /\ Written'
    BY <2>1, <2>5 DEF way, IInv, WrittenOnce, Written
  <2> QED
    BY <2>1, <2>2, <2>3, <2>4, <2>6, WayKept DEF IInv, TypeOK
<1>2. ASSUME NEW c \in Clients, PeerChanges(c)
      PROVE  IInv'
  <2>1. UNCHANGED way /\ UNCHANGED <<up, conn, listener, forwarder, clients, writing, got, busy, stopping>>
    BY <1>2 DEF PeerChanges, stream, incus, delivery, way
  <2>2. DeliveryOK'
    BY <1>2, <2>1 DEF PeerChanges, way, IInv, TypeOK, DeliveryOK
  <2>3. StreamOK' /\ FlagsOK' /\ WrittenOnce' /\ Written'
    BY <2>1 DEF way, IInv, TypeOK, StreamOK, FlagsOK, WrittenOnce, Written
  <2> QED
    BY <2>1, <2>2, <2>3, WayKept DEF IInv, TypeOK
<1> QED
  BY <1>1, <1>2, EmitKeeps, ReadKeeps, GiveUpKeeps, PushKeeps, TakeKeeps,
     BroadcastKeeps, WritersKeep, LockGrantedKeeps
     DEF Next, Listener

(* The events on their way are in order, and none of them is lost, whatever *)
(* becomes of connections, clients and the agent.                           *)
THEOREM Invariance == Spec => []IInv
BY InitIInv, NextIInv, PTL DEF Spec

(* The stream stays within its ranges, for any capacities. *)
THEOREM TypeCorrect == Spec => []TypeOK
BY Invariance, PTL DEF IInv

(* Every event is accounted for, for any number of events and any capacity *)
(* of the channel and the connection.                                      *)
THEOREM NothingFallsOut == Spec => []EventsAccountedFor
BY Invariance, PTL DEF IInv

(* No client is sent an event twice.                                       *)
THEOREM NoEventTwice == Spec => []WrittenOnce
BY Invariance, PTL DEF IInv

----------------------------------------------------------------------------
(* The refinement *)

LEMMA InitRefines == Init => Relay!Init
BY DEF Init, Relay!Init

(* A step that takes no event and emits none leaves the promise as it is,  *)
(* or loses events that were not passed on.                                *)
LEMMA NextRefines == IInv /\ [Next]_vars => [Relay!Next]_(Relay!relay)
<1> SUFFICES ASSUME IInv, [Next]_vars PROVE [Relay!Next]_(Relay!relay)
  OBVIOUS
<1> USE DEF Relay!Next, Relay!relay, stream, incus, delivery, others
<1>1. CASE Emit
  BY <1>1 DEF Emit, Relay!Emit
<1>2. CASE ReadFails \/ ListenerStops
  <2>1. \A e \in Elements(wire) \union ({held} \ {0}) : e \in current + 1 .. emitted
    BY ElementsInOrder DEF IInv, TypeOK, StreamOK, InOrder, UnderWay
  <2>2. /\ lost' = lost \union (Elements(wire) \union ({held} \ {0}))
        /\ UNCHANGED <<emitted, current>>
    BY <1>2 DEF ReadFails, ListenerStops, GiveUpConnection
  <2>3. lost \subseteq lost' /\ lost' \subseteq lost \union (current + 1 .. emitted)
    BY <2>1, <2>2
  <2>4. Relay!Lose
    BY <2>2, <2>3 DEF Relay!Lose
  <2> QED
    BY <2>4
<1>3. CASE Take
  <2>1. /\ Head(eventCh) = eventCh[1] /\ Len(eventCh) > 0 /\ Len(eventCh) \in Nat
        /\ eventCh[1] \in Nat /\ current' = eventCh[1]
    BY <1>3, TailElements DEF Take, IInv, TypeOK, StreamOK
  <2>2. current' \in (current + 1 .. emitted) \ lost
    BY <2>1 DEF IInv, TypeOK, StreamOK, InOrder, UnderWay
  <2>3. \A i \in 1 .. Len(eventCh) : eventCh[i] >= current'
    BY <2>1 DEF IInv, TypeOK, StreamOK, InOrder, Increasing
  <2>4. \A i \in 1 .. Len(wire) : wire[i] >= current'
    BY <2>1 DEF IInv, TypeOK, StreamOK, InOrder
  <2>5. held = 0 \/ held >= current'
    BY <2>1 DEF IInv, TypeOK, StreamOK, InOrder
  <2>6. \A e \in current + 1 .. current' - 1 : e \in lost
    <3>1. SUFFICES ASSUME NEW e \in current + 1 .. current' - 1, e \notin lost
                   PROVE  FALSE
      OBVIOUS
    <3>2. e \in Nat /\ e > current /\ e < current' /\ e \in 1 .. emitted /\ e # 0
      BY <2>1, <2>2 DEF IInv, TypeOK, StreamOK
    <3>3. e \in Elements(eventCh) \union {held} \union Elements(wire)
      BY <3>1, <3>2 DEF IInv, EventsAccountedFor
    <3> QED
      BY <2>1, <2>3, <2>4, <2>5, <3>2, <3>3 DEF Elements
  <2>7. Relay!PassOn
    BY <1>3, <2>2, <2>6 DEF Take, Relay!PassOn
  <2> QED
    BY <2>7
<1>4. CASE \/ IncusStops \/ IncusStarts \/ IncusCloses \/ Dial \/ Read \/ Push \/ Retry
           \/ Broadcast \/ ForwarderStops \/ LockWanted \/ LockGranted \/ Stop
  BY <1>4 DEF IncusStops, IncusStarts, IncusCloses, Dial, Read, Push, Retry, Broadcast,
              ForwarderStops, LockWanted, LockGranted, Stop
<1>5. ASSUME NEW c \in Clients, \/ PeerChanges(c)
                                \/ \E e \in Events : Write(c, e) \/ WriteFails(c, e)
      PROVE  [Relay!Next]_(Relay!relay)
  BY <1>5 DEF PeerChanges, Write, WriteFails
<1>6. CASE UNCHANGED vars
  BY <1>6 DEF vars
<1> QED
  BY <1>1, <1>2, <1>3, <1>4, <1>5, <1>6 DEF Next, Listener

(* The stream passes events on in order, once, and leaves out only what it *)
(* lost, for any number of events, clients and any capacities.             *)
THEOREM StreamImplementsRelay == Spec => ImplementsRelay
<1>1. Spec => []IInv
  BY Invariance
<1> QED
  BY <1>1, InitRefines, NextRefines, PTL DEF Spec, ImplementsRelay, Relay!Spec
=============================================================================
