--------------------------- MODULE NetworkProofs ---------------------------
(***************************************************************************)
(* What a report tells of the host, and the verdict on an apply request,   *)
(* for every host, every order in which commands and changes of the host   *)
(* follow each other, and every body.  Both rest on loops over lists of    *)
(* any length: the parser of the output of wg and the validation of peers. *)
(***************************************************************************)
EXTENDS Network, Loops, FiniteSetTheorems, SequenceTheorems, TLAPS

----------------------------------------------------------------------------
(* Lists *)

(* A listing of a finite set. *)
LEMMA Listed ==
    ASSUME NEW S, IsFiniteSet(S)
    PROVE  /\ SetToSeq(S) \in Seq(S)
           /\ Len(SetToSeq(S)) = Cardinality(S)
           /\ \A i, j \in 1 .. Cardinality(S) : SetToSeq(S)[i] = SetToSeq(S)[j] => i = j
           /\ \A x \in S : \E i \in 1 .. Cardinality(S) : SetToSeq(S)[i] = x
<1> DEFINE n == Cardinality(S)
           f == SetToSeq(S)
<1>1. n \in Nat /\ ExistsBijection(1 .. n, S)
  BY FS_CardinalityType
<1>2. \E g \in [1 .. n -> S] : IsInjective(g)
  BY <1>1 DEF ExistsBijection, Bijection, Injection, IsInjective
<1>3. f \in [1 .. n -> S] /\ IsInjective(f)
  BY <1>2 DEF SetToSeq
<1>4. f \in Injection(1 .. n, S)
  BY <1>3 DEF IsInjective, Injection
<1>5. IsFiniteSet(1 .. n) /\ Cardinality(1 .. n) = n
  BY <1>1, FS_Interval
<1>6. f \in Surjection(1 .. n, S)
  BY <1>4, <1>5, FS_Injection
<1>7. f \in Seq(S) /\ Len(f) = n
  BY <1>1, <1>3
<1> HIDE DEF n, f
<1>8. \A x \in S : \E i \in 1 .. n : f[i] = x
  BY <1>6 DEF Surjection
<1>9. \A i, j \in 1 .. n : f[i] = f[j] => i = j
  BY <1>3 DEF IsInjective
<1> QED BY <1>7, <1>8, <1>9 DEF n, f

----------------------------------------------------------------------------
(* The validation of an apply request *)

LEMMA AddressFaultSays ==
    ASSUME NEW s \in Seq(Addresses), NEW p
    PROVE  \/ /\ AddressFault(s, p) = Fine
              /\ \A j \in 1 .. Len(s) : isValidCidr(s[j])
           \/ /\ AddressFault(s, p) \in {Wrong("long address", p), Wrong("no cidr", p)}
              /\ ~ \A j \in 1 .. Len(s) : isValidCidr(s[j])
<1> DEFINE I == {j \in 1 .. Len(s) : s[j] = "long" \/ ~isValidCidr(s[j])}
           bad == IF I # {} THEN Min(I) ELSE 0
<1>1. AddressFault(s, p) =
          IF bad = 0 THEN Fine ELSE Wrong(IF s[bad] = "long" THEN "long address" ELSE "no cidr", p)
  BY DEF AddressFault, SelectInSeq
<1>2. I = {j \in 1 .. Len(s) : ~isValidCidr(s[j])}
  BY DEF isValidCidr
<1>3. I \subseteq Nat /\ 0 \notin I
  OBVIOUS
<1> HIDE DEF I
<1>4. CASE I = {}
  BY <1>1, <1>2, <1>4
<1>5. CASE I # {}
  <2>1. Min(I) \in I
    BY <1>3, <1>5, MinIsIn
  <2>2. bad # 0
    BY <1>3, <1>5, <2>1
  <2>3. ~ \A j \in 1 .. Len(s) : isValidCidr(s[j])
    BY <1>2, <1>5
  <2> HIDE DEF bad
  <2> QED BY <1>1, <2>2, <2>3
<1> QED BY <1>4, <1>5

(* The first k peers pass. *)
Stand(peers, k) ==
    /\ \A j \in 1 .. k : SoundPeer(peers[j])
    /\ \A i, j \in 1 .. k : peers[i].key = peers[j].key => i = j

LEMMA StandPrefix ==
    ASSUME NEW peers, NEW n \in Nat, NEW k \in 0 .. n, Stand(peers, n)
    PROVE  Stand(peers, k)
<1>1. 1 .. k \subseteq 1 .. n
  OBVIOUS
<1> QED BY <1>1 DEF Stand

(* f is a fault of peer j, the first that does not pass. *)
FirstBad(f, peers, j) ==
    /\ f # Fine
    /\ Stand(peers, j - 1) /\ ~Stand(peers, j)
    /\ f.peer # 0 => f.peer = j
    /\ f.what = "duplicate key" => ~DistinctKeys(peers)

(* What the loop knows after k turns. *)
LoopSays(l, peers, k) ==
    \/ /\ l.fault = Fine /\ l.at = k
       /\ l.seen = {peers[j].key : j \in 1 .. k}
       /\ Stand(peers, k)
    \/ \E j \in 1 .. k : FirstBad(l.fault, peers, j)

LEMMA PeerFaultSays ==
    ASSUME NEW peers \in Seq(PeerSpec), NEW k \in 1 .. Len(peers), Stand(peers, k - 1)
    PROVE  LET f == PeerFault(peers[k], {peers[j].key : j \in 1 .. k - 1}, k)
           IN  (f = Fine /\ Stand(peers, k)) \/ FirstBad(f, peers, k)
<1> DEFINE peer == peers[k]
           seen == {peers[j].key : j \in 1 .. k - 1}
           f == PeerFault(peer, seen, k)
<1> SUFFICES (f = Fine /\ Stand(peers, k)) \/ FirstBad(f, peers, k)
  OBVIOUS
<1>1. peer \in PeerSpec
  BY ElementOfSeq
<1>2. peer.allowedIps \in Seq(Addresses)
  BY <1>1 DEF PeerSpec
<1>3. SoundPeer(peer) /\ peer.key \notin seen => Stand(peers, k)
  BY DEF Stand
<1>4. ~SoundPeer(peer) => ~Stand(peers, k)
  BY DEF Stand
<1>5. peer.key \in seen => ~Stand(peers, k) /\ ~DistinctKeys(peers)
  <2> SUFFICES ASSUME NEW j \in 1 .. k - 1, peers[j].key = peers[k].key
               PROVE  ~Stand(peers, k) /\ ~DistinctKeys(peers)
    OBVIOUS
  <2>1. j \in 1 .. k /\ k \in 1 .. k /\ j # k /\ j \in 1 .. Len(peers)
    OBVIOUS
  <2> QED BY <2>1 DEF Stand, DistinctKeys
<1>6. seen \subseteq Keys
  BY DEF Stand, SoundPeer
<1> HIDE DEF seen, peer
<1>7. ASSUME NEW w \in {"no key", "long key", "too many allowed IPs", "long address", "no cidr"},
             f = Wrong(w, k), ~SoundPeer(peer)
      PROVE  FirstBad(f, peers, k)
  <2> HIDE DEF f
  <2>1. f # Fine /\ f.peer = k /\ f.what # "duplicate key"
    BY <1>7 DEF Wrong, Fine
  <2> QED BY <1>4, <1>7, <2>1 DEF FirstBad
<1>8. CASE peer.key = MissingKey
  <2>1. f = Wrong("no key", k)
    BY <1>6, <1>8, KeysAssumption DEF PeerFault
  <2>2. ~SoundPeer(peer)
    BY <1>8, KeysAssumption DEF SoundPeer
  <2> HIDE DEF f
  <2> QED BY <1>7, <2>1, <2>2
<1>9. CASE peer.key = LongKey
  <2>1. f = Wrong("long key", k)
    BY <1>6, <1>9, KeysAssumption DEF PeerFault
  <2>2. ~SoundPeer(peer)
    BY <1>9, KeysAssumption DEF SoundPeer
  <2> HIDE DEF f
  <2> QED BY <1>7, <2>1, <2>2
<1>10. CASE peer.key \notin {MissingKey, LongKey} /\ peer.key \in seen
  <2>1. f = Wrong("duplicate key", 0)
    BY <1>10 DEF PeerFault
  <2> HIDE DEF f
  <2>2. f # Fine /\ f.peer = 0
    BY <2>1 DEF Wrong, Fine
  <2> QED BY <1>5, <1>10, <2>2 DEF FirstBad
<1>11. CASE peer.key \notin {MissingKey, LongKey} /\ peer.key \notin seen
  <2>1. peer.key \in Keys
    BY <1>1, <1>11 DEF PeerSpec
  <2>2. f = IF Len(peer.allowedIps) > MaxAllowedIps THEN Wrong("too many allowed IPs", k)
            ELSE AddressFault(peer.allowedIps, k)
    BY <1>11 DEF PeerFault
  <2>3. Len(peer.allowedIps) \in Nat
    BY <1>2
  <2>4. CASE Len(peer.allowedIps) > MaxAllowedIps
    <3>1. ~SoundPeer(peer)
      BY <2>3, <2>4, LimitsAssumption DEF SoundPeer
    <3> HIDE DEF f
    <3> QED BY <1>7, <2>2, <2>4, <3>1
  <2>5. CASE ~ (Len(peer.allowedIps) > MaxAllowedIps)
    <3>1. f = AddressFault(peer.allowedIps, k)
      BY <2>2, <2>5
    <3>2. SoundPeer(peer) <=> \A j \in 1 .. Len(peer.allowedIps) : isValidCidr(peer.allowedIps[j])
      BY <2>1, <2>3, <2>5, LimitsAssumption DEF SoundPeer
    <3>3. \/ f = Fine /\ SoundPeer(peer)
          \/ f \in {Wrong("long address", k), Wrong("no cidr", k)} /\ ~SoundPeer(peer)
      BY <1>2, <3>1, <3>2, AddressFaultSays
    <3> HIDE DEF f
    <3> QED BY <1>3, <1>7, <1>11, <3>3
  <2> QED BY <2>4, <2>5
<1> QED BY <1>8, <1>9, <1>10, <1>11

LEMMA NextPeerSays ==
    ASSUME NEW peers \in Seq(PeerSpec), NEW k \in 1 .. Len(peers), NEW l,
           LoopSays(l, peers, k - 1)
    PROVE  LoopSays(NextPeer(l, peers[k]), peers, k)
<1>1. CASE l.fault # Fine
  <2>1. NextPeer(l, peers[k]) = l
    BY <1>1 DEF NextPeer
  <2> QED BY <1>1, <2>1 DEF LoopSays
<1>2. CASE l.fault = Fine
  <2> DEFINE seen == {peers[j].key : j \in 1 .. k - 1}
             m == NextPeer(l, peers[k])
  <2>1. l.at = k - 1 /\ l.seen = seen /\ Stand(peers, k - 1)
    BY <1>2 DEF LoopSays, FirstBad
  <2>2. m = [seen |-> seen \union {peers[k].key}, at |-> (k - 1) + 1,
             fault |-> PeerFault(peers[k], seen, (k - 1) + 1)]
    BY <1>2, <2>1 DEF NextPeer
  <2>3. (k - 1) + 1 = k
    OBVIOUS
  <2> HIDE DEF m
  <2>4. m.at = k /\ m.seen = seen \union {peers[k].key} /\ m.fault = PeerFault(peers[k], seen, k)
    BY <2>2, <2>3
  <2>5. m.seen = {peers[j].key : j \in 1 .. k}
    BY <2>4
  <2>6. (m.fault = Fine /\ Stand(peers, k)) \/ FirstBad(m.fault, peers, k)
    BY <2>1, <2>4, PeerFaultSays
  <2>7. k \in 1 .. k
    OBVIOUS
  <2>8. LoopSays(m, peers, k)
    BY <2>4, <2>5, <2>6, <2>7, Zenon DEF LoopSays
  <2> QED BY <2>8 DEF m
<1> QED BY <1>1, <1>2

(* The verdict on the peers: fine if all pass, or a fault of the first     *)
(* that does not.                                                          *)
LEMMA PeersVerdict ==
    ASSUME NEW peers \in Seq(PeerSpec), Len(peers) <= MaxPeers
    PROVE  \/ validatePeers(peers) = Fine /\ Stand(peers, Len(peers))
           \/ \E j \in 1 .. Len(peers) : FirstBad(validatePeers(peers), peers, j)
<1> DEFINE n == Len(peers)
           Allkeys == Keys \union {LongKey, MissingKey}
           Faults == {Fine} \union {PeerFault(p, s, i) : p \in PeerSpec, s \in SUBSET Allkeys, i \in Nat}
           T == [seen : SUBSET Allkeys, at : Nat, fault : Faults]
           b == [seen |-> {}, at |-> 0, fault |-> Fine]
           step == [i \in 1 .. n |-> [l \in T |-> NextPeer(l, peers[i])]]
           def(t) == t = [i \in 0 .. n |-> IF i = 0 THEN b ELSE NextPeer(t[i - 1], peers[i])]
           loop == CHOOSE t : def(t)
<1>1. n \in Nat /\ b \in T
  OBVIOUS
<1>2. ASSUME NEW i \in 1 .. n, NEW l \in T PROVE NextPeer(l, peers[i]) \in T
  <2>0. peers[i] \in PeerSpec
    BY ElementOfSeq
  <2>1. peers[i] \in PeerSpec /\ peers[i].key \in Allkeys
    BY <2>0 DEF PeerSpec
  <2>2. l.seen \in SUBSET Allkeys /\ l.at + 1 \in Nat
    OBVIOUS
  <2>3. PeerFault(peers[i], l.seen, l.at + 1) \in Faults
    BY <2>1, <2>2
  <2> HIDE DEF Faults, Allkeys
  <2> QED BY <2>1, <2>2, <2>3 DEF NextPeer
<1> HIDE DEF T, b, n, def, loop
<1>3. step \in [1 .. n -> [T -> T]]
  BY <1>2
<1>4. \A i \in 1 .. n, l \in T : step[i][l] = NextPeer(l, peers[i])
  OBVIOUS
<1> HIDE DEF step
<1>5. PICK t : IsHistory(t, n, T, b, step)
  BY <1>1, <1>3, LoopRuns
<1>6. def(t)
  <2>1. t \in [0 .. n -> T] /\ t[0] = b /\ \A i \in 1 .. n : t[i] = step[i][t[i - 1]]
    BY <1>5 DEF IsHistory
  <2>2. ASSUME NEW i \in 1 .. n PROVE t[i] = NextPeer(t[i - 1], peers[i])
    <3>1. t[i - 1] \in T
      BY <1>1, <2>1
    <3> QED BY <1>4, <2>1, <3>1
  <2> QED BY <2>1, <2>2 DEF def
<1>7. def(loop)
  BY <1>6, Zenon DEF loop
<1>8. loop[0] = b /\ \A i \in 1 .. n : loop[i] = NextPeer(loop[i - 1], peers[i])
  BY <1>1, <1>7 DEF def
<1>9. validatePeers(peers) = loop[n].fault
  <2>1. ~ (Len(peers) > MaxPeers)
    BY LimitsAssumption
  <2> QED BY <2>1 DEF validatePeers, loop, def, n, b
<1> DEFINE S == {k \in 0 .. n : LoopSays(loop[k], peers, k)}
<1>10. 0 \in S
  BY <1>1, <1>8 DEF LoopSays, Stand, b
<1>11. ASSUME NEW k \in 0 .. n - 1, k \in S PROVE k + 1 \in S
  <2>1. k + 1 \in 1 .. Len(peers) /\ (k + 1) - 1 = k
    BY <1>1 DEF n
  <2>2. LoopSays(NextPeer(loop[k], peers[k + 1]), peers, k + 1)
    BY <1>11, <2>1, NextPeerSays
  <2> QED BY <1>8, <2>1, <2>2 DEF n
<1> HIDE DEF S
<1>12. 0 .. n \subseteq S
  BY <1>1, <1>10, <1>11, LoopStays
<1>13. n \in S
  BY <1>1, <1>12
<1> QED BY <1>9, <1>13 DEF S, LoopSays, n

(* All that is asked of a body but of its peers. *)
HeadFormed(b) ==
    /\ b.mode \in Modes /\ b.name \in Manageable
    /\ 1 <= b.port /\ b.port <= MaxPort
    /\ Len(b.addresses) <= MaxAddresses
    /\ \A j \in 1 .. Len(b.addresses) : isValidCidr(b.addresses[j])

LEMMA MaxPortIsInt == MaxPort \in Int
  BY SMT DEF MaxPort

(* What may be wrong with a body but for its peers. *)
HeadFaults ==
    {"missing", "large", "undecodable", "unknown field", "more than one", "mode",
     "not managed", "port", "too many addresses", "long address", "no cidr", "too many peers"}

LEMMA InterfaceVerdict ==
    ASSUME NEW b \in ApplyRequest, b.mode \in Modes
    PROVE  \/ validateInterface(b) = Fine /\ HeadFormed(b)
           \/ \E w \in HeadFaults : validateInterface(b) = Wrong(w, 0) /\ ~HeadFormed(b)
<1>0. ASSUME NEW w \in {"not managed", "port", "too many addresses", "long address", "no cidr"}
      PROVE  w \in HeadFaults
  BY DEF HeadFaults
<1>1. b.addresses \in Seq(Addresses) /\ b.port \in Int /\ MaxPort \in Int
  BY MaxPortIsInt DEF ApplyRequest
<1>2. CASE b.name \notin Manageable
  <2>1. validateInterface(b) = Wrong("not managed", 0)
    BY <1>2 DEF validateInterface, isManagedInterfaceName
  <2>2. ~HeadFormed(b)
    BY <1>2 DEF HeadFormed
  <2> QED BY <1>0, <2>1, <2>2
<1>3. CASE b.name \in Manageable /\ (b.port < 1 \/ b.port > MaxPort)
  <2>1. validateInterface(b) = Wrong("port", 0)
    BY <1>3 DEF validateInterface, isManagedInterfaceName
  <2>2. ~HeadFormed(b)
    BY <1>1, <1>3 DEF HeadFormed
  <2> QED BY <1>0, <2>1, <2>2
<1>4. CASE b.name \in Manageable /\ ~(b.port < 1 \/ b.port > MaxPort)
  <2>1. validateInterface(b) = IF Len(b.addresses) > MaxAddresses THEN Wrong("too many addresses", 0)
                               ELSE AddressFault(b.addresses, 0)
    BY <1>4 DEF validateInterface, isManagedInterfaceName
  <2>2. HeadFormed(b) <=> /\ Len(b.addresses) <= MaxAddresses
                          /\ \A j \in 1 .. Len(b.addresses) : isValidCidr(b.addresses[j])
    BY <1>1, <1>4 DEF HeadFormed
  <2>3. Len(b.addresses) \in Nat
    BY <1>1
  <2>4. CASE Len(b.addresses) > MaxAddresses
    <3>1. validateInterface(b) = Wrong("too many addresses", 0)
      BY <2>1, <2>4
    <3>2. ~HeadFormed(b)
      BY <2>2, <2>3, <2>4, LimitsAssumption
    <3> QED BY <1>0, <3>1, <3>2
  <2>5. CASE ~ (Len(b.addresses) > MaxAddresses)
    <3>1. validateInterface(b) = AddressFault(b.addresses, 0)
      BY <2>1, <2>5
    <3>2. HeadFormed(b) <=> \A j \in 1 .. Len(b.addresses) : isValidCidr(b.addresses[j])
      BY <2>2, <2>3, <2>5, LimitsAssumption
    <3>3. \/ validateInterface(b) = Fine /\ HeadFormed(b)
          \/ /\ validateInterface(b) \in {Wrong("long address", 0), Wrong("no cidr", 0)}
             /\ ~HeadFormed(b)
      BY <1>1, <3>1, <3>2, AddressFaultSays
    <3> QED BY <1>0, <3>3
  <2> QED BY <2>4, <2>5
<1> QED BY <1>2, <1>3, <1>4

LEMMA PrefixFormed ==
    ASSUME NEW b \in ApplyRequest, HeadFormed(b), Len(b.peers) <= MaxPeers,
           NEW k \in 0 .. Len(b.peers)
    PROVE  WellFormed([b EXCEPT !.peers = SubSeq(b.peers, 1, k)]) <=> Stand(b.peers, k)
<1> DEFINE s == SubSeq(b.peers, 1, k)
           c == [b EXCEPT !.peers = s]
<1>1. b.peers \in Seq(PeerSpec)
  BY DEF ApplyRequest
<1>2. s \in Seq(PeerSpec) /\ Len(s) = k /\ \A j \in 1 .. k : s[j] = b.peers[j]
  BY <1>1, SubSeqProperties
<1> HIDE DEF s
<1>3. /\ c.form = "decoded" /\ c.mode = b.mode /\ c.name = b.name /\ c.port = b.port
      /\ c.addresses = b.addresses /\ c.peers = s
  BY DEF ApplyRequest
<1>4. Len(b.peers) \in Nat /\ k <= MaxPeers
  BY <1>1, LimitsAssumption
<1> HIDE DEF c
<1>5. WellFormed(c) <=> (\A i \in 1 .. k : SoundPeer(s[i])) /\ DistinctKeys(s)
  BY <1>2, <1>3, <1>4 DEF WellFormed, HeadFormed
<1>6. (\A i \in 1 .. k : SoundPeer(s[i])) /\ DistinctKeys(s) <=> Stand(b.peers, k)
  BY <1>2 DEF Stand, DistinctKeys
<1> QED BY <1>5, <1>6 DEF c, s

(* Exactly the well-formed bodies pass, and what is said of the others is  *)
(* true of them.                                                           *)
LEMMA ValidateSays ==
    ASSUME NEW b \in ApplyRequest \union NoRequest
    PROVE  LET f == Validate(b)
           IN  \/ f = Fine /\ WellFormed(b)
               \/ /\ f # Fine /\ ~WellFormed(b)
                  /\ f.peer # 0 => Blamed(b, f.peer)
                  /\ f.what = "duplicate key" => ~DistinctKeys(b.peers)
<1> DEFINE f == Validate(b)
           Refused == /\ f # Fine /\ ~WellFormed(b)
                      /\ f.peer # 0 => Blamed(b, f.peer)
                      /\ f.what = "duplicate key" => ~DistinctKeys(b.peers)
<1>0. SUFFICES (f = Fine /\ WellFormed(b)) \/ Refused
  OBVIOUS
<1>1. ASSUME NEW w \in HeadFaults, f = Wrong(w, 0), ~WellFormed(b)
      PROVE  Refused
  <2>1. w # "nothing" /\ w # "duplicate key"
    BY DEF HeadFaults
  <2> HIDE DEF f
  <2>2. f # Fine /\ f.peer = 0 /\ f.what # "duplicate key"
    BY <1>1, <2>1 DEF Wrong, Fine
  <2> QED BY <1>1, <2>2
<1>2. CASE b \in NoRequest
  <2>1. b.form # "decoded" /\ b.form \in HeadFaults
    BY <1>2 DEF NoRequest, HeadFaults
  <2>2. f = Wrong(b.form, 0) /\ ~WellFormed(b)
    BY <2>1 DEF Validate, WellFormed
  <2> QED BY <1>1, <2>1, <2>2
<1>3. CASE b \in ApplyRequest
  <2>1. f = validateRequest(b) /\ b.form = "decoded" /\ b.peers \in Seq(PeerSpec)
    BY <1>3 DEF Validate, ApplyRequest
  <2>2. CASE b.mode \notin Modes
    <3>1. f = Wrong("mode", 0) /\ ~WellFormed(b)
      BY <2>1, <2>2 DEF validateRequest, WellFormed
    <3>2. "mode" \in HeadFaults
      BY DEF HeadFaults
    <3> QED BY <1>1, <3>1, <3>2
  <2>3. CASE b.mode \in Modes /\ ~HeadFormed(b)
    <3>1. PICK w \in HeadFaults : validateInterface(b) = Wrong(w, 0)
      BY <1>3, <2>3, InterfaceVerdict
    <3>2. Wrong(w, 0) # Fine
      BY DEF Wrong, Fine, HeadFaults
    <3>3. f = Wrong(w, 0) /\ ~WellFormed(b)
      BY <2>1, <2>3, <3>1, <3>2 DEF validateRequest, WellFormed, HeadFormed
    <3> HIDE DEF f
    <3> QED BY <1>1, <3>3
  <2>4. CASE b.mode \in Modes /\ HeadFormed(b)
    <3>1. f = validatePeers(b.peers)
      BY <1>3, <2>1, <2>4, InterfaceVerdict DEF validateRequest
    <3>2. Len(b.peers) \in Nat
      BY <2>1
    <3>3. CASE Len(b.peers) > MaxPeers
      <4>1. f = Wrong("too many peers", 0)
        BY <3>1, <3>3 DEF validatePeers
      <4>2. ~WellFormed(b)
        BY <3>2, <3>3, LimitsAssumption DEF WellFormed
      <4>3. "too many peers" \in HeadFaults
        BY DEF HeadFaults
      <4> QED BY <1>1, <4>1, <4>2, <4>3
    <3>4. CASE ~ (Len(b.peers) > MaxPeers)
      <4>1. Len(b.peers) <= MaxPeers
        BY <3>2, <3>4, LimitsAssumption
      <4>2. WellFormed(b) <=> Stand(b.peers, Len(b.peers))
        BY <2>1, <2>4, <4>1 DEF WellFormed, HeadFormed, Stand, DistinctKeys
      <4>3. CASE f = Fine /\ Stand(b.peers, Len(b.peers))
        BY <4>2, <4>3
      <4>4. ASSUME NEW j \in 1 .. Len(b.peers), FirstBad(f, b.peers, j)
            PROVE  Refused
        <5>1. ~Stand(b.peers, Len(b.peers))
          <6>1. ~Stand(b.peers, j)
            BY <4>4, Zenon DEF FirstBad
          <6>2. j \in 0 .. Len(b.peers)
            BY <3>2
          <6> QED BY <3>2, <6>1, <6>2, StandPrefix
        <5>2. Blamed(b, j)
          <6>1. j - 1 \in 0 .. Len(b.peers) /\ j \in 0 .. Len(b.peers)
            BY <3>2
          <6>2. WellFormed([b EXCEPT !.peers = SubSeq(b.peers, 1, j - 1)])
            BY <1>3, <2>4, <4>1, <4>4, <6>1, PrefixFormed DEF FirstBad
          <6>3. ~WellFormed([b EXCEPT !.peers = SubSeq(b.peers, 1, j)])
            BY <1>3, <2>4, <4>1, <4>4, <6>1, PrefixFormed DEF FirstBad
          <6> QED BY <6>2, <6>3 DEF Blamed
        <5> HIDE DEF f
        <5> QED BY <4>2, <4>4, <5>1, <5>2 DEF FirstBad
      <4> QED BY <2>1, <3>1, <4>1, <4>3, <4>4, PeersVerdict
    <3> QED BY <3>3, <3>4
  <2> QED BY <2>2, <2>3, <2>4
<1> QED BY <1>2, <1>3

LEMMA KeysCounted ==
    ASSUME NEW peers \in Seq(PeerSpec), DistinctKeys(peers)
    PROVE  Cardinality({peers[i].key : i \in DOMAIN peers}) = Len(peers)
<1> DEFINE n == Len(peers)
           K == {peers[i].key : i \in DOMAIN peers}
           f == [i \in 1 .. n |-> peers[i].key]
<1>1. n \in Nat /\ DOMAIN peers = 1 .. n
  OBVIOUS
<1>2. f \in Bijection(1 .. n, K)
  <2>1. f \in [1 .. n -> K]
    BY <1>1
  <2>2. \A i, j \in 1 .. n : f[i] = f[j] => i = j
    BY DEF DistinctKeys
  <2>3. \A k \in K : \E i \in 1 .. n : f[i] = k
    BY <1>1
  <2> HIDE DEF n, K, f
  <2> QED BY <2>1, <2>2, <2>3 DEF Bijection, Injection, Surjection, IsInjective
<1>3. IsFiniteSet(1 .. n) /\ Cardinality(1 .. n) = n
  BY <1>1, FS_Interval
<1> HIDE DEF n, K, f
<1>4. ExistsBijection(1 .. n, K)
  BY <1>2 DEF ExistsBijection
<1>5. Cardinality(K) = n
  BY <1>1, <1>4, FS_CountingElements
<1> QED BY <1>5 DEF n, K

(* What is answered to an apply request.                                   *)
ApplyAnswered(b, ended, a) ==
    \/ a.status = 503 /\ ended
    \/ /\ a.status = 200 /\ WellFormed(b)
       /\ a.peerCount = Cardinality({b.peers[i].key : i \in DOMAIN b.peers})
       /\ a.plan = "VALIDATED" <=> b.mode = "DRY_RUN"
    \/ /\ a.status = 400 /\ ~WellFormed(b)
       /\ a.error.peer # 0 => Blamed(b, a.error.peer)
       /\ a.error.what = "duplicate key" => ~DistinctKeys(b.peers)

LEMMA ApplySays ==
    ASSUME NEW b \in ApplyRequest \union NoRequest, NEW ended \in BOOLEAN
    PROVE  ApplyAnswered(b, ended, Apply(b, ended))
<1> DEFINE a == Apply(b, ended)
<1>1. CASE ended
  <2>1. a.status = 503
    BY <1>1 DEF Apply
  <2> QED BY <1>1, <2>1 DEF ApplyAnswered
<1>2. CASE ~ended /\ Validate(b) # Fine
  <2>1. a = [status |-> 400, error |-> Validate(b)]
    BY <1>2 DEF Apply
  <2> HIDE DEF a
  <2>2. a.status = 400 /\ a.error = Validate(b)
    BY <2>1
  <2>3. /\ ~WellFormed(b)
        /\ Validate(b).peer # 0 => Blamed(b, Validate(b).peer)
        /\ Validate(b).what = "duplicate key" => ~DistinctKeys(b.peers)
    BY <1>2, ValidateSays
  <2>4. ApplyAnswered(b, ended, a)
    BY <2>2, <2>3 DEF ApplyAnswered
  <2> QED BY <2>4 DEF a
<1>3. CASE ~ended /\ Validate(b) = Fine
  <2>1. WellFormed(b)
    BY <1>3, ValidateSays
  <2>2. a.status = 200 /\ a.peerCount = Len(b.peers)
        /\ a.plan = IF b.mode = "APPLY" THEN "APPLY_PLANNED" ELSE "VALIDATED"
    BY <1>3 DEF Apply
  <2>3. b.mode \in {"DRY_RUN", "APPLY"} /\ DistinctKeys(b.peers)
    BY <2>1 DEF WellFormed, Modes
  <2>4. b.peers \in Seq(PeerSpec)
    BY <2>1 DEF WellFormed, ApplyRequest, NoRequest
  <2> HIDE DEF a
  <2>5. a.plan = "VALIDATED" <=> b.mode = "DRY_RUN"
    BY <2>2, <2>3
  <2>6. ApplyAnswered(b, ended, a)
    BY <2>1, <2>2, <2>3, <2>4, <2>5, KeysCounted DEF ApplyAnswered
  <2> QED BY <2>6 DEF a
<1> QED BY <1>1, <1>2, <1>3

----------------------------------------------------------------------------
(* The parser of the output of wg *)

LineSet(K) == [name : Names, kind : {"interface", "peer"}, key : K]

(* What wg prints: every line once, and the line of an interface before    *)
(* those of its peers.                                                     *)
WellPrinted(lines, K) ==
    /\ lines \in Seq(LineSet(K))
    /\ \A i, j \in 1 .. Len(lines) :
           /\ lines[i].name = lines[j].name /\ lines[i].kind = lines[j].kind
           /\ lines[i].key = lines[j].key
           => i = j
    /\ \A i, j \in 1 .. Len(lines) :
           lines[i].kind = "interface" /\ lines[j].name = lines[i].name => i <= j
    /\ \A j \in 1 .. Len(lines) : lines[j].kind = "peer" =>
           \E i \in 1 .. Len(lines) : i < j /\ lines[i].name = lines[j].name

Entry(K) == [name : Prefixed, publicKey : K, peers : Seq(K), addresses : {{}}, status : {""}]

(* An entry says what the first k lines say of its interface. *)
EntryShows(e, lines, k) ==
    /\ \E j \in 1 .. k : lines[j].name = e.name /\ lines[j].kind = "interface" /\ lines[j].key = e.publicKey
    /\ \A p \in 1 .. Len(e.peers) :
           \E j \in 1 .. k : lines[j].name = e.name /\ lines[j].kind = "peer" /\ lines[j].key = e.peers[p]
    /\ \A j \in 1 .. k : lines[j].name = e.name /\ lines[j].kind = "peer" =>
           \E p \in 1 .. Len(e.peers) : e.peers[p] = lines[j].key
    /\ \A p, q \in 1 .. Len(e.peers) : e.peers[p] = e.peers[q] => p = q

(* A table has an entry for each managed interface of the first k lines.   *)
Tabled(t, lines, k, K) ==
    /\ t \in Seq(Entry(K))
    /\ \A i, j \in 1 .. Len(t) : t[i].name = t[j].name => i = j
    /\ \A j \in 1 .. k : lines[j].name \in Prefixed =>
           \E i \in 1 .. Len(t) : t[i].name = lines[j].name
    /\ \A i \in 1 .. Len(t) : EntryShows(t[i], lines, k)

LEMMA AtSays ==
    ASSUME NEW S, NEW t \in Seq(S), NEW name
    PROVE  \/ At(t, name) = 0 /\ \A i \in 1 .. Len(t) : t[i].name # name
           \/ At(t, name) \in 1 .. Len(t) /\ t[At(t, name)].name = name
<1> DEFINE I == {i \in 1 .. Len(t) : t[i].name = name}
<1>1. At(t, name) = IF I # {} THEN Min(I) ELSE 0
  BY DEF At, SelectInSeq
<1>2. I \subseteq Nat
  OBVIOUS
<1>3. CASE I = {}
  BY <1>1, <1>3
<1>4. CASE I # {}
  <2>1. Min(I) \in I
    BY <1>2, <1>4, MinIsIn
  <2> QED BY <1>1, <1>4, <2>1
<1> QED BY <1>3, <1>4

(* A line about something else leaves an entry as good as it was. *)
LEMMA EntryStays ==
    ASSUME NEW e, NEW lines, NEW k \in Nat, EntryShows(e, lines, k),
           lines[k + 1].name # e.name \/ lines[k + 1].kind # "peer"
    PROVE  EntryShows(e, lines, k + 1)
<1>1. 1 .. k \subseteq 1 .. k + 1 /\ \A j \in 1 .. k + 1 : j \in 1 .. k \/ j = k + 1
  OBVIOUS
<1> QED BY <1>1 DEF EntryShows

LEMMA ForeignLine ==
    ASSUME NEW K, NEW lines, NEW k \in Nat, NEW t, Tabled(t, lines, k, K),
           lines[k + 1].name \notin Prefixed
    PROVE  Tabled(t, lines, k + 1, K)
<1>1. \A j \in 1 .. k + 1 : j \in 1 .. k \/ j = k + 1
  OBVIOUS
<1>2. t \in Seq(Entry(K))
  BY DEF Tabled
<1>3. ASSUME NEW i \in 1 .. Len(t) PROVE EntryShows(t[i], lines, k + 1)
  <2>1. t[i] \in Entry(K)
    BY <1>2, ElementOfSeq
  <2>2. t[i].name \in Prefixed
    BY <2>1 DEF Entry
  <2>3. EntryShows(t[i], lines, k)
    BY DEF Tabled
  <2> QED BY <2>2, <2>3, EntryStays
<1> QED BY <1>1, <1>3 DEF Tabled

(* The line of an interface adds its entry. *)
LEMMA InterfaceLine ==
    ASSUME NEW K, NEW lines, WellPrinted(lines, K), NEW k \in Nat, k + 1 \in 1 .. Len(lines),
           NEW t, Tabled(t, lines, k, K),
           lines[k + 1].name \in Prefixed, lines[k + 1].kind = "interface"
    PROVE  Tabled(ParseLine(t, lines[k + 1]), lines, k + 1, K)
<1> DEFINE line == lines[k + 1]
           new == Parsed(line.name, line.key)
           u == Append(t, new)
           n == Len(t)
<1>1. lines \in Seq(LineSet(K)) /\ t \in Seq(Entry(K))
  BY DEF WellPrinted, Tabled
<1>2. line \in LineSet(K)
  BY <1>1, ElementOfSeq
<1>3. line.key \in K
  BY <1>2 DEF LineSet
<1>4. n \in Nat /\ Len(lines) \in Nat
  BY <1>1
<1>5. \A j \in 1 .. k : lines[j].name # line.name
  <2> SUFFICES ASSUME NEW j \in 1 .. k, lines[j].name = line.name PROVE FALSE
    OBVIOUS
  <2>1. j \in 1 .. Len(lines)
    BY <1>4
  <2>2. k + 1 <= j
    BY <2>1 DEF WellPrinted
  <2> QED BY <2>2
<1>6. \A i \in 1 .. n : t[i].name # line.name
  <2> SUFFICES ASSUME NEW i \in 1 .. n PROVE t[i].name # line.name
    OBVIOUS
  <2>1. \E j \in 1 .. k : lines[j].name = t[i].name
    BY DEF Tabled, EntryShows
  <2> QED BY <1>5, <2>1
<1>7. At(t, line.name) = 0
  BY <1>1, <1>6, AtSays
<1>8. ParseLine(t, line) = u
  BY <1>7 DEF ParseLine
<1>9. new \in Entry(K)
  BY <1>3 DEF Parsed, Entry
<1>10. /\ new.name = line.name /\ new.publicKey = line.key /\ new.peers = <<>>
  BY DEF Parsed
<1> HIDE DEF new, line
<1>11. /\ u \in Seq(Entry(K)) /\ Len(u) = n + 1 /\ u[n + 1] = new
       /\ \A i \in 1 .. n : u[i] = t[i]
  BY <1>1, <1>9
<1> HIDE DEF u, n
<1>12. \A i, j \in 1 .. n + 1 : u[i].name = u[j].name => i = j
  <2>1. \A i, j \in 1 .. n : u[i].name = u[j].name => i = j
    BY <1>11 DEF Tabled, n
  <2>2. \A i \in 1 .. n : u[i].name # u[n + 1].name
    BY <1>6, <1>10, <1>11
  <2>3. \A i \in 1 .. n + 1 : i \in 1 .. n \/ i = n + 1
    BY <1>4
  <2> QED BY <2>1, <2>2, <2>3
<1>13. ASSUME NEW j \in 1 .. k + 1, lines[j].name \in Prefixed
       PROVE  \E i \in 1 .. n + 1 : u[i].name = lines[j].name
  <2>1. CASE j = k + 1
    <3>1. u[n + 1].name = lines[j].name /\ n + 1 \in 1 .. n + 1
      BY <1>4, <1>10, <1>11, <2>1 DEF line
    <3> QED BY <3>1
  <2>2. CASE j \in 1 .. k
    <3>1. PICK i \in 1 .. n : t[i].name = lines[j].name
      BY <1>13, <2>2 DEF Tabled, n
    <3>2. u[i].name = lines[j].name /\ i \in 1 .. n + 1
      BY <1>4, <1>11, <3>1
    <3> QED BY <3>2
  <2> QED BY <2>1, <2>2
<1>14. ASSUME NEW i \in 1 .. n + 1 PROVE EntryShows(u[i], lines, k + 1)
  <2>1. CASE i \in 1 .. n
    <3>1. EntryShows(t[i], lines, k)
      BY <2>1 DEF Tabled, n
    <3>2. lines[k + 1].name # t[i].name
      BY <1>6, <2>1 DEF line
    <3> QED BY <1>11, <2>1, <3>1, <3>2, EntryStays
  <2>2. CASE i = n + 1
    <3>1. u[i] = new /\ Len(new.peers) = 0
      BY <1>10, <1>11, <2>2
    <3>2. \A j \in 1 .. k + 1 : lines[j].name = new.name => j = k + 1
      BY <1>5, <1>10
    <3>3. k + 1 \in 1 .. k + 1
      OBVIOUS
    <3>4. EntryShows(new, lines, k + 1)
      BY <1>10, <3>1, <3>2, <3>3 DEF EntryShows, line
    <3> QED BY <3>1, <3>4
  <2> QED BY <1>4, <2>1, <2>2
<1>15. Tabled(u, lines, k + 1, K)
  BY <1>11, <1>12, <1>13, <1>14 DEF Tabled
<1> QED BY <1>8, <1>15 DEF line

(* The line of a peer adds to the entry of its interface. *)
LEMMA PeerLine ==
    ASSUME NEW K, NEW lines, WellPrinted(lines, K), NEW k \in Nat, k + 1 \in 1 .. Len(lines),
           NEW t, Tabled(t, lines, k, K),
           lines[k + 1].name \in Prefixed, lines[k + 1].kind = "peer"
    PROVE  Tabled(ParseLine(t, lines[k + 1]), lines, k + 1, K)
<1> DEFINE line == lines[k + 1]
           i == At(t, line.name)
           e == t[i]
           new == [e EXCEPT !.peers = Append(e.peers, line.key)]
           u == [t EXCEPT ![i] = new]
           n == Len(t)
<1>1. lines \in Seq(LineSet(K)) /\ t \in Seq(Entry(K))
  BY DEF WellPrinted, Tabled
<1>2. line \in LineSet(K)
  BY <1>1, ElementOfSeq
<1>3. line.key \in K
  BY <1>2 DEF LineSet
<1>4. n \in Nat /\ Len(lines) \in Nat
  BY <1>1
<1>5. \E j \in 1 .. k : lines[j].name = line.name
  <2>1. PICK j \in 1 .. Len(lines) : j < k + 1 /\ lines[j].name = line.name
    BY DEF WellPrinted
  <2>2. j \in 1 .. k
    BY <2>1
  <2> QED BY <2>1, <2>2
<1>6. i \in 1 .. n /\ e.name = line.name
  <2>1. \E m \in 1 .. n : t[m].name = line.name
    BY <1>5 DEF Tabled
  <2> QED BY <1>1, <2>1, AtSays
<1>7. ParseLine(t, line) = u
  <2>1. i # 0
    BY <1>4, <1>6
  <2> QED BY <2>1 DEF ParseLine, AddPeer
<1>8. e \in Entry(K)
  BY <1>1, <1>6, ElementOfSeq
<1>9. e.peers \in Seq(K)
  BY <1>8 DEF Entry
<1> HIDE DEF i, e, line
<1>10. new \in Entry(K) /\ new.name = e.name /\ new.publicKey = e.publicKey
       /\ new.peers = Append(e.peers, line.key)
  <2> DEFINE ps == Append(e.peers, line.key)
  <2>1. ps \in Seq(K)
    BY <1>3, <1>9
  <2> HIDE DEF ps
  <2>2. [e EXCEPT !.peers = ps] \in Entry(K)
    BY <1>8, <2>1 DEF Entry
  <2>3. LET r == [e EXCEPT !.peers = ps]
        IN  r.name = e.name /\ r.publicKey = e.publicKey /\ r.peers = ps
    BY <1>8 DEF Entry
  <2> QED BY <2>2, <2>3 DEF ps
<1> HIDE DEF new
<1>11. u \in Seq(Entry(K)) /\ Len(u) = n /\ u[i] = new
       /\ \A m \in 1 .. n : m # i => u[m] = t[m]
  BY <1>1, <1>6, <1>10
<1> HIDE DEF u, n
<1>12. \A m \in 1 .. n : u[m].name = t[m].name
  BY <1>10, <1>11 DEF e
<1>13. \A a, b \in 1 .. n : u[a].name = u[b].name => a = b
  BY <1>12 DEF Tabled, n
<1>14. ASSUME NEW j \in 1 .. k + 1, lines[j].name \in Prefixed
       PROVE  \E m \in 1 .. n : u[m].name = lines[j].name
  <2>1. CASE j = k + 1
    BY <1>6, <1>12, <2>1 DEF line, e
  <2>2. CASE j \in 1 .. k
    BY <1>12, <1>14, <2>2 DEF Tabled, n
  <2> QED BY <2>1, <2>2
<1>15. ASSUME NEW m \in 1 .. n, m # i PROVE EntryShows(u[m], lines, k + 1)
  <2>1. EntryShows(t[m], lines, k)
    BY DEF Tabled, n
  <2>2. t[m].name # t[i].name
    BY <1>6, <1>15 DEF Tabled, n
  <2>3. lines[k + 1].name # t[m].name
    BY <1>6, <2>2 DEF line, e
  <2> QED BY <1>11, <1>15, <2>1, <2>3, EntryStays
<1>16. EntryShows(new, lines, k + 1)
  <2> DEFINE q == Len(e.peers)
  <2>1. q \in Nat /\ Len(new.peers) = q + 1 /\ new.peers[q + 1] = line.key
        /\ \A p \in 1 .. q : new.peers[p] = e.peers[p]
    BY <1>3, <1>9, <1>10
  <2> HIDE DEF q
  <2>2. EntryShows(e, lines, k)
    BY <1>6 DEF Tabled, n, e
  <2>3. /\ 1 .. k \subseteq 1 .. k + 1 /\ k + 1 \in 1 .. k + 1
        /\ \A j \in 1 .. k + 1 : j \in 1 .. k \/ j = k + 1
        /\ 1 .. q \subseteq 1 .. q + 1 /\ q + 1 \in 1 .. q + 1
        /\ \A p \in 1 .. q + 1 : p \in 1 .. q \/ p = q + 1
    BY <2>1
  <2>4. \E j \in 1 .. k + 1 :
            lines[j].name = new.name /\ lines[j].kind = "interface" /\ lines[j].key = new.publicKey
    BY <1>10, <2>2, <2>3 DEF EntryShows
  <2>5. \A p \in 1 .. q + 1 : \E j \in 1 .. k + 1 :
            lines[j].name = new.name /\ lines[j].kind = "peer" /\ lines[j].key = new.peers[p]
    BY <1>6, <1>10, <2>1, <2>2, <2>3 DEF EntryShows, line, q
  <2>6. \A j \in 1 .. k + 1 : lines[j].name = new.name /\ lines[j].kind = "peer" =>
            \E p \in 1 .. q + 1 : new.peers[p] = lines[j].key
    <3> SUFFICES ASSUME NEW j \in 1 .. k + 1, lines[j].name = e.name, lines[j].kind = "peer"
                 PROVE  \E p \in 1 .. q + 1 : new.peers[p] = lines[j].key
      BY <1>10
    <3>1. CASE j = k + 1
      BY <2>1, <2>3, <3>1 DEF line
    <3>2. CASE j \in 1 .. k
      <4>1. PICK p \in 1 .. q : e.peers[p] = lines[j].key
        BY <2>2, <3>2 DEF EntryShows, q
      <4> QED BY <2>1, <2>3, <4>1
    <3> QED BY <2>3, <3>1, <3>2
  <2>7. \A p \in 1 .. q : new.peers[p] # line.key
    <3> SUFFICES ASSUME NEW p \in 1 .. q, e.peers[p] = line.key PROVE FALSE
      BY <2>1
    <3>1. PICK j \in 1 .. k :
              lines[j].name = e.name /\ lines[j].kind = "peer" /\ lines[j].key = line.key
      BY <2>2 DEF EntryShows, q
    <3>2. j \in 1 .. Len(lines) /\ k + 1 \in 1 .. Len(lines) /\ j # k + 1
      BY <1>4
    <3> QED BY <1>6, <3>1, <3>2 DEF WellPrinted, line
  <2>8. \A p, r \in 1 .. q : new.peers[p] = new.peers[r] => p = r
    BY <2>1, <2>2 DEF EntryShows, q
  <2>9. \A p, r \in 1 .. q + 1 : new.peers[p] = new.peers[r] => p = r
    BY <2>1, <2>3, <2>7, <2>8
  <2> QED BY <2>1, <2>4, <2>5, <2>6, <2>9 DEF EntryShows
<1>17. \A m \in 1 .. n : EntryShows(u[m], lines, k + 1)
  BY <1>11, <1>15, <1>16
<1>18. Tabled(u, lines, k + 1, K)
  BY <1>11, <1>13, <1>14, <1>17 DEF Tabled
<1> QED BY <1>7, <1>18 DEF line

LEMMA NextLine ==
    ASSUME NEW K, NEW lines, WellPrinted(lines, K), NEW k \in Nat, k + 1 \in 1 .. Len(lines),
           NEW t, Tabled(t, lines, k, K)
    PROVE  Tabled(ParseLine(t, lines[k + 1]), lines, k + 1, K)
<1>1. lines \in Seq(LineSet(K))
  BY DEF WellPrinted
<1>2. lines[k + 1] \in LineSet(K)
  BY <1>1, ElementOfSeq
<1>3. lines[k + 1].kind \in {"interface", "peer"}
  BY <1>2 DEF LineSet
<1>4. CASE lines[k + 1].name \notin Prefixed
  <2>1. ParseLine(t, lines[k + 1]) = t
    BY <1>4 DEF ParseLine
  <2> QED BY <1>4, <2>1, ForeignLine
<1>5. CASE lines[k + 1].name \in Prefixed
  BY <1>3, <1>5, InterfaceLine, PeerLine
<1> QED BY <1>4, <1>5

LEMMA LinesTabled ==
    ASSUME NEW K, NEW lines, WellPrinted(lines, K), NEW f, f[0] = <<>>,
           \A i \in 1 .. Len(lines) :
               Tabled(f[i - 1], lines, i - 1, K) => f[i] = ParseLine(f[i - 1], lines[i])
    PROVE  \A k \in 0 .. Len(lines) : Tabled(f[k], lines, k, K)
<1> DEFINE n == Len(lines)
           S == {k \in 0 .. n : Tabled(f[k], lines, k, K)}
<1>1. n \in Nat
  <2>1. lines \in Seq(LineSet(K))
    BY DEF WellPrinted
  <2> QED BY <2>1
<1>2. 0 \in S
  <2>1. Tabled(<<>>, lines, 0, K)
    BY DEF Tabled
  <2> QED BY <1>1, <2>1
<1>3. ASSUME NEW k \in 0 .. n - 1, k \in S PROVE k + 1 \in S
  <2>1. k + 1 \in 1 .. Len(lines) /\ (k + 1) - 1 = k /\ k \in Nat /\ k + 1 \in 0 .. n
    BY <1>1
  <2>2. Tabled(f[k], lines, k, K)
    BY <1>3
  <2>3. f[k + 1] = ParseLine(f[k], lines[k + 1])
    BY <2>1, <2>2
  <2> QED BY <2>1, <2>2, <2>3, NextLine
<1> HIDE DEF S, n
<1>4. 0 .. n \subseteq S
  BY <1>1, <1>2, <1>3, LoopStays
<1> QED BY <1>4 DEF S, n

(* So the table of the parser shows all that was printed, and no more.     *)
LEMMA ParserTables ==
    ASSUME NEW K, NEW lines, WellPrinted(lines, K)
    PROVE  Tabled(ParseWireGuardDump(lines), lines, Len(lines), K)
<1> DEFINE n == Len(lines)
           T == Seq(Entry(K))
           b == <<>>
           def(t) == t = [i \in 0 .. n |-> IF i = 0 THEN b ELSE ParseLine(t[i - 1], lines[i])]
           table == CHOOSE t : def(t)
           step == [i \in 1 .. n |-> [t \in T |->
                       IF ParseLine(t, lines[i]) \in T THEN ParseLine(t, lines[i]) ELSE b]]
<1>1. n \in Nat
  <2>1. lines \in Seq(LineSet(K))
    BY DEF WellPrinted
  <2> QED BY <2>1
<1>2. b \in T
  OBVIOUS
<1> HIDE DEF T, n, b, def, table
<1>3. step \in [1 .. n -> [T -> T]]
  BY <1>2
<1>4. \A i \in 1 .. n, t \in T : ParseLine(t, lines[i]) \in T => step[i][t] = ParseLine(t, lines[i])
  OBVIOUS
<1> HIDE DEF step
<1>5. PICK t : IsHistory(t, n, T, b, step)
  BY <1>1, <1>2, <1>3, LoopRuns
<1>6. t \in [0 .. n -> T] /\ t[0] = b /\ \A i \in 1 .. n : t[i] = step[i][t[i - 1]]
  BY <1>5 DEF IsHistory
<1>7. ASSUME NEW i \in 1 .. n, Tabled(t[i - 1], lines, i - 1, K)
      PROVE  t[i] = ParseLine(t[i - 1], lines[i])
  <2>1. i - 1 \in Nat /\ (i - 1) + 1 = i /\ i - 1 \in 0 .. n
    BY <1>1
  <2>2. Tabled(ParseLine(t[i - 1], lines[i]), lines, i, K)
    BY <1>7, <2>1, NextLine DEF n
  <2>3. ParseLine(t[i - 1], lines[i]) \in T /\ t[i - 1] \in T
    BY <1>6, <2>1, <2>2 DEF Tabled, T
  <2> QED BY <1>4, <1>6, <2>3
<1>8. \A k \in 0 .. n : Tabled(t[k], lines, k, K)
  BY <1>6, <1>7, LinesTabled DEF n, b
<1>9. def(t)
  <2>1. ASSUME NEW i \in 1 .. n PROVE t[i] = ParseLine(t[i - 1], lines[i])
    <3>1. i - 1 \in 0 .. n
      BY <1>1
    <3> QED BY <1>7, <1>8, <3>1
  <2> QED BY <1>6, <2>1 DEF def
<1>10. def(table)
  BY <1>9, Zenon DEF table
<1>11. table[0] = b /\ \A i \in 1 .. n : table[i] = ParseLine(table[i - 1], lines[i])
  BY <1>1, <1>10 DEF def
<1>12. Tabled(table[n], lines, n, K)
  BY <1>1, <1>11, LinesTabled DEF n, b
<1>13. ParseWireGuardDump(lines) = table[n]
  BY DEF ParseWireGuardDump, table, def, n, b
<1> QED BY <1>12, <1>13 DEF n

----------------------------------------------------------------------------
(* The output of wg *)

LEMMA HostSays ==
    ASSUME NEW h \in Hosts
    PROVE  /\ DOMAIN h.wg \subseteq Names /\ IsFiniteSet(DOMAIN h.wg)
           /\ h.wg \in [DOMAIN h.wg -> Interfaces] /\ h.tools \subseteq Tools
           /\ h = [tools |-> h.tools, wg |-> h.wg]
<1>1. PICK N \in {M \in SUBSET Names : IsFiniteSet(M)} :
          h \in [tools : SUBSET Tools, wg : [N -> Interfaces]]
  BY DEF Hosts
<1>2. h.wg \in [N -> Interfaces] /\ h.tools \in SUBSET Tools /\ h = [tools |-> h.tools, wg |-> h.wg]
  BY <1>1
<1>3. DOMAIN h.wg = N
  BY <1>2
<1> QED BY <1>1, <1>2, <1>3

HostKeys(h) == {h.wg[n].publicKey : n \in DOMAIN h.wg}
                   \union UNION {h.wg[n].peers : n \in DOMAIN h.wg}

(* lines tell of the interfaces N of h, and of nothing else. *)
Prints(lines, h, N, K) ==
    /\ WellPrinted(lines, K)
    /\ \A j \in 1 .. Len(lines) :
           /\ lines[j].name \in N
           /\ lines[j].kind = "interface" => lines[j].key = h.wg[lines[j].name].publicKey
           /\ lines[j].kind = "peer" => lines[j].key \in h.wg[lines[j].name].peers
    /\ \A n \in N : \E j \in 1 .. Len(lines) : lines[j].name = n /\ lines[j].kind = "interface"
    /\ \A n \in N : \A p \in h.wg[n].peers : \E j \in 1 .. Len(lines) :
           lines[j].name = n /\ lines[j].kind = "peer" /\ lines[j].key = p

LEMMA InterfacePrinted ==
    ASSUME NEW h, NEW n \in Names, NEW K, h.wg[n].publicKey \in K,
           h.wg[n].peers \subseteq K, IsFiniteSet(h.wg[n].peers)
    PROVE  Prints(InterfaceLines(h, n), h, {n}, K)
<1> DEFINE i == h.wg[n]
           P == {Line(n, "peer", k) : k \in i.peers}
           f == [k \in i.peers |-> Line(n, "peer", k)]
           head == Line(n, "interface", i.publicKey)
           s == SetToSeq(P)
           m == Len(s)
           lines == InterfaceLines(h, n)
<1>1. head \in LineSet(K) /\ head.name = n /\ head.kind = "interface" /\ head.key = i.publicKey
  BY DEF Line, LineSet
<1>2. P \subseteq LineSet(K)
  BY DEF Line, LineSet
<1>3. \A l \in P : l.name = n /\ l.kind = "peer" /\ l.key \in i.peers
  BY DEF Line
<1>4. \A l, r \in P : l.key = r.key => l = r
  BY DEF Line
<1>5. \A k \in i.peers : \E l \in P : l.key = k
  <2> SUFFICES ASSUME NEW k \in i.peers PROVE Line(n, "peer", k) \in P /\ Line(n, "peer", k).key = k
    OBVIOUS
  <2> QED BY DEF Line
<1>6. IsFiniteSet(P)
  <2>1. f \in [i.peers -> P] /\ \A l \in P : \E k \in i.peers : f[k] = l
    OBVIOUS
  <2> HIDE DEF f, P
  <2>2. f \in Surjection(i.peers, P)
    BY <2>1 DEF Surjection
  <2> QED BY <2>2, FS_Surjection
<1>7. lines = <<head>> \o s
  BY DEF InterfaceLines
<1> HIDE DEF P, head, lines
<1>8. /\ s \in Seq(P) /\ m \in Nat
      /\ \A a, b \in 1 .. m : s[a] = s[b] => a = b
      /\ \A l \in P : \E a \in 1 .. m : s[a] = l
  BY <1>6, Listed
<1> HIDE DEF s
<1>9. \A a \in 1 .. m : s[a] \in P
  BY <1>8, ElementOfSeq
<1>10. s \in Seq(LineSet(K))
  BY <1>2, <1>8
<1>11. /\ lines \in Seq(LineSet(K)) /\ Len(lines) = m + 1
       /\ lines[1] = head /\ \A a \in 1 .. m : lines[a + 1] = s[a]
  BY <1>1, <1>7, <1>8, <1>10
<1> HIDE DEF m
<1>12. \A j \in 1 .. m + 1 : j = 1 \/ \E a \in 1 .. m : j = a + 1 /\ lines[j] = s[a] /\ s[a] \in P
  <2> SUFFICES ASSUME NEW j \in 1 .. m + 1, j # 1 PROVE j - 1 \in 1 .. m /\ j = (j - 1) + 1
    BY <1>9, <1>11
  <2> QED BY <1>8
<1>13. \A j \in 1 .. m + 1 : lines[j].name = n
  BY <1>1, <1>3, <1>11, <1>12
<1>14. /\ lines[1].kind = "interface" /\ lines[1].key = i.publicKey
       /\ \A j \in 1 .. m + 1 : j # 1 => lines[j].kind = "peer" /\ lines[j].key \in i.peers
  BY <1>1, <1>3, <1>11, <1>12
<1>15. 1 \in 1 .. m + 1 /\ \A j \in 1 .. m + 1 : 1 <= j
  BY <1>8
<1>16. ASSUME NEW a \in 1 .. m + 1, NEW b \in 1 .. m + 1,
              lines[a].kind = lines[b].kind, lines[a].key = lines[b].key
       PROVE  a = b
  <2>1. CASE a = 1 \/ b = 1
    BY <1>14, <1>16, <2>1
  <2>2. CASE a # 1 /\ b # 1
    <3>1. PICK c \in 1 .. m : a = c + 1 /\ lines[a] = s[c] /\ s[c] \in P
      BY <1>12, <2>2
    <3>2. PICK d \in 1 .. m : b = d + 1 /\ lines[b] = s[d] /\ s[d] \in P
      BY <1>12, <2>2
    <3>3. s[c] = s[d]
      BY <1>4, <1>16, <3>1, <3>2
    <3> QED BY <1>8, <3>1, <3>2, <3>3
  <2> QED BY <2>1, <2>2
<1>17. \A j \in 1 .. m + 1 : lines[j].kind = "interface" => j = 1
  BY <1>14
<1>18. \A j \in 1 .. m + 1 : lines[j].kind = "peer" => 1 < j
  BY <1>14, <1>15
<1>19. WellPrinted(lines, K)
  BY <1>11, <1>13, <1>15, <1>16, <1>17, <1>18 DEF WellPrinted
<1>20. ASSUME NEW k \in i.peers
       PROVE  \E j \in 1 .. m + 1 : lines[j].name = n /\ lines[j].kind = "peer" /\ lines[j].key = k
  <2>1. PICK l \in P : l.key = k
    BY <1>5
  <2>2. PICK a \in 1 .. m : s[a] = l
    BY <1>8
  <2>3. a + 1 \in 1 .. m + 1 /\ lines[a + 1] = l
    BY <1>8, <1>11, <2>2
  <2> QED BY <1>3, <2>1, <2>3
<1> HIDE DEF i
<1>21. Prints(lines, h, {n}, K)
  BY <1>11, <1>13, <1>14, <1>15, <1>17, <1>18, <1>19, <1>20 DEF Prints, i
<1> QED BY <1>21 DEF lines

(* What is printed of some interfaces and then of others is printed of all *)
(* of them.                                                                *)
LEMMA PrintedOneByOne ==
    ASSUME NEW h, NEW K, NEW N, NEW M, N \intersect M = {},
           NEW s, Prints(s, h, N, K), NEW t, Prints(t, h, M, K)
    PROVE  Prints(s \o t, h, N \union M, K)
<1> DEFINE m == Len(s)
           n == Len(t)
           u == s \o t
<1>1. s \in Seq(LineSet(K)) /\ t \in Seq(LineSet(K))
  BY DEF Prints, WellPrinted
<1>2. /\ m \in Nat /\ n \in Nat
      /\ u \in Seq(LineSet(K)) /\ Len(u) = m + n
      /\ \A j \in 1 .. m : u[j] = s[j]
      /\ \A j \in 1 .. n : u[m + j] = t[j]
  BY <1>1
<1> HIDE DEF u, m, n
<1>3. \A j \in 1 .. m + n : j \in 1 .. m \/ \E k \in 1 .. n : j = m + k
  <2> SUFFICES ASSUME NEW j \in 1 .. m + n, j \notin 1 .. m PROVE j - m \in 1 .. n /\ j = m + (j - m)
    OBVIOUS
  <2> QED BY <1>2
<1>4. /\ 1 .. m \subseteq 1 .. m + n
      /\ \A j \in 1 .. n : m + j \in 1 .. m + n
      /\ \A j \in 1 .. m, k \in 1 .. n : j < m + k
      /\ \A j, k \in 1 .. n : (m + j = m + k => j = k) /\ (j <= k => m + j <= m + k)
                              /\ (j < k => m + j < m + k)
  BY <1>2
<1> DEFINE Once(l, k) == \A a, b \in 1 .. k :
                             /\ l[a].name = l[b].name /\ l[a].kind = l[b].kind /\ l[a].key = l[b].key
                             => a = b
           First(l, k) == \A a, b \in 1 .. k : l[a].kind = "interface" /\ l[b].name = l[a].name => a <= b
           Follow(l, k) == \A b \in 1 .. k : l[b].kind = "peer" =>
                               \E a \in 1 .. k : a < b /\ l[a].name = l[b].name
           True(l, k, S) == \A b \in 1 .. k :
                                /\ l[b].name \in S
                                /\ l[b].kind = "interface" => l[b].key = h.wg[l[b].name].publicKey
                                /\ l[b].kind = "peer" => l[b].key \in h.wg[l[b].name].peers
           Whole(l, k, S) == \A x \in S :
                                 /\ \E a \in 1 .. k : l[a].name = x /\ l[a].kind = "interface"
                                 /\ \A p \in h.wg[x].peers : \E a \in 1 .. k :
                                        l[a].name = x /\ l[a].kind = "peer" /\ l[a].key = p
<1>5. Once(s, m) /\ First(s, m) /\ Follow(s, m) /\ True(s, m, N) /\ Whole(s, m, N)
  BY DEF Prints, WellPrinted, m
<1>6. Once(t, n) /\ First(t, n) /\ Follow(t, n) /\ True(t, n, M) /\ Whole(t, n, M)
  BY DEF Prints, WellPrinted, n
<1>7. ASSUME NEW j \in 1 .. m, NEW k \in 1 .. n PROVE u[j].name # u[m + k].name
  BY <1>2, <1>5, <1>6
<1>8. Once(u, m + n)
  <2> SUFFICES ASSUME NEW a \in 1 .. m + n, NEW b \in 1 .. m + n,
                      u[a].name = u[b].name, u[a].kind = u[b].kind, u[a].key = u[b].key
               PROVE  a = b
    OBVIOUS
  <2>1. CASE a \in 1 .. m /\ b \in 1 .. m
    BY <1>2, <1>5, <2>1
  <2>2. ASSUME NEW c \in 1 .. n, NEW d \in 1 .. n, a = m + c, b = m + d PROVE a = b
    <3>1. t[c].name = t[d].name /\ t[c].kind = t[d].kind /\ t[c].key = t[d].key
      BY <1>2, <2>2
    <3>2. c = d
      BY <1>6, <3>1
    <3> QED BY <2>2, <3>2
  <2> QED BY <1>3, <1>7, <2>1, <2>2
<1>9. First(u, m + n)
  <2> SUFFICES ASSUME NEW a \in 1 .. m + n, NEW b \in 1 .. m + n,
                      u[a].kind = "interface", u[b].name = u[a].name
               PROVE  a <= b
    OBVIOUS
  <2>1. CASE a \in 1 .. m /\ b \in 1 .. m
    BY <1>2, <1>5, <2>1
  <2>2. ASSUME NEW c \in 1 .. n, NEW d \in 1 .. n, a = m + c, b = m + d PROVE a <= b
    <3>1. t[c].kind = "interface" /\ t[d].name = t[c].name
      BY <1>2, <2>2
    <3>2. c <= d
      BY <1>6, <3>1
    <3> QED BY <1>4, <2>2, <3>2
  <2> QED BY <1>3, <1>7, <2>1, <2>2
<1>10. Follow(u, m + n)
  <2> SUFFICES ASSUME NEW b \in 1 .. m + n, u[b].kind = "peer"
               PROVE  \E a \in 1 .. m + n : a < b /\ u[a].name = u[b].name
    OBVIOUS
  <2>1. CASE b \in 1 .. m
    <3>1. s[b].kind = "peer"
      BY <1>2, <2>1
    <3>2. PICK a \in 1 .. m : a < b /\ s[a].name = s[b].name
      BY <1>5, <2>1, <3>1
    <3> QED BY <1>2, <1>4, <2>1, <3>2
  <2>2. ASSUME NEW d \in 1 .. n, b = m + d
        PROVE  \E a \in 1 .. m + n : a < b /\ u[a].name = u[b].name
    <3>1. t[d].kind = "peer"
      BY <1>2, <2>2
    <3>2. PICK c \in 1 .. n : c < d /\ t[c].name = t[d].name
      BY <1>6, <3>1
    <3> QED BY <1>2, <1>4, <2>2, <3>2
  <2> QED BY <1>3, <2>1, <2>2
<1>11. True(u, m + n, N \union M)
  <2> SUFFICES ASSUME NEW b \in 1 .. m + n
               PROVE  /\ u[b].name \in N \union M
                      /\ u[b].kind = "interface" => u[b].key = h.wg[u[b].name].publicKey
                      /\ u[b].kind = "peer" => u[b].key \in h.wg[u[b].name].peers
    OBVIOUS
  <2>1. CASE b \in 1 .. m
    BY <1>2, <1>5, <2>1
  <2>2. ASSUME NEW d \in 1 .. n, b = m + d PROVE u[b] = t[d]
    BY <1>2, <2>2
  <2> QED BY <1>3, <1>6, <2>1, <2>2
<1>12. Whole(u, m + n, N \union M)
  <2>1. \A j \in 1 .. m : \E a \in 1 .. m + n : u[a] = s[j]
    BY <1>2, <1>4
  <2>2. \A j \in 1 .. n : \E a \in 1 .. m + n : u[a] = t[j]
    BY <1>2, <1>4
  <2>3. ASSUME NEW x \in N
        PROVE  /\ \E a \in 1 .. m + n : u[a].name = x /\ u[a].kind = "interface"
               /\ \A p \in h.wg[x].peers : \E a \in 1 .. m + n :
                      u[a].name = x /\ u[a].kind = "peer" /\ u[a].key = p
    BY <1>5, <2>1
  <2>4. ASSUME NEW x \in M
        PROVE  /\ \E a \in 1 .. m + n : u[a].name = x /\ u[a].kind = "interface"
               /\ \A p \in h.wg[x].peers : \E a \in 1 .. m + n :
                      u[a].name = x /\ u[a].kind = "peer" /\ u[a].key = p
    BY <1>6, <2>2
  <2> QED BY <2>3, <2>4
<1>13. Prints(u, h, N \union M, K)
  BY <1>2, <1>8, <1>9, <1>10, <1>11, <1>12 DEF Prints, WellPrinted
<1> QED BY <1>13 DEF u

(* The output of wg is about all interfaces of the host, well printed.     *)
LEMMA DumpPrints ==
    ASSUME NEW h \in Hosts
    PROVE  Prints(Dump(h), h, DOMAIN h.wg, HostKeys(h))
<1> DEFINE D == DOMAIN h.wg
           K == HostKeys(h)
           names == SetToSeq(D)
           n == Len(names)
           T == Seq(LineSet(K))
           b == <<>>
           add(t, i) == t \o InterfaceLines(h, names[i])
           def(t) == t = [i \in 0 .. n |-> IF i = 0 THEN b ELSE add(t[i - 1], i)]
           lines == CHOOSE t : def(t)
           step == [i \in 1 .. n |-> [t \in T |-> add(t, i)]]
           Named(i) == {names[j] : j \in 1 .. i}
<1>1. /\ names \in Seq(D) /\ n \in Nat
      /\ \A i, j \in 1 .. n : names[i] = names[j] => i = j
      /\ \A x \in D : \E i \in 1 .. n : names[i] = x
  BY HostSays, Listed
<1>2. ASSUME NEW x \in D PROVE Prints(InterfaceLines(h, x), h, {x}, K)
  <2>1. x \in Names /\ h.wg[x] \in Interfaces
    BY HostSays
  <2>2. h.wg[x].publicKey \in K /\ h.wg[x].peers \subseteq K
    BY DEF HostKeys
  <2>3. IsFiniteSet(h.wg[x].peers)
    BY <2>1, InterfacesAssumption
  <2> HIDE DEF K
  <2> QED BY <2>1, <2>2, <2>3, InterfacePrinted
<1>3. b \in T
  OBVIOUS
<1> HIDE DEF D, K, names, n, def, lines
<1>4. \A i \in 1 .. n : names[i] \in D
  BY <1>1, ElementOfSeq DEF n
<1>5. \A i \in 1 .. n : InterfaceLines(h, names[i]) \in T
  BY <1>2, <1>4 DEF Prints, WellPrinted
<1>6. ASSUME NEW i \in 1 .. n, NEW t \in T PROVE add(t, i) \in T
  <2> DEFINE s == InterfaceLines(h, names[i])
  <2>1. s \in T
    BY <1>5
  <2> HIDE DEF s
  <2>2. t \o s \in T
    BY <2>1
  <2> QED BY <2>2 DEF s
<1> HIDE DEF T, b, add
<1>7. step \in [1 .. n -> [T -> T]]
  BY <1>6
<1>8. \A i \in 1 .. n, t \in T : step[i][t] = add(t, i)
  OBVIOUS
<1> HIDE DEF step
<1>9. PICK t : IsHistory(t, n, T, b, step)
  BY <1>1, <1>3, <1>7, LoopRuns
<1>10. t \in [0 .. n -> T] /\ t[0] = b /\ \A i \in 1 .. n : t[i] = step[i][t[i - 1]]
  BY <1>9 DEF IsHistory
<1>11. def(t)
  <2>1. ASSUME NEW i \in 1 .. n PROVE t[i] = add(t[i - 1], i)
    <3>1. t[i - 1] \in T
      BY <1>1, <1>10
    <3> QED BY <1>8, <1>10, <3>1
  <2> QED BY <1>10, <2>1 DEF def
<1>12. def(lines)
  BY <1>11, Zenon DEF lines
<1>13. lines[0] = b /\ \A i \in 1 .. n : lines[i] = add(lines[i - 1], i)
  BY <1>1, <1>12 DEF def
<1> DEFINE S == {i \in 0 .. n : Prints(lines[i], h, Named(i), K)}
<1>14. 0 \in S
  <2>1. Named(0) = {}
    OBVIOUS
  <2>2. Prints(<<>>, h, {}, K)
    BY DEF Prints, WellPrinted
  <2>3. Prints(lines[0], h, Named(0), K)
    BY <1>13, <2>1, <2>2 DEF b
  <2> QED BY <1>1, <2>3
<1>15. ASSUME NEW i \in 0 .. n - 1, i \in S PROVE i + 1 \in S
  <2> DEFINE x == names[i + 1]
  <2>1. i + 1 \in 1 .. n /\ (i + 1) - 1 = i /\ i + 1 \in 0 .. n /\ x \in D
    BY <1>1, <1>4
  <2>2. Named(i + 1) = Named(i) \union {x}
    OBVIOUS
  <2>3. Named(i) \intersect {x} = {}
    BY <1>1, <2>1
  <2>4. lines[i + 1] = lines[i] \o InterfaceLines(h, x)
    BY <1>13, <2>1 DEF add
  <2>5. Prints(lines[i], h, Named(i), K) /\ Prints(InterfaceLines(h, x), h, {x}, K)
    BY <1>2, <1>15, <2>1
  <2> HIDE DEF Named, x
  <2>6. Prints(lines[i] \o InterfaceLines(h, x), h, Named(i) \union {x}, K)
    BY <2>3, <2>5, PrintedOneByOne
  <2> QED BY <2>1, <2>2, <2>4, <2>6
<1> HIDE DEF S
<1>16. 0 .. n \subseteq S
  BY <1>1, <1>14, <1>15, LoopStays
<1>17. n \in S
  BY <1>1, <1>16
<1>18. Prints(lines[n], h, Named(n), K)
  BY <1>17 DEF S
<1>19. Named(n) = D
  BY <1>1, <1>4
<1>20. Dump(h) = lines[n]
  BY DEF Dump, lines, def, add, n, names, D, b
<1> QED BY <1>18, <1>19, <1>20 DEF D, K

----------------------------------------------------------------------------
(* What a report is made of *)

(* table is what wg would tell of h: its managed interfaces, each once, as *)
(* they are, and without addresses.                                        *)
RightTable(table, h) ==
    /\ table \in Seq(Entry(HostKeys(h)))
    /\ \A i, j \in DOMAIN table : table[i].name = table[j].name => i = j
    /\ \A n \in DOMAIN h.wg \intersect Prefixed : \E i \in DOMAIN table : table[i].name = n
    /\ \A i \in DOMAIN table :
           table[i].name \in DOMAIN h.wg /\ Shows(table[i], h.wg[table[i].name])

LEMMA PeersShown ==
    ASSUME NEW P, NEW K, NEW s \in Seq(K),
           \A i \in 1 .. Len(s) : s[i] \in P,
           \A i, j \in 1 .. Len(s) : s[i] = s[j] => i = j,
           \A p \in P : \E i \in 1 .. Len(s) : s[i] = p
    PROVE  Range(s) = P /\ Len(s) = Cardinality(P)
<1> DEFINE n == Len(s)
<1>1. n \in Nat /\ DOMAIN s = 1 .. n /\ s \in [1 .. n -> P]
  OBVIOUS
<1>2. Range(s) = P
  BY <1>1 DEF Range
<1>3. s \in Bijection(1 .. n, P)
  BY <1>1 DEF Bijection, Injection, Surjection, IsInjective
<1>4. ExistsBijection(1 .. n, P)
  BY <1>3 DEF ExistsBijection
<1> QED BY <1>1, <1>2, <1>4, FS_CountingElements

(* The table that the parser makes of the output of wg. *)
LEMMA ParsedIsRight ==
    ASSUME NEW h \in Hosts
    PROVE  RightTable(ParseWireGuardDump(Dump(h)), h)
<1> DEFINE D == DOMAIN h.wg
           K == HostKeys(h)
           lines == Dump(h)
           n == Len(lines)
           table == ParseWireGuardDump(lines)
<1>1. Prints(lines, h, D, K)
  BY DumpPrints
<1>2. WellPrinted(lines, K)
  BY <1>1 DEF Prints
<1>3. Tabled(table, lines, n, K)
  BY <1>2, ParserTables
<1> HIDE DEF lines, table, K, n
<1>4. table \in Seq(Entry(K)) /\ DOMAIN table = 1 .. Len(table)
  BY <1>3 DEF Tabled
<1>5. ASSUME NEW i \in DOMAIN table
      PROVE  table[i].name \in D /\ Shows(table[i], h.wg[table[i].name])
  <2> DEFINE e == table[i]
             P == h.wg[e.name].peers
             m == Len(e.peers)
  <2>1. EntryShows(e, lines, n)
    BY <1>3, <1>4 DEF Tabled
  <2>2. e \in Entry(K)
    BY <1>4, ElementOfSeq
  <2>3. e.peers \in Seq(K)
    BY <2>2 DEF Entry
  <2> HIDE DEF e
  <2>4. e.name \in D /\ e.publicKey = h.wg[e.name].publicKey
    <3>1. PICK j \in 1 .. n : lines[j].name = e.name /\ lines[j].kind = "interface" /\ lines[j].key = e.publicKey
      BY <2>1 DEF EntryShows
    <3> QED BY <1>1, <3>1 DEF Prints, n
  <2>5. \A p \in 1 .. m : e.peers[p] \in P
    <3> SUFFICES ASSUME NEW p \in 1 .. m PROVE e.peers[p] \in P
      OBVIOUS
    <3>1. PICK j \in 1 .. n : lines[j].name = e.name /\ lines[j].kind = "peer" /\ lines[j].key = e.peers[p]
      BY <2>1 DEF EntryShows
    <3> QED BY <1>1, <3>1 DEF Prints, n
  <2>6. \A p, q \in 1 .. m : e.peers[p] = e.peers[q] => p = q
    BY <2>1 DEF EntryShows
  <2>7. \A k \in P : \E p \in 1 .. m : e.peers[p] = k
    <3> SUFFICES ASSUME NEW k \in P PROVE \E p \in 1 .. m : e.peers[p] = k
      OBVIOUS
    <3>1. PICK j \in 1 .. n : lines[j].name = e.name /\ lines[j].kind = "peer" /\ lines[j].key = k
      BY <1>1, <2>4 DEF Prints, n
    <3> QED BY <2>1, <3>1 DEF EntryShows
  <2>8. Range(e.peers) = P /\ m = Cardinality(P)
    <3> DEFINE s == e.peers
    <3>1. /\ s \in Seq(K)
          /\ \A p \in 1 .. Len(s) : s[p] \in P
          /\ \A p, q \in 1 .. Len(s) : s[p] = s[q] => p = q
          /\ \A k \in P : \E p \in 1 .. Len(s) : s[p] = k
      BY <2>3, <2>5, <2>6, <2>7
    <3> HIDE DEF P, s
    <3>2. Range(s) = P /\ Len(s) = Cardinality(P)
      BY <3>1, PeersShown
    <3> QED BY <3>2 DEF s
  <2> QED BY <2>4, <2>8 DEF Shows, e
<1>6. ASSUME NEW x \in D \intersect Prefixed PROVE \E i \in DOMAIN table : table[i].name = x
  <2>1. PICK j \in 1 .. n : lines[j].name = x
    BY <1>1 DEF Prints, n
  <2> QED BY <1>3, <1>4, <2>1 DEF Tabled
<1>7. \A i, j \in DOMAIN table : table[i].name = table[j].name => i = j
  BY <1>3, <1>4 DEF Tabled
<1>8. RightTable(table, h)
  BY <1>4, <1>5, <1>6, <1>7 DEF RightTable, K
<1> QED BY <1>8 DEF table, lines

(* What ip adds to it. *)
LEMMA EnrichedSays ==
    ASSUME NEW g, NEW table, RightTable(table, g), NEW h
    PROVE  LET t == Enriched(table, ParseIPAddrJSON(h))
           IN  /\ DOMAIN t = DOMAIN table
               /\ \A i \in DOMAIN table :
                      /\ t[i].name = table[i].name /\ t[i].publicKey = table[i].publicKey
                      /\ t[i].peers = table[i].peers
                      /\ t[i].addresses = IF table[i].name \in DOMAIN h.wg
                                          THEN h.wg[table[i].name].addresses ELSE {}
<1> DEFINE E == ParseIPAddrJSON(h)
           t == Enriched(table, E)
<1>1. DOMAIN E = DOMAIN h.wg \intersect Prefixed
      /\ \A n \in DOMAIN E : E[n].addresses = h.wg[n].addresses
  BY DEF ParseIPAddrJSON
<1> HIDE DEF E
<1>2. DOMAIN t = DOMAIN table
  BY DEF Enriched
<1>3. ASSUME NEW i \in DOMAIN table
      PROVE  /\ t[i].name = table[i].name /\ t[i].publicKey = table[i].publicKey
             /\ t[i].peers = table[i].peers
             /\ t[i].addresses = IF table[i].name \in DOMAIN h.wg
                                 THEN h.wg[table[i].name].addresses ELSE {}
  <2> DEFINE e == table[i]
             a == E[e.name].addresses
             st == E[e.name].status
  <2>1. table \in Seq(Entry(HostKeys(g)))
    BY DEF RightTable
  <2>2. e \in Entry(HostKeys(g))
    BY <2>1, ElementOfSeq
  <2>3. t[i] = IF e.name \notin DOMAIN E THEN e ELSE [e EXCEPT !.addresses = a, !.status = st]
    BY DEF Enriched
  <2> HIDE DEF e, t, a, st
  <2>4. e.name \in Prefixed /\ e.addresses = {}
        /\ e = [name |-> e.name, publicKey |-> e.publicKey, peers |-> e.peers,
                addresses |-> e.addresses, status |-> e.status]
    BY <2>2 DEF Entry
  <2>5. CASE e.name \notin DOMAIN E
    BY <1>1, <2>3, <2>4, <2>5 DEF e
  <2>6. CASE e.name \in DOMAIN E
    <3>1. t[i] = [e EXCEPT !.addresses = a, !.status = st]
      BY <2>3, <2>6
    <3>2. t[i] = [name |-> e.name, publicKey |-> e.publicKey, peers |-> e.peers,
                  addresses |-> a, status |-> st]
      BY <2>4, <3>1
    <3>3. t[i].name = e.name /\ t[i].publicKey = e.publicKey /\ t[i].peers = e.peers /\ t[i].addresses = a
      BY <3>2
    <3>4. e.name \in DOMAIN h.wg /\ a = h.wg[e.name].addresses
      BY <1>1, <2>6 DEF a
    <3> QED BY <3>3, <3>4 DEF e
  <2> QED BY <2>5, <2>6
<1> HIDE DEF t
<1>4. DOMAIN t = DOMAIN table
      /\ \A i \in DOMAIN table :
             /\ t[i].name = table[i].name /\ t[i].publicKey = table[i].publicKey
             /\ t[i].peers = table[i].peers
             /\ t[i].addresses = IF table[i].name \in DOMAIN h.wg
                                 THEN h.wg[table[i].name].addresses ELSE {}
  BY <1>2, <1>3 DEF t
<1> QED BY <1>4, Zenon DEF t, E

----------------------------------------------------------------------------
(* The host while a request is handled *)

LEMMA HostSet ==
    ASSUME NEW t \in SUBSET Tools, NEW w, DOMAIN w \subseteq Names, IsFiniteSet(DOMAIN w),
           w \in [DOMAIN w -> Interfaces]
    PROVE  [tools |-> t, wg |-> w] \in Hosts
<1> DEFINE N == DOMAIN w
<1>1. N \in {M \in SUBSET Names : IsFiniteSet(M)}
  OBVIOUS
<1>2. [tools |-> t, wg |-> w] \in [tools : SUBSET Tools, wg : [N -> Interfaces]]
  OBVIOUS
<1> HIDE DEF N
<1> QED BY <1>1, <1>2 DEF Hosts

LEMMA ToolsChange ==
    ASSUME NEW h \in Hosts, NEW t \in SUBSET Tools
    PROVE  [h EXCEPT !.tools = t] \in Hosts
<1>1. [h EXCEPT !.tools = t] = [tools |-> t, wg |-> h.wg]
  BY HostSays
<1> QED BY <1>1, HostSays, HostSet

LEMMA InterfaceChanges ==
    ASSUME NEW h \in Hosts, NEW n \in Names, NEW i \in Interfaces
    PROVE  [h EXCEPT !.wg = With(@, n, i)] \in Hosts
<1> DEFINE w == With(h.wg, n, i)
           D == DOMAIN h.wg
<1>1. /\ D \subseteq Names /\ IsFiniteSet(D) /\ h.wg \in [D -> Interfaces] /\ h.tools \in SUBSET Tools
      /\ h = [tools |-> h.tools, wg |-> h.wg]
  BY HostSays
<1>2. [h EXCEPT !.wg = With(@, n, i)] = [tools |-> h.tools, wg |-> w]
  BY <1>1
<1>3. w = [m \in D \union {n} |-> IF m = n THEN i ELSE h.wg[m]]
  BY DEF With
<1> HIDE DEF w
<1>4. DOMAIN w = D \union {n} /\ w \in [DOMAIN w -> Interfaces]
  BY <1>1, <1>3
<1>5. IsFiniteSet(D \union {n})
  BY <1>1, FS_AddElement
<1> HIDE DEF D
<1>6. [tools |-> h.tools, wg |-> w] \in Hosts
  BY <1>1, <1>4, <1>5, HostSet
<1> QED BY <1>2, <1>6 DEF w

LEMMA InterfaceGoes ==
    ASSUME NEW h \in Hosts, NEW n
    PROVE  [h EXCEPT !.wg = Restrict(@, DOMAIN @ \ {n})] \in Hosts
<1> DEFINE D == DOMAIN h.wg
           w == Restrict(h.wg, D \ {n})
<1>1. /\ D \subseteq Names /\ IsFiniteSet(D) /\ h.wg \in [D -> Interfaces] /\ h.tools \in SUBSET Tools
      /\ h = [tools |-> h.tools, wg |-> h.wg]
  BY HostSays
<1>2. [h EXCEPT !.wg = Restrict(@, DOMAIN @ \ {n})] = [tools |-> h.tools, wg |-> w]
  BY <1>1
<1>3. DOMAIN w = D \ {n} /\ w \in [DOMAIN w -> Interfaces]
  BY <1>1 DEF Restrict
<1>4. IsFiniteSet(D \ {n})
  BY <1>1, FS_RemoveElement
<1> HIDE DEF w, D
<1>5. [tools |-> h.tools, wg |-> w] \in Hosts
  BY <1>1, <1>3, <1>4, HostSet
<1> QED BY <1>2, <1>5

LEMMA HostStays ==
    ASSUME TypeOK, HostChanges
    PROVE  host' \in moments' /\ moments' \subseteq Hosts
<1>1. host \in Hosts
  BY DEF TypeOK
<1>2. ASSUME NEW n \in Names, NEW i \in Interfaces, Become([host EXCEPT !.wg = With(@, n, i)])
      PROVE  host' \in moments' /\ moments' \subseteq Hosts
  <2> DEFINE h == [host EXCEPT !.wg = With(@, n, i)]
  <2>1. h \in Hosts
    BY <1>1, InterfaceChanges
  <2>2. Become(h)
    BY <1>2
  <2> HIDE DEF h
  <2> QED BY <2>1, <2>2 DEF Become, TypeOK
<1>3. ASSUME NEW n \in DOMAIN host.wg, Become([host EXCEPT !.wg = Restrict(@, DOMAIN @ \ {n})])
      PROVE  host' \in moments' /\ moments' \subseteq Hosts
  <2> DEFINE h == [host EXCEPT !.wg = Restrict(@, DOMAIN @ \ {n})]
  <2>1. h \in Hosts
    BY <1>1, InterfaceGoes
  <2>2. Become(h)
    BY <1>3
  <2> HIDE DEF h
  <2> QED BY <2>1, <2>2 DEF Become, TypeOK
<1>4. ASSUME NEW t \in SUBSET Tools, Become([host EXCEPT !.tools = t])
      PROVE  host' \in moments' /\ moments' \subseteq Hosts
  <2> DEFINE h == [host EXCEPT !.tools = t]
  <2>1. h \in Hosts
    BY <1>1, ToolsChange
  <2>2. Become(h)
    BY <1>4
  <2> HIDE DEF h
  <2> QED BY <2>1, <2>2 DEF Become, TypeOK
<1> QED BY <1>2, <1>3, <1>4 DEF HostChanges

----------------------------------------------------------------------------
(* The inductive invariant *)

(* What a request knows at its stage: a command that fails ends it, or is  *)
(* its last; what was parsed is the table of a moment of the request.      *)
StageKnows ==
    /\ body \in ApplyRequest \union NoRequest
    /\ stage # "answered" => failed = {}
    /\ stage = "ip" => \E g \in moments : RightTable(interfaces, g)

IInv == TypeOK /\ StageKnows /\ ReportInventsNothing /\ SteadyInterfacesReported /\ ApplyIsRight

LEMMA InitIInv == Init => IInv
<1> SUFFICES ASSUME Init PROVE IInv
  OBVIOUS
<1>1. host \in Hosts
  <2> DEFINE w == <<>>
             t == {}
  <2>1. DOMAIN w = {} /\ w \in [DOMAIN w -> Interfaces] /\ t \in SUBSET Tools
    OBVIOUS
  <2> HIDE DEF w, t
  <2>2. [tools |-> t, wg |-> w] \in Hosts
    BY <2>1, FS_EmptySet, HostSet
  <2> QED BY <2>2 DEF Init, w, t
<1>2. DOMAIN interfaces = {}
  BY DEF Init
<1>3. TypeOK
  BY <1>1, <1>2 DEF Init, NoAnswer, TypeOK, Tools
<1>4. body \in NoRequest
  BY DEF Init, NoRequest
<1>5. StageKnows
  BY <1>4 DEF Init, StageKnows
<1> QED BY <1>3, <1>5 DEF IInv, Init, ReportInventsNothing, SteadyInterfacesReported, ApplyIsRight, Reported

(* Before the answer there is nothing to be wrong about.                   *)
LEMMA NotAnswered ==
    ASSUME stage' # "answered"
    PROVE  ReportInventsNothing' /\ SteadyInterfacesReported' /\ ApplyIsRight'
BY DEF ReportInventsNothing, SteadyInterfacesReported, ApplyIsRight, Reported

LEMMA AskedKeeps == IInv /\ Asked => IInv'
<1> SUFFICES ASSUME IInv, Asked PROVE IInv'
  OBVIOUS
<1>1. stage = "none" /\ stage' \in {"detect", "apply"}
  BY DEF Asked
<1>2. host' \in moments' /\ moments' \subseteq Hosts
  BY DEF Asked, IInv, TypeOK
<1>3. UNCHANGED <<ctxEnded, interfaces, failed, hung, answer>>
  BY DEF Asked
<1>4. TypeOK'
  BY <1>1, <1>2, <1>3 DEF IInv, TypeOK
<1>5. body' \in ApplyRequest \union NoRequest
  BY BodiesAssumption DEF Asked, IInv, StageKnows
<1>6. StageKnows'
  BY <1>1, <1>3, <1>5 DEF IInv, StageKnows
<1> QED BY <1>1, <1>4, <1>6, NotAnswered DEF IInv

LEMMA HostChangesKeeps == IInv /\ HostChanges => IInv'
<1> SUFFICES ASSUME IInv, HostChanges PROVE IInv'
  OBVIOUS
<1>1. stage' \in {"detect", "wg", "ip"} /\ UNCHANGED <<stage, ctxEnded, interfaces, failed, hung, body, answer>>
  BY DEF HostChanges
<1>2. host' \in moments' /\ moments' \subseteq Hosts
  BY HostStays DEF IInv
<1>3. moments \subseteq moments'
  BY DEF HostChanges, Become
<1>4. TypeOK'
  BY <1>1, <1>2 DEF IInv, TypeOK
<1>5. StageKnows'
  <2>1. stage' = "ip" => \E g \in moments' : RightTable(interfaces, g)
    BY <1>1, <1>3 DEF IInv, StageKnows
  <2>2. stage' = "ip" => \E g \in moments' : RightTable(interfaces', g)
    BY <1>1, <2>1
  <2> QED BY <1>1, <2>2 DEF IInv, StageKnows
<1> QED BY <1>1, <1>4, <1>5, NotAnswered DEF IInv

LEMMA RequestWaits ==
    ASSUME IInv, stage # "answered",
           UNCHANGED <<host, moments, stage, interfaces, failed, body, answer>>,
           ctxEnded' \in BOOLEAN, hung' \in BOOLEAN
    PROVE  IInv'
<1>1. TypeOK'
  BY DEF IInv, TypeOK
<1>2. stage' = "ip" => \E g \in moments' : RightTable(interfaces', g)
  <2>1. stage = "ip" => \E g \in moments : RightTable(interfaces, g)
    BY DEF IInv, StageKnows
  <2> QED BY <2>1
<1>3. StageKnows'
  BY <1>2 DEF IInv, StageKnows
<1> QED BY <1>1, <1>3, NotAnswered DEF IInv

LEMMA ContextEndsKeeps == IInv /\ ContextEnds => IInv'
BY RequestWaits DEF ContextEnds, IInv, TypeOK

LEMMA CommandHangsKeeps == IInv /\ CommandHangs => IInv'
BY RequestWaits DEF CommandHangs, IInv, TypeOK, Tools

LEMMA HandleApplyKeeps == IInv /\ HandleApply => IInv'
<1> SUFFICES ASSUME IInv, HandleApply PROVE IInv'
  OBVIOUS
<1> DEFINE a == Apply(body, ctxEnded)
<1>1. /\ stage = "apply" /\ stage' = "answered" /\ answer' = a
      /\ UNCHANGED <<host, moments, ctxEnded, interfaces, failed, hung, body>>
  BY DEF HandleApply, Answers
<1>2. ApplyAnswered(body, ctxEnded, a)
  BY ApplySays DEF IInv, TypeOK, StageKnows
<1>3. a.status \in {200, 400, 503} /\ "interfaces" \notin DOMAIN a
  <2>1. CASE ctxEnded
    BY <2>1 DEF Apply
  <2>2. CASE ~ctxEnded /\ Validate(body) # Fine
    BY <2>2 DEF Apply
  <2>3. CASE ~ctxEnded /\ Validate(body) = Fine
    BY <2>3 DEF Apply
  <2> QED BY <2>1, <2>2, <2>3
<1> HIDE DEF a
<1>4. ~Reported'
  BY <1>1, <1>3 DEF Reported
<1>5. TypeOK'
  BY <1>1, <1>3 DEF IInv, TypeOK
<1>6. StageKnows'
  BY <1>1 DEF IInv, StageKnows
<1>7. ReportInventsNothing' /\ SteadyInterfacesReported'
  BY <1>4 DEF ReportInventsNothing, SteadyInterfacesReported
<1>8. ApplyAnswered(body', ctxEnded', answer')
  BY <1>1, <1>2
<1>9. ApplyIsRight'
  BY <1>8 DEF ApplyAnswered, ApplyIsRight
<1> QED BY <1>5, <1>6, <1>7, <1>9 DEF IInv

LEMMA ReportIs ==
    ASSUME NEW tools, NEW table
    PROVE  /\ Report(tools, table).status = 200 /\ Report(tools, table).interfaces = table
           /\ "interfaces" \in DOMAIN Report(tools, table)
BY DEF Report

(* A report without interfaces is right when no managed interface was      *)
(* there all the time, or wg was not, or failed.                           *)
LEMMA EmptyReport ==
    ASSUME IInv, stage' = "answered", NEW tools, answer' = Report(tools, <<>>),
           UNCHANGED <<host, moments, ctxEnded, hung, body>>, interfaces' \in {<<>>, interfaces},
           failed' \subseteq Tools,
           "wg" \in failed' \/ "wg" \notin host.tools \/ DOMAIN host.wg \intersect Prefixed = {}
    PROVE  IInv'
<1>1. answer'.status = 200 /\ answer'.interfaces = <<>> /\ Reported'
  BY ReportIs DEF Reported
<1>2. DOMAIN answer'.interfaces = {}
  BY <1>1
<1>3. TypeOK'
  <2>1. interfaces' = <<>> => DOMAIN interfaces' = {}
    OBVIOUS
  <2> QED BY <1>1, <2>1 DEF IInv, TypeOK
<1>4. StageKnows'
  BY DEF IInv, StageKnows
<1>5. ReportInventsNothing'
  BY <1>2 DEF ReportInventsNothing
<1>6. SteadyInterfacesReported'
  <2> SUFFICES ASSUME NEW n \in Prefixed,
                      \A h \in moments : n \in DOMAIN h.wg /\ Tools \subseteq h.tools,
                      failed' = {}
               PROVE  FALSE
    BY DEF SteadyInterfacesReported
  <2> QED BY DEF IInv, TypeOK, Tools
<1>7. ApplyIsRight'
  BY <1>1 DEF ApplyIsRight
<1> QED BY <1>3, <1>4, <1>5, <1>6, <1>7 DEF IInv

LEMMA DetectKeeps == IInv /\ Detect => IInv'
<1> SUFFICES ASSUME IInv, Detect PROVE IInv'
  OBVIOUS
<1>1. stage = "detect" /\ UNCHANGED <<host, moments, ctxEnded, interfaces, failed, hung, body>>
  BY DEF Detect
<1>2. CASE ctxEnded
  <2>1. stage' = "answered" /\ answer' = [status |-> 500]
    BY <1>2 DEF Detect, Answers
  <2>2. answer'.status = 500 /\ ~Reported'
    BY <2>1 DEF Reported
  <2>3. TypeOK'
    BY <1>1, <2>1, <2>2 DEF IInv, TypeOK
  <2>4. StageKnows'
    BY <1>1, <2>1 DEF IInv, StageKnows
  <2> QED BY <2>2, <2>3, <2>4
          DEF IInv, ReportInventsNothing, SteadyInterfacesReported, ApplyIsRight
<1>3. CASE ~ctxEnded /\ "wg" \notin host.tools
  <2>1. stage' = "answered" /\ answer' = Report(host.tools, <<>>)
    BY <1>3 DEF Detect, Answers
  <2>2. failed' \subseteq Tools
    BY <1>1 DEF IInv, TypeOK
  <2> QED BY <1>1, <1>3, <2>1, <2>2, EmptyReport
<1>4. CASE ~ctxEnded /\ "wg" \in host.tools
  <2>1. stage' = "wg" /\ answer' = [status |-> 0, tools |-> host.tools]
    BY <1>4 DEF Detect
  <2>2. answer'.status = 0
    BY <2>1
  <2>3. TypeOK'
    BY <1>1, <2>1, <2>2 DEF IInv, TypeOK
  <2>4. StageKnows'
    BY <1>1, <2>1 DEF IInv, StageKnows
  <2> QED BY <2>1, <2>3, <2>4, NotAnswered DEF IInv
<1> QED BY <1>2, <1>3, <1>4

LEMMA RunWgKeeps == IInv /\ RunWg => IInv'
<1> SUFFICES ASSUME IInv, RunWg PROVE IInv'
  OBVIOUS
<1> DEFINE table == ParseWireGuardDump(Dump(host))
<1>1. stage = "wg" /\ UNCHANGED <<host, moments, ctxEnded, hung, body>>
  BY DEF RunWg
<1>2. host \in moments /\ host \in Hosts /\ failed = {}
  BY <1>1 DEF IInv, TypeOK, StageKnows
<1>3. RightTable(table, host)
  BY <1>2, ParsedIsRight
<1> HIDE DEF table
<1>4. CASE interfaces' = <<>> /\ failed' = failed \union {"wg"}
  <2>1. stage' = "answered" /\ answer' = Report(answer.tools, <<>>)
    BY <1>4 DEF RunWg, Answers
  <2>2. failed' \subseteq Tools
    BY <1>2, <1>4 DEF Tools
  <2> QED BY <1>1, <1>4, <2>1, <2>2, EmptyReport
<1>5. CASE interfaces' = <<>> /\ interfaces' = table /\ failed' = failed
  <2>1. stage' = "answered" /\ answer' = Report(answer.tools, <<>>)
    BY <1>5 DEF RunWg, Answers
  <2>2. failed' \subseteq Tools
    BY <1>2, <1>5
  <2>3. DOMAIN host.wg \intersect Prefixed = {}
    <3>1. DOMAIN table = {}
      BY <1>5
    <3> QED BY <1>3, <3>1 DEF RightTable
  <2> QED BY <1>1, <1>5, <2>1, <2>2, <2>3, EmptyReport
<1>6. CASE interfaces' # <<>> /\ interfaces' = table /\ failed' = failed
  <2>1. stage' = "ip" /\ UNCHANGED answer
    BY <1>6 DEF RunWg
  <2>2. RightTable(interfaces', host) /\ host \in moments'
    BY <1>1, <1>2, <1>3, <1>6
  <2>3. /\ \A i \in DOMAIN interfaces' : interfaces'[i].name \in Prefixed
        /\ \A i, j \in DOMAIN interfaces' : interfaces'[i].name = interfaces'[j].name => i = j
    <3>1. interfaces' \in Seq(Entry(HostKeys(host)))
      BY <2>2 DEF RightTable
    <3>2. \A i \in DOMAIN interfaces' : interfaces'[i] \in Entry(HostKeys(host))
      BY <3>1, ElementOfSeq
    <3> QED BY <2>2, <3>2 DEF RightTable, Entry
  <2>4. TypeOK'
    BY <1>1, <1>6, <2>1, <2>3 DEF IInv, TypeOK
  <2>5. StageKnows'
    BY <1>1, <1>2, <1>6, <2>1, <2>2 DEF IInv, StageKnows
  <2> QED BY <2>1, <2>4, <2>5, NotAnswered DEF IInv
<1> QED BY <1>4, <1>5, <1>6 DEF RunWg, table

(* t is the table of g as it is reported: with the addresses of h, or none *)
(* when ip failed.                                                         *)
Complete(t, table, h, ipFailed) ==
    /\ DOMAIN t = DOMAIN table
    /\ \A i \in DOMAIN table :
           /\ t[i].name = table[i].name /\ t[i].publicKey = table[i].publicKey
           /\ t[i].peers = table[i].peers
           /\ t[i].addresses = IF ~ipFailed /\ table[i].name \in DOMAIN h.wg
                               THEN h.wg[table[i].name].addresses ELSE {}

LEMMA TableCompleted ==
    ASSUME NEW g, NEW table, RightTable(table, g), NEW h
    PROVE  /\ Complete(Enriched(table, ParseIPAddrJSON(h)), table, h, FALSE)
           /\ Complete(table, table, h, TRUE)
<1>1. Complete(Enriched(table, ParseIPAddrJSON(h)), table, h, FALSE)
  <2> DEFINE t == Enriched(table, ParseIPAddrJSON(h))
  <2>1. /\ DOMAIN t = DOMAIN table
        /\ \A i \in DOMAIN table :
               /\ t[i].name = table[i].name /\ t[i].publicKey = table[i].publicKey
               /\ t[i].peers = table[i].peers
               /\ t[i].addresses = IF table[i].name \in DOMAIN h.wg
                                   THEN h.wg[table[i].name].addresses ELSE {}
    BY EnrichedSays
  <2> HIDE DEF t
  <2>2. Complete(t, table, h, FALSE)
    BY <2>1 DEF Complete
  <2> QED BY <2>2 DEF t
<1>2. \A i \in DOMAIN table : table[i].addresses = {}
  <2>1. table \in Seq(Entry(HostKeys(g)))
    BY DEF RightTable
  <2>2. \A i \in DOMAIN table : table[i] \in Entry(HostKeys(g))
    BY <2>1, ElementOfSeq
  <2> QED BY <2>2 DEF Entry
<1>3. Complete(table, table, h, TRUE)
  BY <1>2 DEF Complete
<1> QED BY <1>1, <1>3

LEMMA RunIpKeeps == IInv /\ RunIp => IInv'
<1> SUFFICES ASSUME IInv, RunIp PROVE IInv'
  OBVIOUS
<1> DEFINE t == interfaces'
           ipFailed == "ip" \in failed'
<1>1. /\ stage = "ip" /\ stage' = "answered" /\ answer' = Report(answer.tools, t)
      /\ UNCHANGED <<host, moments, ctxEnded, hung, body>>
  BY DEF RunIp, Answers
<1>2. host \in moments /\ failed = {}
  BY <1>1 DEF IInv, TypeOK, StageKnows
<1>3. PICK g \in moments : RightTable(interfaces, g)
  BY <1>1 DEF IInv, StageKnows
<1>4. Complete(t, interfaces, host, ipFailed) /\ failed' \subseteq {"ip"}
  <2>1. CASE failed' = failed \union {"ip"} /\ UNCHANGED interfaces
    <3>1. ipFailed = TRUE /\ failed' \subseteq {"ip"}
      BY <1>2, <2>1
    <3> QED BY <1>3, <2>1, <3>1, TableCompleted
  <2>2. CASE t = Enriched(interfaces, ParseIPAddrJSON(host)) /\ UNCHANGED failed
    <3>1. ipFailed = FALSE /\ failed' \subseteq {"ip"}
      BY <1>2, <2>2
    <3> QED BY <1>3, <2>2, <3>1, TableCompleted
  <2> QED BY <2>1, <2>2 DEF RunIp
<1>5. answer'.status = 200 /\ answer'.interfaces = t /\ Reported'
  BY <1>1, ReportIs DEF Reported
<1> HIDE DEF t, ipFailed
<1>6. TypeOK'
  <2>1. \A i \in DOMAIN t : t[i].name \in Prefixed
    BY <1>4 DEF Complete, IInv, TypeOK
  <2>2. \A i, j \in DOMAIN t : t[i].name = t[j].name => i = j
    BY <1>3, <1>4 DEF Complete, RightTable
  <2>3. failed' \subseteq Tools
    BY <1>4 DEF Tools
  <2> QED BY <1>1, <1>5, <2>1, <2>2, <2>3 DEF IInv, TypeOK, t
<1>7. StageKnows'
  BY <1>1 DEF IInv, StageKnows
<1>8. ASSUME NEW i \in DOMAIN t
      PROVE  /\ t[i].name \in DOMAIN g.wg /\ Shows(t[i], g.wg[t[i].name])
             /\ t[i].addresses = IF ~ipFailed /\ t[i].name \in DOMAIN host.wg
                                 THEN host.wg[t[i].name].addresses ELSE {}
  <2>1. /\ i \in DOMAIN interfaces
        /\ interfaces[i].name \in DOMAIN g.wg
        /\ Shows(interfaces[i], g.wg[interfaces[i].name])
    BY <1>3, <1>4 DEF Complete, RightTable
  <2> QED BY <1>4, <2>1 DEF Complete, Shows
<1>9. ReportInventsNothing'
  BY <1>1, <1>2, <1>3, <1>5, <1>8 DEF ReportInventsNothing
<1>10. SteadyInterfacesReported'
  <2> SUFFICES ASSUME NEW n \in Prefixed, failed' = {},
                      \A h \in moments : n \in DOMAIN h.wg /\ Tools \subseteq h.tools,
                      \A h, f \in moments : h.wg[n] = f.wg[n]
               PROVE  \E k \in DOMAIN t : /\ t[k].name = n /\ Shows(t[k], host.wg[n])
                                          /\ t[k].addresses = host.wg[n].addresses
    BY <1>1, <1>5 DEF SteadyInterfacesReported
  <2>0. ~ipFailed
    BY DEF ipFailed
  <2>1. n \in DOMAIN host.wg /\ n \in DOMAIN g.wg /\ g.wg[n] = host.wg[n]
    BY <1>2, <1>3
  <2>2. PICK k \in DOMAIN interfaces : interfaces[k].name = n
    BY <1>3, <2>1 DEF RightTable
  <2>3. k \in DOMAIN t /\ t[k].name = n
    BY <1>4, <2>2 DEF Complete
  <2> QED BY <1>8, <2>0, <2>1, <2>3
<1>11. ApplyIsRight'
  BY <1>5 DEF ApplyIsRight
<1> QED BY <1>6, <1>7, <1>9, <1>10, <1>11 DEF IInv

LEMMA NextIInv == IInv /\ [Next]_vars => IInv'
<1> SUFFICES ASSUME IInv, [Next]_vars PROVE IInv'
  OBVIOUS
<1>1. CASE UNCHANGED vars
  <2>1. UNCHANGED <<host, moments, stage, ctxEnded, interfaces, failed, hung, body, answer>>
    BY <1>1 DEF vars
  <2>2. TypeOK'
    BY <2>1 DEF IInv, TypeOK
  <2>3. StageKnows'
    BY <2>1 DEF IInv, StageKnows
  <2>4. ReportInventsNothing'
    BY <2>1 DEF IInv, ReportInventsNothing, Reported
  <2>5. SteadyInterfacesReported'
    BY <2>1 DEF IInv, SteadyInterfacesReported, Reported
  <2>6. ApplyIsRight'
    <3>1. stage = "answered" /\ ~Reported /\ answer.status # 500 => ApplyAnswered(body, ctxEnded, answer)
      BY DEF IInv, ApplyIsRight, ApplyAnswered
    <3>2. stage' = "answered" /\ ~Reported' /\ answer'.status # 500
              => ApplyAnswered(body', ctxEnded', answer')
      BY <2>1, <3>1 DEF Reported
    <3> QED BY <3>2 DEF ApplyIsRight, ApplyAnswered
  <2> QED BY <2>2, <2>3, <2>4, <2>5, <2>6 DEF IInv
<1> QED
  BY <1>1, AskedKeeps, HandleApplyKeeps, DetectKeeps, RunWgKeeps, RunIpKeeps,
     HostChangesKeeps, ContextEndsKeeps, CommandHangsKeeps DEF Next, Handler

(* Nothing that wg, ip and the host do between the steps of a request, and *)
(* no body, leads out of the invariant.                                    *)
THEOREM Invariance == Spec => []IInv
BY InitIInv, NextIInv, PTL DEF Spec

(* Stage, answer and table agree, for any host and any body.               *)
THEOREM TypeCorrect == Spec => []TypeOK
BY Invariance, PTL DEF IInv

(* Whatever network/state reports of an interface was so at a moment of    *)
(* the request, for any number of interfaces and peers, and however often  *)
(* the host changes between the two commands.                              *)
THEOREM ReportsInventNothing == Spec => []ReportInventsNothing
BY Invariance, PTL DEF IInv

(* No interface that stayed as it was is missing from a report, or told    *)
(* wrongly, while both tools are there and work, for any number of         *)
(* interfaces and peers in any order.                                      *)
THEOREM SteadyAreReported == Spec => []SteadyInterfacesReported
BY Invariance, PTL DEF IInv

(* network/apply accepts the well-formed bodies and no other, and blames   *)
(* the first peer that cannot stand, for any number of peers, any limits   *)
(* and any port.                                                           *)
THEOREM ApplyAnswersRight == Spec => []ApplyIsRight
BY Invariance, PTL DEF IInv
=============================================================================
