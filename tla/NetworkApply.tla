---------------------------- MODULE NetworkApply ----------------------------
(***************************************************************************)
(* What Applier makes of the body of POST /agent/v1/network/apply          *)
(* (internal/network/apply.go): strict decoding, then the checks of mode,  *)
(* interface and peers in the order of the code, up to the first that      *)
(* fails.  It touches nothing on the host.                                 *)
(*                                                                         *)
(* Addresses and allowed IPs are "cidr", "no cidr" or "long" (more than    *)
(* maxFieldBytes).                                                         *)
(***************************************************************************)
EXTENDS Integers, Sequences, SequencesExt

CONSTANTS
    Names,         \* names of interfaces
    Prefixed,      \* those that start with the managed prefix
    Manageable,    \* those of them that continue with letters and digits only
    Keys,          \* public keys of at most maxPeerPublicKey bytes
    LongKey,       \* one that is longer
    MissingKey,    \* the empty key
    MaxPeers, MaxAddresses, MaxAllowedIps  \* maxPeers, maxAddresses, maxAllowedIps

ASSUME NamesAssumption == Manageable \subseteq Prefixed /\ Prefixed \subseteq Names
ASSUME KeysAssumption == LongKey \notin Keys /\ MissingKey \notin Keys /\ LongKey # MissingKey
ASSUME LimitsAssumption == MaxPeers \in Nat /\ MaxAddresses \in Nat /\ MaxAllowedIps \in Nat

Modes == {"DRY_RUN", "APPLY"}
MaxPort == 65535

Addresses == {"cidr", "no cidr", "long"}

PeerSpec == [key : Keys \union {LongKey, MissingKey}, allowedIps : Seq(Addresses)]

(* A body that decodes; mode and port may still be anything of their type. *)
ApplyRequest == [form : {"decoded"}, mode : STRING, name : Names, port : Int,
                 addresses : Seq(Addresses), peers : Seq(PeerSpec)]

(* One that does not, by what is wrong with it. *)
NoRequest == [form : {"missing", "large", "undecodable", "unknown field", "more than one"}]

(* Error: nothing is wrong, or what is, and with which peer (from 1; 0: none) *)
Fine == [what |-> "nothing", peer |-> 0]
Wrong(what, i) == [what |-> what, peer |-> i]

isValidCidr(address) == address = "cidr"

(* The first address that is too long or no CIDR. *)
AddressFault(addresses, i) ==
    LET bad == SelectInSeq(addresses, LAMBDA a : a = "long" \/ ~isValidCidr(a))
    IN  IF bad = 0 THEN Fine
        ELSE Wrong(IF addresses[bad] = "long" THEN "long address" ELSE "no cidr", i)

isManagedInterfaceName(name) == name \in Manageable

validateInterface(body) ==
    IF ~isManagedInterfaceName(body.name) THEN Wrong("not managed", 0)
    ELSE IF body.port < 1 \/ body.port > MaxPort THEN Wrong("port", 0)
    ELSE IF Len(body.addresses) > MaxAddresses THEN Wrong("too many addresses", 0)
    ELSE AddressFault(body.addresses, 0)

(* One turn of the loop over the peers; seen are the keys before this one. *)
PeerFault(peer, seen, i) ==
    CASE peer.key = MissingKey -> Wrong("no key", i)
      [] peer.key = LongKey -> Wrong("long key", i)
      [] peer.key \in seen -> Wrong("duplicate key", 0)
      [] OTHER -> IF Len(peer.allowedIps) > MaxAllowedIps THEN Wrong("too many allowed IPs", i)
                  ELSE AddressFault(peer.allowedIps, i)

NextPeerForgets(loop, peer) ==
    IF loop.fault # Fine THEN loop
    ELSE [seen  |-> loop.seen, at |-> loop.at + 1,
          fault |-> PeerFault(peer, loop.seen, loop.at + 1)]

NextPeer(loop, peer) ==
    IF loop.fault # Fine THEN loop
    ELSE [seen  |-> loop.seen \union {peer.key}, at |-> loop.at + 1,
          fault |-> PeerFault(peer, loop.seen, loop.at + 1)]

validatePeers(peers) ==
    LET loop[i \in 0 .. Len(peers)] ==
            IF i = 0 THEN [seen |-> {}, at |-> 0, fault |-> Fine]
            ELSE NextPeer(loop[i - 1], peers[i])
    IN  IF Len(peers) > MaxPeers THEN Wrong("too many peers", 0) ELSE loop[Len(peers)].fault

validateRequest(body) ==
    IF body.mode \notin Modes THEN Wrong("mode", 0)
    ELSE LET fault == validateInterface(body)
         IN  IF fault # Fine THEN fault ELSE validatePeers(body.peers)

(* The errors of decoding do not depend on what the body holds besides its *)
(* form.                                                                   *)
Validate(body) == IF body.form # "decoded" THEN Wrong(body.form, 0) ELSE validateRequest(body)

(* The answer to the request. *)
Apply(body, ctxEnded) ==
    IF ctxEnded THEN [status |-> 503, error |-> Wrong("cancelled", 0)]
    ELSE IF Validate(body) # Fine THEN [status |-> 400, error |-> Validate(body)]
    ELSE [status    |-> 200,
          plan      |-> IF body.mode = "APPLY" THEN "APPLY_PLANNED" ELSE "VALIDATED",
          interface |-> body.name,
          peerCount |-> Len(body.peers)]

----------------------------------------------------------------------------
(* What a body must be, and what an error says, without the order of the   *)
(* checks.                                                                 *)
SoundPeer(peer) ==
    /\ peer.key \in Keys
    /\ Len(peer.allowedIps) <= MaxAllowedIps
    /\ \A j \in 1 .. Len(peer.allowedIps) : isValidCidr(peer.allowedIps[j])

DistinctKeys(peers) == \A i, j \in 1 .. Len(peers) : peers[i].key = peers[j].key => i = j

WellFormed(body) ==
    /\ body.form = "decoded"
    /\ body.mode \in Modes /\ body.name \in Manageable
    /\ 1 <= body.port /\ body.port <= MaxPort
    /\ Len(body.addresses) <= MaxAddresses
    /\ \A j \in 1 .. Len(body.addresses) : isValidCidr(body.addresses[j])
    /\ Len(body.peers) <= MaxPeers
    /\ \A i \in 1 .. Len(body.peers) : SoundPeer(body.peers[i])
    /\ DistinctKeys(body.peers)

(* The error is about the first peer that cannot stand behind those before *)
(* it, and nothing before the peers is wrong.                              *)
Blamed(body, i) ==
    /\ WellFormed([body EXCEPT !.peers = SubSeq(body.peers, 1, i - 1)])
    /\ ~WellFormed([body EXCEPT !.peers = SubSeq(body.peers, 1, i)])
=============================================================================
