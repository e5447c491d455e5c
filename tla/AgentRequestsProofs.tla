------------------------ MODULE AgentRequestsProofs ------------------------
(***************************************************************************)
(* Proofs about AgentRequests: whatever requests a backend sends and       *)
(* however host and Incus change, Incus is only read and a report claims   *)
(* what was so.  A report is read in steps, so its invariant says of each  *)
(* step what the steps before it have settled.                             *)
(***************************************************************************)
EXTENDS AgentRequests, Loops, SequenceTheorems, TLAPS

ReportStages == {"none", "hostname", "wireGuard", "kvm", "profile", "root", "done", "failed"} \union Lists

(* Where the report has been past wg, past the readiness of VMs, and past  *)
(* the lists.                                                              *)
PastWireGuard == {"kvm", "profile", "root", "done"} \union Lists
PastReadiness == {"root", "done"} \union Lists
CountedBy(s) ==
    CASE s = "images" -> {"instances"}
      [] s = "operations" -> {"instances", "images"}
      [] s = "done" -> Lists
      [] OTHER -> {}

NotBegun == stage = "none" => report = NoReport /\ failed = {}
DeviceSeen == stage = "profile" => \E w \in moments : w.kvm = "device"

WireGuardDenied ==
    stage \in PastWireGuard /\ ~report.wireGuard => ctxEnded \/ \E w \in moments : ~w.wg
LifecycleDenied ==
    stage \in PastReadiness /\ ~report.vmLifecycle =>
        \/ ctxEnded \/ "profile" \in failed
        \/ \E w \in moments : w.kvm # "device" \/ RootDiskVerdict(w.profile) # "ok"
IncusDenied == stage = "done" /\ ~report.available => "root" \in failed
CountsDenied ==
    \A l \in CountedBy(stage) :
        report.available /\ l \notin failed => \E w \in moments : w.total[l] = report.total[l]

ReportInv ==
    /\ ReportTypeOK /\ NotBegun /\ DeviceSeen /\ ClaimsWereTrue
    /\ WireGuardDenied /\ LifecycleDenied /\ IncusDenied /\ CountsDenied

(* Nothing is sent to Incus before a request is proxied.                   *)
NothingSentYet == phase \in {"waiting", "received"} => proxied = {}

Inv == TypeOK /\ ReportInv /\ NothingSentYet /\ ProxiedReadsOnly /\ AgentPathsStay

----------------------------------------------------------------------------
(* The routes *)

(* A path of three segments is known by them.                              *)
LEMMA ThreeSegments ==
    ASSUME NEW S, NEW p \in Seq(S), Len(p) = 3
    PROVE  p = <<p[1], p[2], p[3]>>
<1> DEFINE q == <<p[1], p[2], p[3]>>
<1>1. \A i \in 1..3 : p[i] \in S
  <2>1. \A i \in 1..Len(p) : p[i] \in S
    BY ElementOfSeq
  <2> QED
    BY <2>1
<1>2. p[1] \in S /\ p[2] \in S /\ p[3] \in S
  BY <1>1
<1>3. q \in Seq(S) /\ Len(q) = 3
  BY <1>2
<1>4. q[1] = p[1] /\ q[2] = p[2] /\ q[3] = p[3]
  OBVIOUS
<1> HIDE DEF q
<1>5. ASSUME NEW i \in 1..3 PROVE p[i] = q[i]
  <2>1. i = 1 \/ i = 2 \/ i = 3
    OBVIOUS
  <2> QED
    BY <1>4, <2>1
<1>6. p = q
  BY <1>3, <1>5
<1> QED
  BY <1>6 DEF q

LEMMA PrefixOfThree ==
    ASSUME NEW p, NEW c, p = <<"agent", "v1", c>>
    PROVE  hasAgentPrefix(p)
<1>1. Len(p) >= 3
  OBVIOUS
<1>2. p[1] = "agent" /\ p[2] = "v1"
  OBVIOUS
<1> QED
  BY <1>1, <1>2 DEF hasAgentPrefix

LEMMA ExactlyThree == ASSUME NEW n \in Nat, n >= 3, ~(n > 3) PROVE n = 3
OBVIOUS

(* The two tests agree: what is proxied would not have passed as a path of *)
(* the agent.                                                              *)
LEMMA ProxiedIsNoAgentPath ==
    ASSUME NEW req, req.path \in Seq(Segments), Route(req) = "proxy"
    PROVE  ~hasAgentPrefix(req.path)
<1>1. ~isAgentRequest(req)
  BY DEF Route
<1> SUFFICES ASSUME hasAgentPrefix(req.path) PROVE FALSE
  OBVIOUS
<1>2. Len(req.path) = 3 /\ req.path[3] = "" /\ req.query = "none"
  <2>1. ~GoesOn(req)
    BY <1>1 DEF isAgentRequest
  <2>2. Len(req.path) \in Nat /\ Len(req.path) >= 3
    BY DEF hasAgentPrefix
  <2>3. req.path[3] = "" /\ req.query = "none"
    BY <2>1, Zenon DEF GoesOn
  <2>4. ~(Len(req.path) > 3)
    BY <2>1, Zenon DEF GoesOn
  <2>5. Len(req.path) = 3
    BY <2>2, <2>4, ExactlyThree
  <2> QED
    BY <2>3, <2>5
<1>3. req.path = <<"agent", "v1", "">>
  <2>1. req.path[1] = "agent" /\ req.path[2] = "v1"
    BY DEF hasAgentPrefix
  <2>2. Len(req.path) = 3 /\ req.path[3] = ""
    BY <1>2
  <2>3. req.path = <<req.path[1], req.path[2], req.path[3]>>
    BY <2>2, ThreeSegments
  <2> QED
    BY <2>1, <2>2, <2>3, Zenon
<1> QED
  BY <1>1, <1>2, <1>3 DEF isAgentRequest, Is

(* Services and reports answer paths of the agent.                         *)
LEMMA ServedIsAgentPath ==
    ASSUME NEW req, req.path \in Seq(Segments),
           Route(req) \in {"state", "lifecycle", "network state", "network apply"}
    PROVE  hasAgentPrefix(req.path)
<1>1. isAgentRequest(req)
  BY DEF Route
<1>2. ASSUME Is(req, <<"agent", "v1", "state">>) \/ Is(req, <<"agent", "v1", "">>)
      PROVE  hasAgentPrefix(req.path)
  <2>1. req.path = <<"agent", "v1", "state">> \/ req.path = <<"agent", "v1", "">>
    BY <1>2 DEF Is
  <2>2. CASE req.path = <<"agent", "v1", "state">>
    BY <2>2, PrefixOfThree
  <2>3. CASE req.path = <<"agent", "v1", "">>
    BY <2>3, PrefixOfThree
  <2> QED
    BY <2>1, <2>2, <2>3
<1> QED
  BY <1>1, <1>2 DEF isAgentRequest

----------------------------------------------------------------------------
(* What is sent to Incus *)

(* f is what has been decoded of a path after each segment.                *)
Pieces(f, path) ==
    /\ f \in [0 .. Len(path) -> Seq(STRING)]
    /\ f[0] = <<>>
    /\ \A i \in 1 .. Len(path) : f[i] = f[i - 1] \o Decoded(path[i])

LEMMA Single ==
    ASSUME NEW S, NEW x \in S
    PROVE  <<x>> \in Seq(S) /\ Len(<<x>>) = 1 /\ <<>> \o <<x>> = <<x>>
OBVIOUS

LEMMA Pair ==
    ASSUME NEW S, NEW x \in S, NEW y \in S
    PROVE  <<x>> \o <<y>> = <<x, y>>
<1> DEFINE l == <<x>> \o <<y>>
           r == <<x, y>>
<1>1. l \in Seq(S) /\ Len(l) = 2 /\ l[1] = x /\ l[2] = y
  OBVIOUS
<1>2. r \in Seq(S) /\ Len(r) = 2 /\ r[1] = x /\ r[2] = y
  OBVIOUS
<1> HIDE DEF l, r
<1>3. ASSUME NEW i \in 1 .. 2 PROVE l[i] = r[i]
  <2>1. i = 1 \/ i = 2
    OBVIOUS
  <2> QED
    BY <1>1, <1>2, <2>1
<1>4. l = r
  BY <1>1, <1>2, <1>3
<1> QED
  BY <1>4 DEF l, r

LEMMA ConcatFront ==
    ASSUME NEW S, NEW s \in Seq(S), NEW t \in Seq(S), NEW k \in 1 .. Len(s)
    PROVE  (s \o t)[k] = s[k]
OBVIOUS

LEMMA DecodedIsSeq ==
    ASSUME NEW s \in Segments
    PROVE  Decoded(s) \in Seq(STRING) /\ Len(Decoded(s)) \in Nat /\ Len(Decoded(s)) >= 1
<1>1. Decoded(s) \in Seq(STRING) \ {<<>>}
  <2>1. CASE s \in PlainSegments
    <3>1. s \in STRING
      BY <2>1, SegmentsAssumption
    <3>2. <<s>> \in Seq(STRING) /\ <<s>> # <<>>
      <4>1. Len(<<s>>) # Len(<<>>)
        OBVIOUS
      <4> QED
        BY <3>1, <4>1, Single, Zenon
    <3> QED
      BY <2>1, <3>2, Zenon DEF Decoded
  <2>2. CASE s \notin PlainSegments
    BY <2>2, SegmentsAssumption DEF Decoded, Segments
  <2> QED
    BY <2>1, <2>2
<1> QED
  BY <1>1, EmptySeq, LenProperties

(* Whatever is decoded, it has a value.                                    *)
LEMMA UnescapedIs ==
    ASSUME NEW path \in Seq(Segments)
    PROVE  \E f : Pieces(f, path) /\ Unescaped(path) = f[Len(path)]
<1> DEFINE n == Len(path)
           T == Seq(STRING)
           turn(t, i) == t \o Decoded(path[i])
           step == [i \in 1 .. n |-> [t \in T |-> turn(t, i)]]
           def(f) == f = [i \in 0 .. n |-> IF i = 0 THEN <<>> ELSE turn(f[i - 1], i)]
           pieces == CHOOSE f : def(f)
<1>1. n \in Nat /\ <<>> \in T
  OBVIOUS
<1>2. ASSUME NEW i \in 1 .. n, NEW t \in T PROVE turn(t, i) \in T
  <2>1. path[i] \in Segments
    BY ElementOfSeq
  <2>2. Decoded(path[i]) \in T
    BY <2>1, DecodedIsSeq
  <2> HIDE DEF n
  <2> QED
    BY <2>2
<1> HIDE DEF T, n, turn, def, pieces
<1>3. step \in [1 .. n -> [T -> T]]
  BY <1>2
<1>4. \A i \in 1 .. n, t \in T : step[i][t] = turn(t, i)
  OBVIOUS
<1> HIDE DEF step
<1>5. PICK f : IsHistory(f, n, T, <<>>, step)
  BY <1>1, <1>3, LoopRuns
<1>6. f \in [0 .. n -> T] /\ f[0] = <<>> /\ \A i \in 1 .. n : f[i] = turn(f[i - 1], i)
  <2>1. f \in [0 .. n -> T] /\ f[0] = <<>> /\ \A i \in 1 .. n : f[i] = step[i][f[i - 1]]
    BY <1>5 DEF IsHistory
  <2>2. ASSUME NEW i \in 1 .. n PROVE f[i] = turn(f[i - 1], i)
    <3>1. f[i - 1] \in T
      BY <1>1, <2>1
    <3> QED
      BY <1>4, <2>1, <3>1
  <2> QED
    BY <2>1, <2>2
<1>7. def(f)
  BY <1>6 DEF def
<1>8. def(pieces)
  BY <1>7, Zenon DEF pieces
<1>9. /\ DOMAIN pieces = 0 .. n /\ pieces[0] = <<>>
      /\ \A i \in 1 .. n : pieces[i] = turn(pieces[i - 1], i)
  BY <1>1, <1>8 DEF def
<1> DEFINE S == {i \in 0 .. n : pieces[i] = f[i]}
<1>10. 0 \in S
  BY <1>1, <1>6, <1>9
<1>11. ASSUME NEW i \in 0 .. n - 1, i \in S PROVE i + 1 \in S
  <2>1. i + 1 \in 1 .. n /\ (i + 1) - 1 = i
    BY <1>1
  <2> QED
    BY <1>6, <1>9, <1>11, <2>1
<1> HIDE DEF S
<1>12. 0 .. n \subseteq S
  BY <1>1, <1>10, <1>11, LoopStays
<1>13. pieces[n] = f[n]
  BY <1>1, <1>12 DEF S
<1>14. Unescaped(path) = pieces[n]
  BY DEF Unescaped, pieces, def, turn, n
<1>15. Pieces(f, path)
  BY <1>6 DEF Pieces, T, turn, n
<1> QED
  BY <1>13, <1>14, <1>15 DEF n

(* What has been decoded stays at the front.                               *)
LEMMA PiecesStay ==
    ASSUME NEW path \in Seq(Segments), NEW f, Pieces(f, path), NEW i \in 0 .. Len(path)
    PROVE  /\ Len(f[i]) <= Len(f[Len(path)])
           /\ \A k \in 1 .. Len(f[i]) : f[Len(path)][k] = f[i][k]
<1> DEFINE n == Len(path) - i
           S == {m \in 0 .. n : /\ Len(f[i]) <= Len(f[i + m])
                                /\ \A k \in 1 .. Len(f[i]) : f[i + m][k] = f[i][k]}
<1>0. n \in Nat /\ Len(path) \in Nat /\ i \in Nat /\ i + n = Len(path)
  OBVIOUS
<1>1. \A m \in 0 .. Len(path) : f[m] \in Seq(STRING) /\ Len(f[m]) \in Nat
  BY DEF Pieces
<1> HIDE DEF n
<1>2. 0 \in S
  <2>1. i + 0 = i
    BY <1>0
  <2> QED
    BY <1>0, <1>1, <2>1
<1>3. ASSUME NEW m \in 0 .. n - 1, m \in S PROVE m + 1 \in S
  <2> DEFINE j == i + m
  <2>1. j \in 0 .. Len(path) /\ j + 1 \in 1 .. Len(path) /\ i + (m + 1) = j + 1 /\ m + 1 \in 0 .. n
    BY <1>0
  <2>2. Len(f[i]) <= Len(f[j]) /\ \A k \in 1 .. Len(f[i]) : f[j][k] = f[i][k]
    BY <1>3
  <2> HIDE DEF j
  <2>3. f[j + 1] = f[j] \o Decoded(path[j + 1])
    <3>1. (j + 1) - 1 = j
      BY <2>1
    <3> QED
      BY <2>1, <3>1 DEF Pieces
  <2>4. Decoded(path[j + 1]) \in Seq(STRING) /\ f[j] \in Seq(STRING)
    <3>1. path[j + 1] \in Segments
      BY <2>1, ElementOfSeq
    <3> QED
      BY <1>1, <2>1, <3>1, DecodedIsSeq
  <2>5. Len(f[j + 1]) = Len(f[j]) + Len(Decoded(path[j + 1])) /\ Len(Decoded(path[j + 1])) \in Nat
    BY <2>3, <2>4
  <2>6. ASSUME NEW k \in 1 .. Len(f[j]) PROVE f[j + 1][k] = f[j][k]
    <3>1. (f[j] \o Decoded(path[j + 1]))[k] = f[j][k]
      BY <2>4, ConcatFront
    <3> QED
      BY <2>3, <3>1, Zenon
  <2>7. Len(f[i]) \in Nat /\ Len(f[j]) \in Nat
    BY <1>0, <1>1, <2>1
  <2>8. Len(f[i]) <= Len(f[j + 1])
    <3> DEFINE x == Len(f[i])
               y == Len(f[j])
               z == Len(Decoded(path[j + 1]))
    <3>1. x \in Nat /\ y \in Nat /\ z \in Nat /\ x <= y /\ Len(f[j + 1]) = y + z
      BY <2>2, <2>5, <2>7
    <3> HIDE DEF x, y, z
    <3>2. x <= y + z
      BY <3>1
    <3> QED
      BY <3>1, <3>2 DEF x
  <2>9. \A k \in 1 .. Len(f[i]) : f[j + 1][k] = f[i][k]
    BY <2>2, <2>6, <2>7
  <2> QED
    BY <2>1, <2>8, <2>9
<1> HIDE DEF S
<1>4. 0 .. n \subseteq S
  BY <1>0, <1>2, <1>3, LoopStays
<1>5. n \in S
  BY <1>0, <1>4
<1> QED
  BY <1>0, <1>5 DEF S

(* A path of the four that are compared as a whole decodes to itself.      *)
LEMMA PlainPath ==
    ASSUME NEW path, path \in {<<"1.0">>, <<"1.0", "instances">>, <<"1.0", "operations">>, <<"1.0", "images">>}
    PROVE  path \in Seq(Segments) /\ Unescaped(path) = path /\ WithoutFragment(path) = path
<1>1. ASSUME NEW s \in {"1.0"} \union Collections
      PROVE  s \in Segments /\ Decoded(s) = <<s>> /\ s \notin Fragmented
  BY SegmentsAssumption, FragmentsAssumption DEF Segments, Decoded
<1>2. Collections = {"instances", "images", "operations"}
  BY DEF Collections
<1>3. /\ \A i \in 1 .. Len(path) : path[i] \in {"1.0"} \union Collections
      /\ path \in Seq(Segments) /\ Len(path) \in {1, 2}
  <2>1. CASE path = <<"1.0">>
    BY <1>1, <2>1
  <2>2. CASE \E c \in Collections : path = <<"1.0", c>>
    <3>1. PICK c \in Collections : path = <<"1.0", c>>
      BY <2>2
    <3>2. Len(path) = 2 /\ path[1] = "1.0" /\ path[2] = c
      BY <3>1
    <3>3. path \in Seq(Segments)
      BY <1>1, <3>1
    <3> QED
      BY <3>2, <3>3
  <2> QED
    BY <1>2, <2>1, <2>2
<1>4. PICK f : Pieces(f, path) /\ Unescaped(path) = f[Len(path)]
  BY <1>3, UnescapedIs
<1>5. f[1] = <<path[1]>>
  <2>1. 1 \in 1 .. Len(path) /\ Decoded(path[1]) = <<path[1]>>
    BY <1>1, <1>3
  <2>2. f[0] = <<>> /\ f[1] = f[1 - 1] \o Decoded(path[1])
    BY <1>4, <2>1 DEF Pieces
  <2>3. f[1] = <<>> \o <<path[1]>>
    <3>1. 1 - 1 = 0
      OBVIOUS
    <3> QED
      BY <2>1, <2>2, <3>1, Zenon
  <2> QED
    BY <2>3, Single, Zenon
<1>6. Unescaped(path) = path
  <2>1. CASE Len(path) = 1
    <3>1. path = <<path[1]>>
      BY <1>3, <2>1
    <3> QED
      BY <1>4, <1>5, <2>1, <3>1
  <2>2. CASE Len(path) = 2
    <3>1. path = <<path[1], path[2]>>
      BY <1>3, <2>2
    <3>2. 2 \in 1 .. Len(path) /\ Decoded(path[2]) = <<path[2]>>
      BY <1>1, <1>3, <2>2
    <3>3. f[2] = f[2 - 1] \o Decoded(path[2])
      BY <1>4, <3>2 DEF Pieces
    <3>4. f[2] = <<path[1]>> \o <<path[2]>>
      <4>1. 2 - 1 = 1
        OBVIOUS
      <4> QED
        BY <1>5, <3>2, <3>3, <4>1, Zenon
    <3>5. <<path[1]>> \o <<path[2]>> = <<path[1], path[2]>>
      <4>1. path[1] \in Segments /\ path[2] \in Segments
        BY <1>3, <2>2
      <4> QED
        BY <4>1, Pair, Zenon
    <3>6. f[2] = <<path[1], path[2]>>
      BY <3>4, <3>5, Zenon
    <3> QED
      BY <1>4, <2>2, <3>1, <3>6, Zenon
  <2> QED
    BY <1>3, <2>1, <2>2
<1>7. WithoutFragment(path) = path
  <2>1. {i \in 1 .. Len(path) : path[i] \in Fragmented} = {}
    BY <1>1, <1>3
  <2> QED
    BY <2>1 DEF WithoutFragment, FragmentAt, SelectInSeq
<1> QED
  BY <1>3, <1>6, <1>7

(* The fragment begins within a segment.                                   *)
LEMMA FragmentBegins ==
    ASSUME NEW path \in Seq(Segments), FragmentAt(path) # 0
    PROVE  FragmentAt(path) \in 1 .. Len(path) /\ path[FragmentAt(path)] \in Fragmented
<1> DEFINE I == {i \in 1 .. Len(path) : path[i] \in Fragmented}
<1>1. FragmentAt(path) = IF I # {} THEN Min(I) ELSE 0
  BY DEF FragmentAt, SelectInSeq
<1>2. I \subseteq Nat
  OBVIOUS
<1>3. I # {} => Min(I) \in I
  <2> HIDE DEF I
  <2> QED
    BY <1>2, MinIsIn
<1> QED
  BY <1>1, <1>3

(* Two paths that begin alike decode alike so far.                         *)
LEMMA PiecesAgree ==
    ASSUME NEW path \in Seq(Segments), NEW f, Pieces(f, path),
           NEW q \in Seq(Segments), NEW g, Pieces(g, q),
           NEW n \in Nat, n <= Len(path), n <= Len(q), \A i \in 1 .. n : q[i] = path[i]
    PROVE  g[n] = f[n]
<1> DEFINE S == {i \in 0 .. n : g[i] = f[i]}
<1>1. 0 \in S
  BY DEF Pieces
<1>2. ASSUME NEW i \in 0 .. n - 1, i \in S PROVE i + 1 \in S
  <2>1. i + 1 \in 1 .. n /\ i + 1 \in 1 .. Len(path) /\ i + 1 \in 1 .. Len(q) /\ (i + 1) - 1 = i
    BY LenProperties
  <2>2. /\ f[i + 1] = f[(i + 1) - 1] \o Decoded(path[i + 1])
        /\ g[i + 1] = g[(i + 1) - 1] \o Decoded(q[i + 1])
    BY <2>1, Zenon DEF Pieces
  <2>3. f[i + 1] = f[i] \o Decoded(path[i + 1]) /\ g[i + 1] = g[i] \o Decoded(q[i + 1])
    BY <2>1, <2>2, Zenon
  <2>4. g[i] = f[i] /\ q[i + 1] = path[i + 1]
    BY <1>2, <2>1
  <2>5. g[i + 1] = f[i + 1]
    BY <2>3, <2>4, Zenon
  <2>6. i + 1 \in 0 .. n
    BY <2>1
  <2> QED
    BY <2>5, <2>6
<1> HIDE DEF S
<1>3. 0 .. n \subseteq S
  BY <1>1, <1>2, LoopStays
<1> QED
  BY <1>3 DEF S

(* A fragment that is dropped was part of the item's name: what is left of *)
(* a path that decodes to one of an item has its three pieces, and the     *)
(* first two of them.                                                      *)
LEMMA FragmentInItem ==
    ASSUME NEW path \in Seq(Segments), FragmentAt(path) # 0, IsDetail(Unescaped(path))
    PROVE  LET sent == Unescaped(WithoutFragment(path))
           IN  Len(sent) = 3 /\ sent[1] = "1.0" /\ sent[2] \in Collections
<1> DEFINE at == FragmentAt(path)
           s == path[at]
           q == SubSeq(path, 1, at - 1) \o <<Cut[s]>>
           whole == Unescaped(path)
           sent == Unescaped(q)
           D == Decoded(s)
           C == Decoded(Cut[s])
<1>1. WithoutFragment(path) = q
  BY DEF WithoutFragment
<1>2. at \in 1 .. Len(path) /\ s \in Fragmented /\ s \in Segments /\ Cut[s] \in Segments
  BY FragmentBegins, FragmentsAssumption DEF Segments
<1>3. D = Decode[s]
  BY <1>2, SegmentsAssumption, FragmentsAssumption DEF Decoded
<1>4. /\ D \in Seq(STRING) /\ C \in Seq(STRING) /\ Len(D) \in Nat /\ Len(C) \in Nat
      /\ Len(C) >= 1 /\ Len(C) <= Len(D)
      /\ \A i \in 1 .. Len(C) - 1 : D[i] = C[i]
      /\ D[Len(C)] \notin Collections \union {"1.0"}
  BY <1>2, <1>3, DecodedIsSeq, FragmentsAssumption
<1>5. /\ q \in Seq(Segments) /\ Len(q) = at /\ q[at] = Cut[s]
      /\ \A i \in 1 .. at - 1 : q[i] = path[i]
  <2>1. at - 1 \in Nat /\ at - 1 <= Len(path) /\ Len(path) \in Nat /\ at \in Nat
    BY <1>2
  <2>2. SubSeq(path, 1, at - 1) \in Seq(Segments) /\ Len(SubSeq(path, 1, at - 1)) = at - 1
    BY <2>1, SubSeqProperties
  <2>3. \A i \in 1 .. at - 1 : SubSeq(path, 1, at - 1)[i] = path[i]
    BY <2>1, SubSeqProperties
  <2> HIDE DEF at, s
  <2> QED
    BY <1>2, <2>1, <2>2, <2>3
<1>6. PICK f : Pieces(f, path) /\ whole = f[Len(path)]
  BY UnescapedIs
<1>7. PICK g : Pieces(g, q) /\ sent = g[at]
  BY <1>5, UnescapedIs
<1> HIDE DEF at, s, q, D, C
<1>8. g[at - 1] = f[at - 1] /\ f[at - 1] \in Seq(STRING)
  <2> DEFINE m == at - 1
  <2>1. m \in Nat /\ m <= Len(path) /\ m <= Len(q)
    BY <1>2, <1>5
  <2>2. m \in 0 .. Len(path)
    BY <1>2
  <2>3. \A i \in 1 .. m : q[i] = path[i]
    BY <1>5
  <2> HIDE DEF m
  <2>4. f[m] \in Seq(STRING)
    BY <1>6, <2>2 DEF Pieces
  <2>5. g[m] = f[m]
    BY <1>5, <1>6, <1>7, <2>1, <2>3, PiecesAgree
  <2> QED
    BY <2>4, <2>5 DEF m
<1> DEFINE A == f[at - 1]
<1>9. f[at] = A \o D /\ sent = A \o C
  <2>1. at \in 1 .. Len(path) /\ at \in 1 .. Len(q)
    BY <1>2, <1>5
  <2> QED
    BY <1>5, <1>6, <1>7, <1>8, <2>1 DEF Pieces, D, C, s
<1>10. /\ Len(f[at]) <= Len(whole)
       /\ \A k \in 1 .. Len(f[at]) : whole[k] = f[at][k]
  <2>1. at \in 0 .. Len(path)
    BY <1>2
  <2> QED
    BY <1>6, <2>1, PiecesStay
<1>11. Len(whole) = 3 /\ whole[1] = "1.0" /\ whole[2] \in Collections
  BY DEF IsDetail
<1> HIDE DEF whole, sent
<1> DEFINE a == Len(A)
           c == Len(C)
<1>12. a \in Nat /\ c \in Nat /\ c >= 1
  BY <1>4, <1>8
<1>13. Len(f[at]) = a + Len(D) /\ Len(sent) = a + c
  BY <1>4, <1>8, <1>9
<1>14. \A k \in 1 .. a : f[at][k] = A[k] /\ sent[k] = A[k]
  BY <1>4, <1>8, <1>9
<1>15. \A k \in 1 .. Len(D) : f[at][a + k] = D[k]
  BY <1>4, <1>8, <1>9
<1>16. \A k \in 1 .. c : sent[a + k] = C[k]
  BY <1>4, <1>8, <1>9
<1>17. a + c <= 3
  BY <1>4, <1>10, <1>11, <1>12, <1>13
<1>18. whole[a + c] \notin Collections \union {"1.0"}
  <2>1. c \in 1 .. Len(D) /\ a + c \in 1 .. Len(f[at])
    BY <1>4, <1>12, <1>13
  <2> QED
    BY <1>4, <1>10, <1>15, <2>1
<1>19. a + c = 3
  <2>1. a + c # 1 /\ a + c # 2
    BY <1>11, <1>18
  <2>2. a + c \in Nat /\ a + c >= 1
    BY <1>12
  <2> HIDE DEF a, c
  <2> QED
    BY <1>12, <1>17, <2>1, <2>2
<1>20. ASSUME NEW k \in {1, 2} PROVE sent[k] = whole[k]
  <2>1. k \in 1 .. Len(f[at])
    BY <1>4, <1>12, <1>13, <1>19
  <2>2. whole[k] = f[at][k]
    BY <1>10, <2>1
  <2>3. CASE k <= a
    <3>1. k \in 1 .. a
      BY <1>12, <2>3
    <3> QED
      BY <1>14, <2>2, <3>1
  <2>4. CASE ~(k <= a)
    <3> DEFINE m == k - a
    <3>1. m \in 1 .. c - 1 /\ m \in 1 .. Len(D) /\ m \in 1 .. c /\ a + m = k
      BY <1>4, <1>12, <1>19, <2>4
    <3> HIDE DEF m
    <3>2. sent[a + m] = C[m] /\ f[at][a + m] = D[m] /\ D[m] = C[m]
      BY <1>4, <1>15, <1>16, <3>1
    <3> QED
      BY <2>2, <3>1, <3>2
  <2> QED
    BY <2>3, <2>4
<1>21. Len(sent) = 3 /\ sent[1] = "1.0" /\ sent[2] \in Collections
  BY <1>11, <1>13, <1>19, <1>20
<1> QED
  BY <1>1, <1>21 DEF sent

(* A valid request that is no agent path reads, and what is sent of it has *)
(* the shape that ProxiedReadsOnly demands.                                *)
LEMMA ProxiedShape ==
    ASSUME NEW req, req.path \in Seq(Segments), validateProxyRequest(req), ~hasAgentPrefix(req.path)
    PROVE  LET r == Sent(req)
           IN  /\ r.method = "GET" /\ r.path # <<>> /\ r.path[1] = "1.0" /\ Len(r.path) <= 3
               /\ Len(r.path) > 1 => r.path[2] \in Collections
               /\ Len(r.path) > 2 => r.path[3] \notin Dots \union {""} \/ FragmentAt(req.path) # 0
               /\ r.query \notin NoQuery => r.path = <<"1.0", "images">> /\ r.query = "recursion=1"
<1> DEFINE r == Sent(req)
           path == req.path
           sent == Unescaped(WithoutFragment(path))
<1>1. req.method = "GET" /\ isAllowedIncusReadPath(path, req.query)
  BY DEF validateProxyRequest
<1>2. r.method = req.method /\ r.path = sent /\ r.query = IF FragmentAt(path) = 0 THEN req.query ELSE "none"
  BY DEF Sent
<1>3. r.query \in {req.query} \union NoQuery
  BY <1>2 DEF NoQuery
<1> SUFFICES /\ sent # <<>> /\ sent[1] = "1.0" /\ Len(sent) <= 3
             /\ Len(sent) > 1 => sent[2] \in Collections
             /\ Len(sent) > 2 => sent[3] \notin Dots \union {""} \/ FragmentAt(path) # 0
             /\ req.query \notin NoQuery => sent = <<"1.0", "images">> /\ req.query = "recursion=1"
  BY <1>1, <1>2, <1>3
<1> HIDE DEF r
<1>4. CASE path \in {<<"1.0">>, <<"1.0", "instances">>, <<"1.0", "operations">>} /\ req.query \in NoQuery
  <2>1. sent = path
    BY <1>4, PlainPath
  <2> HIDE DEF sent
  <2>2. CASE sent = <<"1.0">>
    BY <1>4, <2>2
  <2>3. CASE sent = <<"1.0", "instances">>
    BY <1>4, <2>3 DEF Collections
  <2>4. CASE sent = <<"1.0", "operations">>
    BY <1>4, <2>4 DEF Collections
  <2> QED
    BY <1>4, <2>1, <2>2, <2>3, <2>4
<1>5. CASE path = <<"1.0", "images">> /\ req.query \in NoQuery \union {"recursion=1"}
  <2>1. sent = <<"1.0", "images">>
    BY <1>5, PlainPath
  <2> HIDE DEF sent
  <2> QED
    BY <1>5, <2>1 DEF Collections
<1>6. CASE req.query \in NoQuery /\ hasAllowedDetailReadShape(path)
  <2>1. IsDetail(Unescaped(path))
    BY <1>6 DEF hasAllowedDetailReadShape
  <2>2. CASE FragmentAt(path) = 0
    <3>1. sent = Unescaped(path)
      BY <2>2 DEF WithoutFragment
    <3>2. Len(sent) = 3 /\ sent[1] = "1.0" /\ sent[2] \in Collections /\ sent[3] \notin Dots \union {""}
      BY <2>1, <3>1 DEF IsDetail
    <3> HIDE DEF sent
    <3>3. Len(sent) = 3
      BY <3>2, Zenon
    <3>4. Len(sent) <= 3 /\ sent # <<>>
      BY <3>3
    <3> QED
      BY <1>6, <3>2, <3>4, Zenon
  <2>3. CASE FragmentAt(path) # 0
    <3>1. Len(sent) = 3 /\ sent[1] = "1.0" /\ sent[2] \in Collections
      BY <2>1, <2>3, FragmentInItem
    <3> HIDE DEF sent
    <3>2. Len(sent) <= 3
      BY <3>1
    <3>3. sent # <<>>
      BY <3>1
    <3> QED
      BY <1>6, <2>3, <3>1, <3>2, <3>3, Zenon
  <2> QED
    BY <2>2, <2>3
<1> QED
  BY <1>1, <1>4, <1>5, <1>6 DEF isAllowedIncusReadPath
----------------------------------------------------------------------------
(* The report *)

LEMMA InitialReport == InitReport => ReportInv
<1> SUFFICES ASSUME InitReport PROVE ReportInv
  OBVIOUS
<1>1. world \in World /\ moments = {world}
  <2>1. (CHOOSE p \in Profiles : TRUE) \in Profiles
    BY ProfilesAssumption
  <2> QED
    BY <2>1, TotalsAssumption DEF InitReport, World
<1>2. NoReport.total = [l \in Lists |-> 0] /\ ~NoReport.available /\ ~NoReport.wireGuard /\ ~NoReport.vmLifecycle
  BY DEF NoReport
<1>3. NoReport \in [wireGuard : BOOLEAN, vmLifecycle : BOOLEAN, available : BOOLEAN, total : [Lists -> Totals]]
  BY TotalsAssumption DEF NoReport
<1>4. ReportTypeOK
  BY <1>1, <1>2, <1>3 DEF InitReport, ReportTypeOK, Lists
<1>5. NotBegun /\ DeviceSeen /\ WireGuardDenied /\ LifecycleDenied /\ IncusDenied
  BY DEF InitReport, NotBegun, DeviceSeen, WireGuardDenied, LifecycleDenied, IncusDenied,
         PastWireGuard, PastReadiness, Lists
<1>6. CountsDenied
  BY DEF InitReport, CountsDenied, CountedBy
<1>7. ClaimsWereTrue
  BY <1>2 DEF InitReport, ClaimsWereTrue
<1> QED
  BY <1>4, <1>5, <1>6, <1>7 DEF ReportInv

(* What is so of a report stays so while only time passes: the past grows, *)
(* and a context that has ended does not come back.                        *)
LEMMA TimePasses ==
    ASSUME ReportInv, ReportTypeOK', moments \subseteq moments', ctxEnded => ctxEnded',
           UNCHANGED <<stage, report, failed>>
    PROVE  ReportInv'
<1>1. NotBegun' /\ DeviceSeen' /\ IncusDenied'
  BY DEF ReportInv, NotBegun, DeviceSeen, IncusDenied
<1>2. ClaimsWereTrue'
  BY DEF ReportInv, ClaimsWereTrue
<1>3. WireGuardDenied' /\ LifecycleDenied'
  BY DEF ReportInv, WireGuardDenied, LifecycleDenied
<1>4. CountsDenied'
  BY DEF ReportInv, CountsDenied
<1> QED
  BY <1>1, <1>2, <1>3, <1>4 DEF ReportInv

LEMMA WorldChangesKeeps == ReportInv /\ WorldChanges => ReportInv'
<1> SUFFICES ASSUME ReportInv, WorldChanges PROVE ReportInv'
  OBVIOUS
<1>1. world \in World
  BY DEF ReportInv, ReportTypeOK
<1>2. world' \in World
  BY <1>1 DEF WorldChanges, World
<1>3. ReportTypeOK'
  BY <1>2 DEF ReportInv, ReportTypeOK, WorldChanges
<1> QED
  BY <1>3, TimePasses DEF WorldChanges

LEMMA ContextEndsKeeps == ReportInv /\ ReportContextEnds => ReportInv'
<1> SUFFICES ASSUME ReportInv, ReportContextEnds PROVE ReportInv'
  OBVIOUS
<1>1. ReportTypeOK'
  BY DEF ReportInv, ReportTypeOK, ReportContextEnds
<1> QED
  BY <1>1, TimePasses DEF ReportContextEnds

LEMMA UnchangedKeeps == ReportInv /\ UNCHANGED reportVars => ReportInv'
<1> SUFFICES ASSUME ReportInv, UNCHANGED reportVars PROVE ReportInv'
  OBVIOUS
<1>1. ReportTypeOK'
  BY DEF ReportInv, ReportTypeOK, reportVars
<1> QED
  BY <1>1, TimePasses DEF reportVars

LEMMA AskKeeps == ReportInv /\ AskForReport => ReportInv'
<1> SUFFICES ASSUME ReportInv, AskForReport PROVE ReportInv'
  OBVIOUS
<1>1. report = NoReport /\ failed = {}
  BY DEF ReportInv, NotBegun, AskForReport
<1>2. NoReport.total = [l \in Lists |-> 0] /\ ~NoReport.available /\ ~NoReport.wireGuard /\ ~NoReport.vmLifecycle
  BY DEF NoReport
<1>3. ReportTypeOK'
  BY <1>1, <1>2 DEF ReportInv, ReportTypeOK, AskForReport, Lists
<1>4. NotBegun' /\ DeviceSeen' /\ WireGuardDenied' /\ LifecycleDenied' /\ IncusDenied'
  BY DEF AskForReport, NotBegun, DeviceSeen, WireGuardDenied, LifecycleDenied, IncusDenied,
         PastWireGuard, PastReadiness, Lists
<1>5. CountsDenied'
  BY DEF AskForReport, CountsDenied, CountedBy
<1>6. ClaimsWereTrue'
  BY <1>1, <1>2 DEF AskForReport, ClaimsWereTrue
<1> QED
  BY <1>3, <1>4, <1>5, <1>6 DEF ReportInv

LEMMA HostnameKeeps == ReportInv /\ ReadHostname => ReportInv'
<1> SUFFICES ASSUME ReportInv, ReadHostname PROVE ReportInv'
  OBVIOUS
<1>1. ReportTypeOK'
  BY DEF ReportInv, ReportTypeOK, ReadHostname, Lists
<1>2. NotBegun' /\ DeviceSeen' /\ WireGuardDenied' /\ LifecycleDenied' /\ IncusDenied'
  BY DEF ReadHostname, NotBegun, DeviceSeen, WireGuardDenied, LifecycleDenied, IncusDenied,
         PastWireGuard, PastReadiness, Lists
<1>3. CountsDenied'
  BY DEF ReadHostname, CountsDenied, CountedBy
<1>4. ClaimsWereTrue'
  BY DEF ReportInv, ReadHostname, ClaimsWereTrue
<1> QED
  BY <1>1, <1>2, <1>3, <1>4 DEF ReportInv

LEMMA WireGuardKeeps == ReportInv /\ ReadWireGuard => ReportInv'
<1> SUFFICES ASSUME ReportInv, ReadWireGuard PROVE ReportInv'
  OBVIOUS
<1>1. /\ world \in moments /\ world.wg \in BOOLEAN /\ ctxEnded \in BOOLEAN
      /\ report \in [wireGuard : BOOLEAN, vmLifecycle : BOOLEAN, available : BOOLEAN, total : [Lists -> Totals]]
  BY DEF ReportInv, ReportTypeOK, World
<1>2. /\ report'.wireGuard = (~ctxEnded /\ world.wg)
      /\ report'.vmLifecycle = report.vmLifecycle /\ report'.available = report.available
      /\ report'.total = report.total
      /\ report' \in [wireGuard : BOOLEAN, vmLifecycle : BOOLEAN, available : BOOLEAN, total : [Lists -> Totals]]
  BY <1>1 DEF ReadWireGuard
<1>3. ReportTypeOK'
  BY <1>2 DEF ReportInv, ReportTypeOK, ReadWireGuard, Lists
<1>4. NotBegun' /\ DeviceSeen' /\ LifecycleDenied' /\ IncusDenied'
  BY DEF ReadWireGuard, NotBegun, DeviceSeen, LifecycleDenied, IncusDenied, PastReadiness, Lists
<1>5. WireGuardDenied'
  BY <1>1, <1>2 DEF ReadWireGuard, WireGuardDenied
<1>6. CountsDenied'
  BY DEF ReadWireGuard, CountsDenied, CountedBy
<1>7. ClaimsWereTrue'
  BY <1>1, <1>2 DEF ReportInv, ReadWireGuard, ClaimsWereTrue
<1> QED
  BY <1>3, <1>4, <1>5, <1>6, <1>7 DEF ReportInv

LEMMA KvmKeeps == ReportInv /\ ReadKvm => ReportInv'
<1> SUFFICES ASSUME ReportInv, ReadKvm PROVE ReportInv'
  OBVIOUS
<1>1. world \in moments
  BY DEF ReportInv, ReportTypeOK
<1>2. ReportTypeOK'
  BY DEF ReportInv, ReportTypeOK, ReadKvm, Lists
<1>3. NotBegun' /\ IncusDenied'
  BY DEF ReadKvm, NotBegun, IncusDenied
<1>4. DeviceSeen'
  BY <1>1 DEF ReadKvm, DeviceSeen
<1>5. WireGuardDenied'
  BY DEF ReportInv, ReadKvm, WireGuardDenied, PastWireGuard
<1>6. LifecycleDenied'
  BY <1>1 DEF ReadKvm, LifecycleDenied, PastReadiness, Lists
<1>7. CountsDenied'
  BY DEF ReadKvm, CountsDenied, CountedBy
<1>8. ClaimsWereTrue'
  BY DEF ReportInv, ReadKvm, ClaimsWereTrue
<1> QED
  BY <1>2, <1>3, <1>4, <1>5, <1>6, <1>7, <1>8 DEF ReportInv

LEMMA ProfileKeeps == ReportInv /\ ReadProfile => ReportInv'
<1> SUFFICES ASSUME ReportInv, ReadProfile PROVE ReportInv'
  OBVIOUS
<1>1. /\ stage = "profile" /\ stage' = "root" /\ UNCHANGED <<world, moments, ctxEnded>>
      /\ failed \subseteq failed' /\ failed' \subseteq failed \union {"profile"}
  BY DEF ReadProfile, Call
<1>2. /\ world \in moments /\ report.available \in BOOLEAN
      /\ report \in [wireGuard : BOOLEAN, vmLifecycle : BOOLEAN, available : BOOLEAN, total : [Lists -> Totals]]
  BY DEF ReportInv, ReportTypeOK
<1>3. ~report.available /\ report.total = NoReport.total
  BY <1>1 DEF ReportInv, ReportTypeOK, Lists
<1>4. /\ report' \in [wireGuard : BOOLEAN, vmLifecycle : BOOLEAN, available : BOOLEAN, total : [Lists -> Totals]]
      /\ report'.wireGuard = report.wireGuard /\ report'.available = report.available
      /\ report'.total = report.total
  BY <1>2 DEF ReadProfile, Call
<1>5. \/ /\ world.up /\ failed' = failed
         /\ report'.vmLifecycle = (RootDiskVerdict(world.profile) = "ok")
      \/ "profile" \in failed' /\ report' = report
  BY <1>2 DEF ReadProfile, Call
<1>6. ReportTypeOK'
  BY <1>1, <1>3, <1>4 DEF ReportInv, ReportTypeOK, Lists
<1>7. NotBegun' /\ DeviceSeen' /\ IncusDenied'
  BY <1>1 DEF NotBegun, DeviceSeen, IncusDenied
<1>8. WireGuardDenied'
  BY <1>1, <1>4 DEF ReportInv, WireGuardDenied, PastWireGuard
<1>9. LifecycleDenied'
  BY <1>1, <1>2, <1>5 DEF LifecycleDenied
<1>10. CountsDenied'
  BY <1>1 DEF CountsDenied, CountedBy
<1>11. \E w \in moments : w.kvm = "device"
  BY <1>1 DEF ReportInv, DeviceSeen
<1>12. ClaimsWereTrue'
  BY <1>1, <1>2, <1>4, <1>5, <1>11 DEF ReportInv, ClaimsWereTrue
<1> QED
  BY <1>6, <1>7, <1>8, <1>9, <1>10, <1>12 DEF ReportInv

LEMMA RootKeeps == ReportInv /\ ReadRoot => ReportInv'
<1> SUFFICES ASSUME ReportInv, ReadRoot PROVE ReportInv'
  OBVIOUS
<1>1. /\ stage = "root" /\ UNCHANGED <<world, moments, ctxEnded>>
      /\ failed \subseteq failed' /\ failed' \subseteq failed \union {"root"}
      /\ stage' = IF report'.available THEN "instances" ELSE "done"
  BY DEF ReadRoot, Call
<1>2. /\ world \in moments
      /\ report \in [wireGuard : BOOLEAN, vmLifecycle : BOOLEAN, available : BOOLEAN, total : [Lists -> Totals]]
  BY DEF ReportInv, ReportTypeOK
<1>3. ~report.available /\ report.total = NoReport.total
  BY <1>1 DEF ReportInv, ReportTypeOK, Lists
<1>4. /\ report' \in [wireGuard : BOOLEAN, vmLifecycle : BOOLEAN, available : BOOLEAN, total : [Lists -> Totals]]
      /\ report'.wireGuard = report.wireGuard /\ report'.vmLifecycle = report.vmLifecycle
      /\ report'.total = report.total
  BY <1>2 DEF ReadRoot, Call
<1>5. \/ world.up /\ report'.available /\ stage' = "instances"
      \/ "root" \in failed' /\ ~report'.available /\ stage' = "done"
  BY <1>1, <1>2, <1>3 DEF ReadRoot, Call
<1>6. ReportTypeOK'
  BY <1>1, <1>3, <1>4, <1>5 DEF ReportInv, ReportTypeOK, Lists
<1>7. NotBegun' /\ DeviceSeen' /\ IncusDenied'
  BY <1>5 DEF NotBegun, DeviceSeen, IncusDenied
<1>8. WireGuardDenied'
  BY <1>1, <1>4 DEF ReportInv, WireGuardDenied, PastWireGuard
<1>9. LifecycleDenied'
  BY <1>1, <1>4 DEF ReportInv, LifecycleDenied, PastReadiness
<1>10. CountsDenied'
  BY <1>5 DEF CountsDenied, CountedBy
<1>11. ClaimsWereTrue'
  BY <1>1, <1>2, <1>4, <1>5 DEF ReportInv, ClaimsWereTrue
<1> QED
  BY <1>6, <1>7, <1>8, <1>9, <1>10, <1>11 DEF ReportInv

(* A list that is counted joins those that were. *)
LEMMA CountKeeps == ReportInv /\ Count => ReportInv'
<1> SUFFICES ASSUME ReportInv, Count PROVE ReportInv'
  OBVIOUS
<1>1. /\ stage \in Lists /\ stage' = Following[stage] /\ UNCHANGED <<world, moments, ctxEnded>>
      /\ failed \subseteq failed' /\ failed' \subseteq failed \union {stage}
  BY DEF Count, Call
<1>2. /\ world \in moments /\ world.total \in [Lists -> Totals]
      /\ report \in [wireGuard : BOOLEAN, vmLifecycle : BOOLEAN, available : BOOLEAN, total : [Lists -> Totals]]
  BY DEF ReportInv, ReportTypeOK, World
<1>3. report.available
  BY <1>1 DEF ReportInv, ReportTypeOK
<1>4. \/ /\ world.up /\ failed' = failed
         /\ report' = [report EXCEPT !.total[stage] = world.total[stage]]
      \/ stage \in failed' /\ report' = report
  BY DEF Count, Call
<1>5. /\ report' \in [wireGuard : BOOLEAN, vmLifecycle : BOOLEAN, available : BOOLEAN, total : [Lists -> Totals]]
      /\ report'.wireGuard = report.wireGuard /\ report'.vmLifecycle = report.vmLifecycle
      /\ report'.available = report.available
      /\ \A l \in Lists \ {stage} : report'.total[l] = report.total[l]
  <2>1. CASE report' = report
    BY <1>2, <2>1
  <2>2. CASE report' = [report EXCEPT !.total[stage] = world.total[stage]]
    BY <1>1, <1>2, <2>2
  <2> QED
    BY <1>4, <2>1, <2>2
<1>6. \/ stage \in failed' /\ report'.total[stage] = report.total[stage]
      \/ world.up /\ report'.total[stage] = world.total[stage]
  BY <1>1, <1>2, <1>4
<1>7. /\ stage' \in {"images", "operations", "done"}
      /\ CountedBy(stage') = CountedBy(stage) \union {stage}
  BY <1>1 DEF Following, CountedBy, Lists
<1>8. ReportTypeOK'
  BY <1>1, <1>3, <1>5, <1>7 DEF ReportInv, ReportTypeOK, Lists
<1>9. NotBegun' /\ DeviceSeen' /\ IncusDenied'
  BY <1>3, <1>5, <1>7 DEF NotBegun, DeviceSeen, IncusDenied
<1>10. WireGuardDenied'
  BY <1>1, <1>5 DEF ReportInv, WireGuardDenied, PastWireGuard
<1>11. LifecycleDenied'
  BY <1>1, <1>5 DEF ReportInv, LifecycleDenied, PastReadiness
<1>12. CountsDenied'
  <2> SUFFICES ASSUME NEW l \in CountedBy(stage'), l \notin failed'
               PROVE  \E w \in moments : w.total[l] = report'.total[l]
    BY <1>1 DEF CountsDenied
  <2>1. CASE l = stage
    BY <1>2, <1>6, <2>1
  <2>2. CASE l # stage
    <3>1. l \in CountedBy(stage) /\ l \in Lists
      BY <1>7, <2>2 DEF CountedBy, Lists
    <3> QED
      BY <1>1, <1>3, <1>5, <2>2, <3>1 DEF ReportInv, CountsDenied
  <2> QED
    BY <2>1, <2>2
<1>13. ClaimsWereTrue'
  <2>1. ASSUME NEW l \in Lists, report'.total[l] # 0
        PROVE  \E w \in moments : w.up /\ w.total[l] = report'.total[l]
    BY <1>2, <1>5, <1>6, <2>1 DEF ReportInv, ClaimsWereTrue
  <2> QED
    BY <1>1, <1>5, <2>1 DEF ReportInv, ClaimsWereTrue
<1> QED
  BY <1>8, <1>9, <1>10, <1>11, <1>12, <1>13 DEF ReportInv

LEMMA StepKeeps == ReportInv /\ ReportStep => ReportInv' /\ stage' # "none"
<1>1. ReportInv /\ ReportStep => ReportInv'
  BY HostnameKeeps, WireGuardKeeps, KvmKeeps, ProfileKeeps, RootKeeps, CountKeeps DEF ReportStep
<1>2. ReportStep => stage' # "none"
  BY DEF ReportStep, ReadHostname, ReadWireGuard, ReadKvm, ReadProfile, ReadRoot, Count, Following, Lists
<1> QED
  BY <1>1, <1>2

----------------------------------------------------------------------------
(* The request *)

LEMMA PathIsSeq == Inv => request.path \in Seq(Segments)
<1>1. request \in Inputs => request.path \in Seq(Segments)
  BY InputsAssumption
<1>2. NoRequest.path \in Seq(Segments)
  BY DEF NoRequest
<1> QED
  BY <1>1, <1>2 DEF Inv, TypeOK

LEMMA StartsInvariant == Init => Inv
<1> SUFFICES ASSUME Init PROVE Inv
  OBVIOUS
<1>1. ReportInv /\ stage = "none"
  BY InitialReport DEF Init, InitReport
<1>2. TypeOK
  BY <1>1 DEF Init, TypeOK, ReportInv, NoAnswer
<1>3. NothingSentYet /\ ProxiedReadsOnly /\ AgentPathsStay
  BY DEF Init, NothingSentYet, ProxiedReadsOnly, AgentPathsStay
<1> QED
  BY <1>1, <1>2, <1>3 DEF Inv

(* A step that sends nothing to Incus and leaves the request alone.        *)
LEMMA QuietKeeps ==
    ASSUME Inv, ReportInv', UNCHANGED <<request, proxied>>,
           phase' \in {"proxy", "report", "service", "answered"} \/ UNCHANGED <<phase, answer>>,
           phase' = "answered" => answer' \in 200 .. 599,
           phase' \in {"proxy", "report", "service"} => answer' = NoAnswer,
           phase' = "report" => stage' # "none",
           phase' \in {"report", "service"} =>
               hasAgentPrefix(request.path) /\ request.method \in Methods
    PROVE  Inv'
<1>1. answer' # NoAnswer <=> phase' = "answered"
  BY DEF Inv, TypeOK, NoAnswer
<1>2. TypeOK'
  BY <1>1 DEF Inv, TypeOK, ReportInv
<1>3. NothingSentYet'
  BY DEF Inv, NothingSentYet
<1>4. ProxiedReadsOnly'
  BY Zenon DEF Inv, ProxiedReadsOnly
<1>5. AgentPathsStay'
  BY DEF Inv, AgentPathsStay
<1> QED
  BY <1>2, <1>3, <1>4, <1>5 DEF Inv

(* Receive: nothing has been sent, so nothing of another request.          *)
LEMMA ReceiveKeeps == Inv /\ Receive => Inv'
<1> SUFFICES ASSUME Inv, Receive PROVE Inv'
  OBVIOUS
<1>1. ReportInv'
  BY UnchangedKeeps DEF Inv, Receive
<1>2. proxied' = {}
  BY DEF Inv, NothingSentYet, Receive
<1>3. TypeOK'
  BY <1>1 DEF Inv, TypeOK, ReportInv, Receive, NoAnswer
<1>4. NothingSentYet' /\ ProxiedReadsOnly' /\ AgentPathsStay'
  BY <1>2 DEF Receive, NothingSentYet, ProxiedReadsOnly, AgentPathsStay
<1> QED
  BY <1>1, <1>3, <1>4 DEF Inv

(* Proxy: what is sent is no path of the agent, and has been validated.    *)
LEMMA ProxyKeeps == Inv /\ Proxy => Inv'
<1> SUFFICES ASSUME Inv, Proxy PROVE Inv'
  OBVIOUS
<1> DEFINE sent == Sent(request)
<1>1. ReportInv'
  BY UnchangedKeeps DEF Inv, Proxy
<1>2. ~hasAgentPrefix(request.path) /\ proxied' = {sent} /\ request' = request /\ phase' = "proxy"
  BY ProxiedIsNoAgentPath, PathIsSeq DEF Inv, NothingSentYet, Proxy, Accepted
<1>3. TypeOK'
  BY <1>1 DEF Inv, TypeOK, ReportInv, Proxy, Accepted, NoAnswer
<1>4. NothingSentYet' /\ AgentPathsStay'
  BY <1>2 DEF NothingSentYet, AgentPathsStay
<1>5. ProxiedReadsOnly'
  <2>1. validateProxyRequest(request)
    BY DEF Proxy, Accepted
  <2>2. request.path \in Seq(Segments)
    BY PathIsSeq
  <2> HIDE DEF sent
  <2>3. \A r \in proxied' : r = sent
    BY <1>2
  <2> QED
    BY <1>2, <2>1, <2>2, <2>3, ProxiedShape DEF ProxiedReadsOnly, sent
<1> QED
  BY <1>1, <1>3, <1>4, <1>5 DEF Inv

(* Everything else answers, hands the request on, or puts the report       *)
(* together.                                                               *)
LEMMA RestKeeps ==
    ASSUME Inv,
           \/ Refuse \/ IncusReplies \/ RefuseMethod \/ Unknown \/ Capabilities
           \/ PassOn \/ ServiceReplies \/ StartReport \/ Reports \/ AnswerReport
           \/ (WorldChanges \/ ReportContextEnds) /\ UNCHANGED requestVars
    PROVE  Inv'
<1> USE DEF Inv
<1>1. CASE Refuse \/ RefuseMethod \/ Unknown \/ Capabilities \/ AnswerReport
  <2>1. UNCHANGED <<reportVars, request, proxied>> /\ phase' = "answered" /\ answer' \in 200 .. 599
    BY <1>1 DEF Refuse, RefuseMethod, Unknown, Capabilities, AnswerReport, Answers
  <2> QED
    BY <2>1, UnchangedKeeps, QuietKeeps
<1>2. CASE IncusReplies \/ ServiceReplies
  <2>1. UNCHANGED <<reportVars, request, proxied>> /\ phase' = "answered" /\ answer' \in 200 .. 599
    BY <1>2, StatusesAssumption DEF IncusReplies, ServiceReplies, ServiceStatuses, Answers
  <2> QED
    BY <2>1, UnchangedKeeps, QuietKeeps
<1>3. CASE PassOn
  <2>1. UNCHANGED <<reportVars, request, proxied, answer>> /\ phase' = "service" /\ phase = "received"
    BY <1>3 DEF PassOn, Accepted
  <2>2. Route(request) \in {"lifecycle", "network state", "network apply"} /\ request.method \in Methods
    BY <1>3 DEF PassOn, Accepted, validateProxyRequest
  <2>3. hasAgentPrefix(request.path)
    BY <2>2, PathIsSeq, ServedIsAgentPath
  <2>4. answer' = NoAnswer
    BY <2>1 DEF TypeOK
  <2> QED
    BY <2>1, <2>2, <2>3, <2>4, UnchangedKeeps, QuietKeeps
<1>4. CASE StartReport
  <2>1. /\ UNCHANGED <<request, proxied, answer>> /\ phase' = "report" /\ phase = "received"
        /\ AskForReport /\ stage' # "none"
    BY <1>4 DEF StartReport, Accepted, AskForReport
  <2>2. Route(request) = "state" /\ request.method \in Methods
    BY <1>4 DEF StartReport, Accepted, validateProxyRequest
  <2>3. hasAgentPrefix(request.path)
    BY <2>2, PathIsSeq, ServedIsAgentPath
  <2>4. answer' = NoAnswer
    BY <2>1 DEF TypeOK
  <2> QED
    BY <2>1, <2>2, <2>3, <2>4, AskKeeps, QuietKeeps
<1>5. CASE Reports
  <2>1. ReportInv' /\ stage' # "none" /\ UNCHANGED requestVars
    BY <1>5, StepKeeps DEF Reports
  <2> QED
    BY <2>1, QuietKeeps DEF requestVars, TypeOK, AgentPathsStay
<1>6. CASE (WorldChanges \/ ReportContextEnds) /\ UNCHANGED requestVars
  <2>1. ReportInv' /\ stage' = stage
    BY <1>6, WorldChangesKeeps, ContextEndsKeeps DEF WorldChanges, ReportContextEnds
  <2> QED
    BY <1>6, <2>1, QuietKeeps DEF requestVars, TypeOK, AgentPathsStay
<1> QED
  BY <1>1, <1>2, <1>3, <1>4, <1>5, <1>6

LEMMA StutterKeeps == Inv /\ UNCHANGED vars => Inv'
<1> SUFFICES ASSUME Inv, UNCHANGED vars PROVE Inv'
  OBVIOUS
<1>1. ReportInv' /\ UNCHANGED requestVars /\ stage' = stage
  BY UnchangedKeeps DEF Inv, vars, reportVars
<1> QED
  BY <1>1, QuietKeeps DEF Inv, requestVars, TypeOK, AgentPathsStay

(* The invariant, of every request and every report.                       *)
THEOREM Invariance == Spec => []Inv
<1>1. Init => Inv
  BY StartsInvariant
<1>2. Inv /\ [Next]_vars => Inv'
  BY ReceiveKeeps, ProxyKeeps, RestKeeps, StutterKeeps DEF Next, Handler
<1> QED
  BY <1>1, <1>2, PTL DEF Spec

----------------------------------------------------------------------------
(* What it says *)

(* Requests, answers and reports agree: with whatever happens while a      *)
(* report is read, it only counts what an available Incus has.             *)
THEOREM TypeCorrect == Spec => []TypeOK
<1>1. Inv => TypeOK
  BY DEF Inv
<1> QED
  BY <1>1, Invariance, PTL

(* What Incus is sent reads the root of the API, a collection or what      *)
(* stands right below one, for any set of requests, any way segments       *)
(* decode and any place where a fragment begins; without a fragment, what  *)
(* stands there is neither empty nor dots.                                 *)
THEOREM OnlyReads == Spec => []ProxiedReadsOnly
<1>1. Inv => ProxiedReadsOnly
  BY DEF Inv
<1> QED
  BY <1>1, Invariance, PTL

(* No request whose path is the agent's is sent to Incus.                  *)
THEOREM AgentAnswersItself == Spec => []AgentPathsStay
<1>1. Inv => AgentPathsStay
  BY DEF Inv
<1> QED
  BY <1>1, Invariance, PTL

(* A report claims only what was so at some moment since it was asked for, *)
(* however often host and Incus change.                                    *)
THEOREM ReportsClaimTruly == Spec => []ClaimsWereTrue
<1>1. Inv => ClaimsWereTrue
  BY DEF Inv, ReportInv
<1> QED
  BY <1>1, Invariance, PTL

(* What a finished report denies was missing at some moment, or could not  *)
(* be read.                                                                *)
THEOREM ReportsDenyWithReason == Spec => []DenialsHadReason
<1>1. Inv => DenialsHadReason
  <2> SUFFICES ASSUME ReportInv, stage = "done" PROVE DenialsHadReason
    BY DEF Inv, DenialsHadReason
  <2>1. CountedBy(stage) = Lists
    BY DEF CountedBy
  <2> QED
    BY <2>1 DEF ReportInv, DenialsHadReason, WireGuardDenied, LifecycleDenied, IncusDenied, CountsDenied,
                PastWireGuard, PastReadiness
<1> QED
  BY <1>1, Invariance, PTL
=============================================================================
