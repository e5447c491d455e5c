------------------------------- MODULE Routes -------------------------------
(***************************************************************************)
(* Which requests of the backend anvil-agent accepts, and who answers      *)
(* them: validateProxyRequest (internal/proxy/validation.go) and the       *)
(* switch of handleAgentRequest (internal/proxy/server.go).                *)
(*                                                                         *)
(* A path is the sequence of its segments, what stands between slashes,    *)
(* without the empty one before the first: "/1.0/" is <<"1.0", "">>, and   *)
(* <<>> is no path at all.  Its query is apart: "none", "empty" (nothing   *)
(* behind the question mark), or what net/url makes of it.                 *)
(*                                                                         *)
(* A segment may be written with escapes, which may stand for slashes, and *)
(* with characters that ought to be escaped and are not: a space, or a     *)
(* '#', which for url.ParseRequestURI is part of the path and for          *)
(* http.NewRequest begins a fragment.                                      *)
(***************************************************************************)
EXTENDS Naturals, SequencesExt

CONSTANTS
    PlainSegments,   \* segments that stand for themselves
    EscapedSegments, \* segments with escapes
    LooseSegments,   \* segments with a character that ought to be escaped
    Decode,          \* Decode[s]: what url.PathUnescape makes of such a segment, in pieces
                     \* if it holds slashes
    Fragmented,      \* the loose segments with a '#'
    Cut              \* Cut[s]: what stands before the first '#'

Segments == PlainSegments \union EscapedSegments \union LooseSegments
Methods == {"GET", "POST", "PUT", "PATCH", "DELETE"}
Collections == {"instances", "images", "operations"}
Dots == {".", ".."}
NoQuery == {"none", "empty"}

ASSUME SegmentsAssumption ==
    /\ Collections \union Dots \union {"1.0", "agent", "v1", ""} \subseteq PlainSegments
    /\ PlainSegments \subseteq STRING
    /\ PlainSegments \intersect (EscapedSegments \union LooseSegments) = {}
    /\ EscapedSegments \intersect LooseSegments = {}
    /\ Decode \in [EscapedSegments \union LooseSegments -> Seq(STRING) \ {<<>>}]

Decoded(s) == IF s \in PlainSegments THEN <<s>> ELSE Decode[s]

(* Decoding leaves a '#' where it is: up to the piece that holds it, the   *)
(* segment decodes like what stands before it.                             *)
ASSUME FragmentsAssumption ==
    /\ Fragmented \subseteq LooseSegments
    /\ Cut \in [Fragmented -> Segments \ Fragmented]
    /\ \A s \in Fragmented :
           LET n == Len(Decoded(Cut[s]))
           IN  /\ n <= Len(Decode[s])
               /\ \A i \in 1 .. n - 1 : Decode[s][i] = Decoded(Cut[s])[i]
               /\ Decode[s][n] \notin Collections \union {"1.0"}

----------------------------------------------------------------------------
(* validation.go *)

(* URL.Path *)
Unescaped(path) ==
    LET pieces[i \in 0 .. Len(path)] ==
            IF i = 0 THEN <<>> ELSE pieces[i - 1] \o Decoded(path[i])
    IN  pieces[Len(path)]

IsLoose(path) == \E i \in DOMAIN path : path[i] \in LooseSegments

IsDetail(path) ==
    /\ Len(path) = 3 /\ path[1] = "1.0" /\ path[2] \in Collections
    /\ path[3] \notin Dots \union {""}

hasAllowedDetailReadShapeRaw(path) ==
    IF IsLoose(path) THEN IsDetail(Unescaped(path)) ELSE IsDetail(path)

(* The item below a collection is looked at as EscapedPath writes it and   *)
(* decoded.  EscapedPath leaves a path as it was written, but escapes      *)
(* URL.Path anew if the path is loose.                                     *)
hasAllowedDetailReadShape(path) ==
    (IsLoose(path) \/ IsDetail(path)) /\ IsDetail(Unescaped(path))

(* A loose path is none of the first four: escaped anew, it still has the  *)
(* character.                                                              *)
isAllowedIncusReadPath(path, query) ==
    \/ path \in {<<"1.0">>, <<"1.0", "instances">>, <<"1.0", "operations">>} /\ query \in NoQuery
    \/ path = <<"1.0", "images">> /\ query \in NoQuery \union {"recursion=1"}
    \/ query \in NoQuery /\ hasAllowedDetailReadShape(path)

(* "/1.0" with nothing behind it, or "/1.0/". *)
hasIncusPrefix(req) == req.path[1] = "1.0" /\ (Len(req.path) = 1 => req.query = "none")

hasAgentPrefix(path) == Len(path) >= 3 /\ path[1] = "agent" /\ path[2] = "v1"

validateProxyRequest(req) ==
    /\ req.id # "" /\ req.method \in Methods /\ req.path # <<>>
    /\ \/ hasAgentPrefix(req.path)
       \/ /\ hasIncusPrefix(req) /\ req.method = "GET"
          /\ isAllowedIncusReadPath(req.path, req.query)

----------------------------------------------------------------------------
(* client.go: Do makes a URL of the path; what begins with a '#' is not    *)
(* sent.                                                                   *)

FragmentAt(path) == SelectInSeq(path, LAMBDA s : s \in Fragmented)

WithoutFragment(path) ==
    LET i == FragmentAt(path)
    IN  IF i = 0 THEN path ELSE SubSeq(path, 1, i - 1) \o <<Cut[path[i]]>>

(* What Incus is asked for; of the path, what it decodes to.               *)
Sent(req) ==
    [method |-> req.method,
     path   |-> Unescaped(WithoutFragment(req.path)),
     query  |-> IF FragmentAt(req.path) = 0 THEN req.query ELSE "none"]

----------------------------------------------------------------------------
(* handleRequest and handleAgentRequest *)

(* A path without a query is compared as a whole. *)
Is(req, path) == req.query = "none" /\ req.path = path

(* Something stands behind the prefix. *)
GoesOn(req) == Len(req.path) > 3 \/ req.path[3] # "" \/ req.query # "none"

isAgentRequestGoesOn(req) == hasAgentPrefix(req.path) /\ GoesOn(req)

isAgentRequest(req) ==
    \/ Is(req, <<"agent", "v1", "state">>) \/ Is(req, <<"agent", "v1", "">>)
    \/ hasAgentPrefix(req.path) /\ GoesOn(req)

Route(req) ==
    IF ~isAgentRequest(req) THEN "proxy"
    ELSE CASE Is(req, <<"agent", "v1", "lifecycle", "capabilities">>) -> "capabilities"
           [] Is(req, <<"agent", "v1", "state">>) -> "state"
           [] Is(req, <<"agent", "v1", "network", "state">>) -> "network state"
           [] Is(req, <<"agent", "v1", "network", "apply">>) -> "network apply"
           [] OTHER -> IF Len(req.path) >= 4 /\ req.path[3] = "lifecycle" THEN "lifecycle" ELSE "unknown"

(* lifecycle.Handle looks at the method itself.                            *)
MethodFits(req) ==
    CASE Route(req) \in {"capabilities", "state", "network state"} -> req.method = "GET"
      [] Route(req) = "network apply" -> req.method = "POST"
      [] OTHER -> TRUE
=============================================================================
