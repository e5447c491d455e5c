--------------------------- MODULE AgentRequests ---------------------------
(***************************************************************************)
(* One request of the backend from its message to its answer               *)
(* (internal/proxy/server.go): it is validated, and then proxied to Incus, *)
(* answered with a state report, or passed to a service of the agent.      *)
(* Handlers share only Incus and the host, so one request is followed; how *)
(* many of them take turns on a connection is in ProxyServer, and what the *)
(* services answer is in Lifecycle and Network.                            *)
(***************************************************************************)
EXTENDS Routes, StateReport

CONSTANTS
    Inputs,       \* requests of the backend: their id, method, path and query
    IncusStatuses \* the statuses that Incus may answer a proxied request

NoAnswer == 0

(* The statuses of the services' answers; see Lifecycle and Network.       *)
ServiceStatuses == {200, 400, 403, 404, 409, 500, 502, 503}

ASSUME InputsAssumption ==
    \A req \in Inputs : /\ DOMAIN req = {"id", "method", "path", "query"}
                        /\ req.path \in Seq(Segments)
ASSUME StatusesAssumption == IncusStatuses \subseteq 200 .. 599

VARIABLES
    request,  \* the request
    phase,    \* where it is: "waiting", "received", "proxy", "report",
              \* "service", "answered"
    proxied,  \* history: what was sent to Incus on behalf of the backend
    answer    \* the status of the answer

requestVars == <<request, phase, proxied, answer>>
vars == <<reportVars, requestVars>>

NoRequest == [id |-> "", method |-> "", path |-> <<>>, query |-> "none"]

Init ==
    /\ InitReport
    /\ request = NoRequest /\ phase = "waiting" /\ proxied = {} /\ answer = NoAnswer

Answers(status) == phase' = "answered" /\ answer' = status

(* readLoop receives a message. *)
Receive ==
    /\ phase = "waiting"
    /\ request' \in Inputs /\ phase' = "received"
    /\ UNCHANGED <<reportVars, proxied, answer>>

(* validateProxyRequest refuses: sendProtocolError answers. *)
Refuse ==
    /\ phase = "received" /\ ~validateProxyRequest(request)
    /\ Answers(400)
    /\ UNCHANGED <<reportVars, request, proxied>>

Accepted == phase = "received" /\ validateProxyRequest(request)

(* handleRequest executes what is no agent path. *)
Proxy ==
    /\ Accepted /\ Route(request) = "proxy"
    /\ proxied' = proxied \union {Sent(request)}
    /\ phase' = "proxy"
    /\ UNCHANGED <<reportVars, request, answer>>

(* Execute returns: 503 without an answer of Incus, 500 if its body breaks *)
(* off; writeResponse makes 500 of a body that is no JSON.                 *)
IncusReplies ==
    /\ phase = "proxy"
    /\ \E status \in IncusStatuses \union {500, 503} : Answers(status)
    /\ UNCHANGED <<reportVars, request, proxied>>

(* The wrong method of a path that the server looks at itself. *)
RefuseMethod ==
    /\ Accepted /\ ~MethodFits(request)
    /\ Answers(400)
    /\ UNCHANGED <<reportVars, request, proxied>>

Unknown ==
    /\ Accepted /\ Route(request) = "unknown"
    /\ Answers(404)
    /\ UNCHANGED <<reportVars, request, proxied>>

Capabilities ==
    /\ Accepted /\ MethodFits(request) /\ Route(request) = "capabilities"
    /\ Answers(200)
    /\ UNCHANGED <<reportVars, request, proxied>>

PassOn ==
    /\ Accepted /\ MethodFits(request) /\ Route(request) \in {"lifecycle", "network state", "network apply"}
    /\ phase' = "service"
    /\ UNCHANGED <<reportVars, request, proxied, answer>>

(* The answer of Lifecycle or Network. *)
ServiceReplies ==
    /\ phase = "service"
    /\ \E status \in ServiceStatuses : Answers(status)
    /\ UNCHANGED <<reportVars, request, proxied>>

(* handleAgentState *)
StartReport ==
    /\ Accepted /\ MethodFits(request) /\ Route(request) = "state"
    /\ phase' = "report" /\ AskForReport
    /\ UNCHANGED <<request, proxied, answer>>

Reports == ReportStep /\ UNCHANGED requestVars

AnswerReport ==
    /\ phase = "report" /\ stage \in {"done", "failed"}
    /\ Answers(IF stage = "done" THEN 200 ELSE 500)
    /\ UNCHANGED <<reportVars, request, proxied>>

Handler ==
    \/ Refuse \/ Proxy \/ IncusReplies \/ RefuseMethod \/ Unknown \/ Capabilities
    \/ PassOn \/ ServiceReplies \/ StartReport \/ Reports \/ AnswerReport

Next ==
    \/ Receive \/ Handler
    \/ (WorldChanges \/ ReportContextEnds) /\ UNCHANGED requestVars

Spec == Init /\ [][Next]_vars

(* Goroutines run, and every call of Incus returns by the deadline of its  *)
(* request; so do the services (EveryRequestAnswered of Lifecycle; the     *)
(* report of Network unless a command hangs).                              *)
FairSpec == Spec /\ WF_vars(Handler)

----------------------------------------------------------------------------
(* Properties *)

(* Requests, answers and reports agree.                                    *)
TypeOK ==
    /\ ReportTypeOK
    /\ request \in Inputs \union {NoRequest}
    /\ phase \in {"waiting", "received", "proxy", "report", "service", "answered"}
    /\ answer \in {NoAnswer} \union 200 .. 599
    /\ (phase = "answered") <=> (answer # NoAnswer)
    /\ phase = "report" => stage # "none"

(* What a backend reads of Incus through the agent is the API's root, a    *)
(* collection, or one item of a collection - whichever way its name is     *)
(* written, decoding it neither adds a segment nor leads elsewhere - and   *)
(* it never writes.  A fragment does not get it out of the collection.     *)
ProxiedReadsOnly ==
    \A r \in proxied :
        /\ r.method = "GET" /\ r.path # <<>> /\ r.path[1] = "1.0" /\ Len(r.path) <= 3
        /\ Len(r.path) > 1 => r.path[2] \in Collections
        /\ Len(r.path) > 2 => r.path[3] \notin Dots \union {""} \/ FragmentAt(request.path) # 0
        /\ r.query \notin NoQuery => r.path = <<"1.0", "images">> /\ r.query = "recursion=1"

(* What the tests of the validation ask of every path: the third segment   *)
(* of what Incus is sent names an item.                                    *)
ProxiedNamesItem == \A r \in proxied : Len(r.path) > 2 => r.path[3] \notin Dots \union {""}

(* The validation lets paths of the agent pass without the checks of those *)
(* of Incus, and the server decides anew, by another test, which paths are *)
(* the agent's: none that passed as such reaches Incus, and reports and    *)
(* services get only those.                                                *)
AgentPathsStay ==
    /\ hasAgentPrefix(request.path) => proxied = {}
    /\ phase \in {"report", "service"} => hasAgentPrefix(request.path) /\ request.method \in Methods

(* Every request is answered: also a report whose context ends, or during  *)
(* which Incus goes away.                                                  *)
RequestsAnswered == phase # "waiting" ~> phase = "answered"
=============================================================================
