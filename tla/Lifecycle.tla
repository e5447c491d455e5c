----------------------------- MODULE Lifecycle -----------------------------
(***************************************************************************)
(* The VM lifecycle service of anvil-agent (internal/lifecycle) together   *)
(* with the Incus daemon it drives.                                        *)
(*                                                                         *)
(* Every request of the backend runs in a goroutine of its own, without a  *)
(* lock: it validates its input, then makes up to four HTTP calls to Incus *)
(* (read the default profile, submit the write, wait for the background    *)
(* operation, look the new instance up) and answers exactly once.  Between *)
(* any two of its steps other requests run, the request's context may end  *)
(* (30 s deadline or a lost backend connection), Incus may finish or lose  *)
(* work, and a call whose context ended may still reach Incus later.       *)
(***************************************************************************)
EXTENDS Naturals, FiniteSets, RootDisk

CONSTANTS
    Requests,        \* the lifecycle requests, each handled once
    Names,           \* instance names ValidateInstanceName accepts
    BadName,         \* any name it refuses
    Inputs,          \* the inputs the backend sends
    Profiles,        \* the device sets the default profile may have
    ErrorStatuses,   \* the HTTP error statuses Incus may answer
    GarbledReplies,  \* TRUE iff a reply of Incus may be undecodable
    OtherClients     \* TRUE iff somebody else drives the same Incus

Actions == {"create", "start", "stop", "restart", "delete"}

(* A request as handleLifecycle receives it.  A body is "refused" when it  *)
(* decodes but a value check says no (limits out of range, no confirm).    *)
Input == [action: Actions \union {"unknown"}, method: {"POST", "other"},
          body: {"empty", "malformed", "refused", "valid"},
          name: Names \union {BadName}]

NoDisk == [id |-> "none", root |-> FALSE, pool |-> FALSE]

ASSUME NamesAssumption == Names # {} /\ BadName \notin Names
ASSUME InputsAssumption == Inputs \subseteq Input
ASSUME ProfilesAssumption == Profiles \subseteq SUBSET Device
ASSUME StatusesAssumption == ErrorStatuses \subseteq 400..599
ASSUME FlagsAssumption == GarbledReplies \in BOOLEAN /\ OtherClients \in BOOLEAN

VARIABLES
    (* the agent's goroutines *)
    stage,     \* where the handler of each request is
    input,     \* what the backend asked for
    ctxDone,   \* the requests whose context has ended
    call,      \* the HTTP call in progress: none, sent, or replied
    reply,     \* the status and body Execute returns for that call
    devices,   \* the devices in the profile reply
    rootDisk,  \* the root disk put into the create request
    opKind,    \* operationKind of the submitted write
    response,  \* the Code or Status of the Result, once done
    (* Incus *)
    profile,   \* the devices of the default profile now
    initial,   \* the instances at the start (history)
    instance,  \* the instances now
    op         \* each request's write, as Incus sees it

agentVars == <<stage, input, ctxDone, call, reply, devices, rootDisk, opKind,
               response>>
incusVars == <<profile, initial, instance, op>>
vars == <<agentVars, incusVars>>

Stages == {"received", "profile", "submit", "wait", "verify", "done"}
CallStages == {"profile", "submit", "wait", "verify"}
InstanceStates == {"absent", "stopped", "running"}

(* "unsent": the write has not left the agent.  "transit": it has, and     *)
(* Incus has not looked at it.  "running": Incus works on it.              *)
OpStates == {"unsent", "transit", "running", "success", "failure"}

(* "lost" is the body of a reply the HTTP client made up: no answer came.  *)
Bodies == {"lost", "error", "devices", "plain", "operation", "badref",
           "garbled", "success", "failure"}
Reply == [status: Nat, body: Bodies]
NoReply == [status |-> 0, body |-> "lost"]

(* Codes that say: Incus never applies this write.                         *)
Refusals == {"INVALID_REQUEST", "INCUS_PROFILE_UNAVAILABLE",
             "INCUS_PROFILE_ROOT_DISK_UNAVAILABLE",
             "INCUS_PROFILE_ROOT_DISK_AMBIGUOUS", "INSTANCE_NOT_FOUND",
             "INCUS_OPERATION_FAILED"}
Successes == {"operation-completed", "sync-ok"}
(* Codes that leave open whether the write was or will be applied.         *)
Doubts == {"REQUEST_CANCELLED", "INCUS_BAD_REQUEST", "INSTANCE_STATE_CONFLICT",
           "INCUS_UNAVAILABLE", "INCUS_LIFECYCLE_FAILED",
           "INCUS_OPERATION_MISSING", "INCUS_OPERATION_MALFORMED",
           "INCUS_INSTANCE_MISSING"}
Codes == Refusals \union Successes \union Doubts

----------------------------------------------------------------------------
(* Pure parts of the service *)

AcceptedBodies(action) ==
    IF action \in {"create", "delete"} THEN {"valid"}
    ELSE {"empty", "refused", "valid"}

(* Every check made before the first call to Incus; all the codes of a     *)
(* refusal at this point are one here, INVALID_REQUEST.                    *)
Valid(in) ==
    /\ in.action \in Actions
    /\ in.method = "POST"
    /\ in.body \in AcceptedBodies(in.action)
    /\ in.name \in Names

IsSuccess(status) == status \in 200..299

MapIncusErrorCodeNoDefault(status) ==
    CASE status = 400 -> "INCUS_BAD_REQUEST"
      [] status = 404 -> "INSTANCE_NOT_FOUND"
      [] status = 409 -> "INSTANCE_STATE_CONFLICT"
      [] status = 503 -> "INCUS_UNAVAILABLE"
      [] OTHER -> ""

MapIncusErrorCode(status) ==
    CASE status = 400 -> "INCUS_BAD_REQUEST"
      [] status = 404 -> "INSTANCE_NOT_FOUND"
      [] status = 409 -> "INSTANCE_STATE_CONFLICT"
      [] status = 503 -> "INCUS_UNAVAILABLE"
      [] OTHER -> "INCUS_LIFECYCLE_FAILED"

(* What a write needs, and what it leaves, when Incus carries it out.      *)
Before == [create |-> "absent", start |-> "stopped", stop |-> "running",
           restart |-> "running", delete |-> "stopped"]
After == [create |-> "stopped", start |-> "running", stop |-> "stopped",
          restart |-> "running", delete |-> "absent"]

----------------------------------------------------------------------------
(* The agent *)

Init ==
    /\ stage = [r \in Requests |-> "received"]
    /\ input \in [Requests -> Inputs]
    /\ ctxDone = {}
    /\ call = [r \in Requests |-> "none"]
    /\ reply = [r \in Requests |-> NoReply]
    /\ devices = [r \in Requests |-> {}]
    /\ rootDisk = [r \in Requests |-> NoDisk]
    /\ opKind = [r \in Requests |-> "sync"]
    /\ response = [r \in Requests |-> "none"]
    /\ profile \in Profiles
    /\ instance \in [Names -> InstanceStates]
    /\ initial = instance
    /\ op = [r \in Requests |-> "unsent"]

Goto(r, s) ==
    /\ stage' = [stage EXCEPT ![r] = s]
    /\ call' = [call EXCEPT ![r] = "none"]
    /\ reply' = [reply EXCEPT ![r] = NoReply]
    /\ UNCHANGED <<ctxDone, response>>

(* The result goes back to handleRequest, whose deferred cancel ends the   *)
(* context.                                                                *)
Answer(r, code) ==
    /\ stage' = [stage EXCEPT ![r] = "done"]
    /\ call' = [call EXCEPT ![r] = "none"]
    /\ reply' = [reply EXCEPT ![r] = NoReply]
    /\ ctxDone' = ctxDone \union {r}
    /\ response' = [response EXCEPT ![r] = code]

(* The 30 s deadline of handleRequest, or the connection it came from ends.*)
Cancel(r) ==
    /\ stage[r] # "done"
    /\ r \notin ctxDone
    /\ ctxDone' = ctxDone \union {r}
    /\ UNCHANGED <<stage, input, call, reply, devices, rootDisk, opKind,
                   response, incusVars>>

(* Handle and handleCreate / handleState / handleDelete up to the first    *)
(* call of Incus.                                                          *)
Handle(r) ==
    /\ stage[r] = "received"
    /\ \/ /\ r \in ctxDone
          /\ Answer(r, "REQUEST_CANCELLED")
       \/ /\ r \notin ctxDone
          /\ ~Valid(input[r])
          /\ Answer(r, "INVALID_REQUEST")
       \/ /\ r \notin ctxDone
          /\ Valid(input[r])
          /\ Goto(r, IF input[r].action = "create" THEN "profile"
                                                   ELSE "submit")
    /\ UNCHANGED <<input, devices, rootDisk, opKind, incusVars>>

(* The next call of Incus.  Reading, waiting and looking up first test the *)
(* context; submitting the write leaves that test to the HTTP client,      *)
(* which reports it as 503 without sending anything.                       *)
Call(r) ==
    /\ stage[r] \in CallStages
    /\ call[r] = "none"
    /\ \/ /\ r \notin ctxDone
          /\ call' = [call EXCEPT ![r] = "sent"]
          /\ op' = [op EXCEPT ![r] = IF stage[r] = "submit" THEN "transit"
                                                            ELSE op[r]]
          /\ UNCHANGED <<stage, ctxDone, reply, response>>
       \/ /\ r \in ctxDone
          /\ stage[r] = "submit"
          /\ call' = [call EXCEPT ![r] = "replied"]
          /\ reply' = [reply EXCEPT ![r] = [status |-> 503, body |-> "lost"]]
          /\ UNCHANGED <<stage, ctxDone, op, response>>
       \/ /\ r \in ctxDone
          /\ stage[r] # "submit"
          /\ Answer(r, "REQUEST_CANCELLED")
          /\ UNCHANGED op
    /\ UNCHANGED <<input, devices, rootDisk, opKind, profile,
                   initial, instance>>

(* Execute gives up on a call: the connection broke or the context ended,  *)
(* before the reply's header (503) or within its body (500).  Nothing is   *)
(* taken back from Incus.                                                  *)
LoseReply(r, status) ==
    /\ \/ call[r] = "sent" /\ status = 503
       \/ call[r] = "replied" /\ reply[r].body # "lost" /\ status \in {500, 503}
    /\ call' = [call EXCEPT ![r] = "replied"]
    /\ reply' = [reply EXCEPT ![r] = [status |-> status, body |-> "lost"]]
    /\ UNCHANGED <<stage, input, ctxDone, devices, rootDisk, opKind, response,
                   incusVars>>

CallFailsNoCancel(r) == r \notin ctxDone /\ \E s \in {500, 503} : LoseReply(r, s)

CallFails(r) == \E s \in {500, 503} : LoseReply(r, s)

Replied(r, s) == stage[r] = s /\ call[r] = "replied"

(* defaultProfileRootDisk after Execute, and the rest of handleCreate.     *)
OnProfile(r) ==
    /\ Replied(r, "profile")
    /\ \/ /\ ~IsSuccess(reply[r].status) \/ reply[r].body # "devices"
          /\ Answer(r, "INCUS_PROFILE_UNAVAILABLE")
          /\ UNCHANGED rootDisk
       \/ /\ IsSuccess(reply[r].status) /\ reply[r].body = "devices"
          /\ RootDiskVerdict(devices[r]) # "ok"
          /\ Answer(r, RootDiskVerdict(devices[r]))
          /\ UNCHANGED rootDisk
       \/ /\ IsSuccess(reply[r].status) /\ reply[r].body = "devices"
          /\ RootDiskVerdict(devices[r]) = "ok"
          /\ \E d \in RootDisks(devices[r]) :
                rootDisk' = [rootDisk EXCEPT ![r] = d]
          /\ Goto(r, "submit")
    /\ UNCHANGED <<input, devices, opKind, incusVars>>

Refused(r) ==
    /\ ~IsSuccess(reply[r].status)
    /\ Answer(r, MapIncusErrorCode(reply[r].status))

Succeed(r, kind) ==
    Answer(r, IF kind = "async" THEN "operation-completed" ELSE "sync-ok")

SettleUnverified(r, kind) == Succeed(r, kind)

(* The write is over: a create is looked up, anything else is answered.    *)
Settle(r, kind) ==
    IF input[r].action = "create" THEN Goto(r, "verify") ELSE Succeed(r, kind)

(* normalizeResponse up to the wait.  An operation reference makes the     *)
(* reply asynchronous; one without a usable id, or a 202 without a         *)
(* reference, is malformed; any other success counts as synchronous.       *)
OnSubmitNoWait(r) ==
    /\ Replied(r, "submit")
    /\ \/ Refused(r) /\ UNCHANGED opKind
       \/ /\ IsSuccess(reply[r].status)
          /\ opKind' = [opKind EXCEPT ![r] =
                           IF reply[r].body = "operation" THEN "async" ELSE "sync"]
          /\ Settle(r, opKind'[r])
    /\ UNCHANGED <<input, devices, rootDisk, incusVars>>

OnSubmit(r) ==
    /\ Replied(r, "submit")
    /\ \/ Refused(r) /\ UNCHANGED opKind
       \/ /\ IsSuccess(reply[r].status)
          /\ reply[r].body = "operation"
          /\ opKind' = [opKind EXCEPT ![r] = "async"]
          /\ Goto(r, "wait")
       \/ /\ IsSuccess(reply[r].status)
          /\ \/ reply[r].body = "badref"
             \/ reply[r].status = 202 /\ reply[r].body # "operation"
          /\ Answer(r, "INCUS_OPERATION_MALFORMED")
          /\ UNCHANGED opKind
       \/ /\ IsSuccess(reply[r].status) /\ reply[r].status # 202
          /\ reply[r].body \notin {"operation", "badref"}
          /\ Settle(r, "sync")
          /\ UNCHANGED opKind
    /\ UNCHANGED <<input, devices, rootDisk, incusVars>>

(* waitForOperation after Execute.  404 is not "no such instance" here: it *)
(* is the operation that is gone, and with it the knowledge of its end.    *)
OnWaitPlain404(r) ==
    /\ Replied(r, "wait")
    /\ \/ Refused(r)
       \/ /\ IsSuccess(reply[r].status)
          /\ \/ reply[r].body = "success" /\ Settle(r, "async")
             \/ reply[r].body = "failure" /\ Answer(r, "INCUS_OPERATION_FAILED")
             \/ /\ reply[r].body \notin {"success", "failure"}
                /\ Answer(r, "INCUS_OPERATION_MALFORMED")
    /\ UNCHANGED <<input, devices, rootDisk, opKind, incusVars>>

OnWaitAnyStatusCode(r) ==
    /\ Replied(r, "wait")
    /\ \/ reply[r].status = 404 /\ Answer(r, "INCUS_OPERATION_MISSING")
       \/ reply[r].status # 404 /\ Refused(r)
       \/ /\ IsSuccess(reply[r].status)
          /\ \/ reply[r].body \in {"success", "failure"} /\ Settle(r, "async")
             \/ /\ reply[r].body \notin {"success", "failure"}
                /\ Answer(r, "INCUS_OPERATION_MALFORMED")
    /\ UNCHANGED <<input, devices, rootDisk, opKind, incusVars>>

OnWait(r) ==
    /\ Replied(r, "wait")
    /\ \/ reply[r].status = 404 /\ Answer(r, "INCUS_OPERATION_MISSING")
       \/ reply[r].status # 404 /\ Refused(r)
       \/ /\ IsSuccess(reply[r].status)
          /\ \/ reply[r].body = "success" /\ Settle(r, "async")
             \/ reply[r].body = "failure" /\ Answer(r, "INCUS_OPERATION_FAILED")
             \/ /\ reply[r].body \notin {"success", "failure"}
                /\ Answer(r, "INCUS_OPERATION_MALFORMED")
    /\ UNCHANGED <<input, devices, rootDisk, opKind, incusVars>>

(* verifyCreatedInstance after Execute, and the end of normalizeResponse.  *)
OnVerify(r) ==
    /\ Replied(r, "verify")
    /\ \/ reply[r].status = 404 /\ Answer(r, "INCUS_INSTANCE_MISSING")
       \/ reply[r].status # 404 /\ Refused(r)
       \/ IsSuccess(reply[r].status) /\ Succeed(r, opKind[r])
    /\ UNCHANGED <<input, devices, rootDisk, opKind, incusVars>>

----------------------------------------------------------------------------
(* Incus *)

Waiting(r, s) == stage[r] = s /\ call[r] = "sent"

(* The reply reaches the agent if its call still waits for one.            *)
Respond(r, status, body) ==
    /\ IF call[r] = "sent"
       THEN /\ call' = [call EXCEPT ![r] = "replied"]
            /\ reply' = [reply EXCEPT ![r] = [status |-> status, body |-> body]]
       ELSE UNCHANGED <<call, reply>>
    /\ UNCHANGED <<stage, input, ctxDone, rootDisk, opKind, response>>

Garbling == IF GarbledReplies THEN {"garbled"} ELSE {}

IncusReadsProfile(r) ==
    /\ Waiting(r, "profile")
    /\ devices' = [devices EXCEPT ![r] = profile]
    /\ \E b \in {"devices"} \union Garbling : Respond(r, 200, b)
    /\ UNCHANGED incusVars

(* A read fails.  The lookup answers 404 only when there is no instance.   *)
IncusFailsRead(r) ==
    /\ \E s \in {"profile", "wait", "verify"} : Waiting(r, s)
    /\ \E e \in ErrorStatuses :
          /\ stage[r] = "verify" /\ e = 404 => instance[input[r].name] = "absent"
          /\ Respond(r, e, "error")
    /\ UNCHANGED <<devices, incusVars>>

IncusRefuses(r) ==
    /\ op[r] = "transit"
    /\ op' = [op EXCEPT ![r] = "failure"]
    /\ \E e \in ErrorStatuses : Respond(r, e, "error")
    /\ UNCHANGED <<devices, profile, initial, instance>>

IncusAccepts(r) ==
    /\ op[r] = "transit"
    /\ op' = [op EXCEPT ![r] = "running"]
    /\ \/ Respond(r, 202, "operation")
       \/ /\ GarbledReplies
          /\ \E s \in {200, 202}, b \in {"badref", "garbled"} : Respond(r, s, b)
    /\ UNCHANGED <<devices, profile, initial, instance>>

Apply(r) ==
    LET a == input[r].action   n == input[r].name IN
    /\ instance[n] = Before[a]
    /\ instance' = [instance EXCEPT ![n] = After[a]]
    /\ op' = [op EXCEPT ![r] = "success"]
    /\ UNCHANGED <<profile, initial>>

IncusAppliesAtOnce(r) ==
    /\ op[r] = "transit"
    /\ Apply(r)
    /\ Respond(r, 200, "plain")
    /\ UNCHANGED devices

OperationSucceeds(r) == op[r] = "running" /\ Apply(r) /\ UNCHANGED agentVars

OperationFails(r) ==
    /\ op[r] = "running"
    /\ op' = [op EXCEPT ![r] = "failure"]
    /\ UNCHANGED <<agentVars, profile, initial, instance>>

(* GET /1.0/operations/<id>/wait returns when the operation is over.       *)
IncusReportsOperation(r) ==
    /\ Waiting(r, "wait")
    /\ op[r] \in {"success", "failure"}
    /\ \E b \in {op[r]} \union Garbling : Respond(r, 200, b)
    /\ UNCHANGED <<devices, incusVars>>

IncusLooksUp(r) ==
    /\ Waiting(r, "verify")
    /\ IF instance[input[r].name] = "absent" THEN Respond(r, 404, "error")
                                             ELSE Respond(r, 200, "plain")
    /\ UNCHANGED <<devices, incusVars>>

ProfileChanges ==
    /\ profile' \in Profiles \ {profile}
    /\ UNCHANGED <<agentVars, initial, instance, op>>

OtherClientActs(n) ==
    /\ OtherClients
    /\ \E s \in InstanceStates : instance' = [instance EXCEPT ![n] = s]
    /\ UNCHANGED <<agentVars, profile, initial, op>>

----------------------------------------------------------------------------
Agent(r) == Handle(r) \/ Call(r) \/ OnProfile(r) \/ OnSubmit(r) \/ OnWait(r)
            \/ OnVerify(r)

IncusStep(r) ==
    \/ IncusReadsProfile(r) \/ IncusFailsRead(r) \/ IncusRefuses(r)
    \/ IncusAccepts(r) \/ IncusAppliesAtOnce(r) \/ IncusReportsOperation(r)
    \/ IncusLooksUp(r) \/ OperationSucceeds(r) \/ OperationFails(r)

Finished ==
    /\ \A r \in Requests : stage[r] = "done" /\ op[r] \in {"unsent", "success", "failure"}
    /\ UNCHANGED vars

Next ==
    \/ \E r \in Requests : Cancel(r) \/ CallFails(r) \/ Agent(r) \/ IncusStep(r)
    \/ ProfileChanges
    \/ \E n \in Names : OtherClientActs(n)
    \/ Finished

Spec == Init /\ [][Next]_vars

(* The handler runs on while it can, the deadline comes, and a call whose  *)
(* context has ended gives up.  Incus owes nothing.                        *)
CallTimesOut(r) == r \in ctxDone /\ call[r] = "sent" /\ CallFails(r)

Fairness ==
    \A r \in Requests : /\ WF_vars(Agent(r))
                        /\ WF_vars(Cancel(r))
                        /\ WF_vars(CallTimesOut(r))

FairSpec == Spec /\ Fairness

----------------------------------------------------------------------------
(* Properties *)

(* Every request stays within the handler's stages and, once done, has one *)
(* of the agent's own codes; no other text ever becomes an answer.         *)
TypeOK ==
    /\ stage \in [Requests -> Stages]
    /\ input \in [Requests -> Inputs]
    /\ ctxDone \subseteq Requests
    /\ call \in [Requests -> {"none", "sent", "replied"}]
    /\ reply \in [Requests -> Reply]
    /\ devices \in [Requests -> SUBSET Device]
    /\ rootDisk \in [Requests -> Device \union {NoDisk}]
    /\ opKind \in [Requests -> {"sync", "async"}]
    /\ response \in [Requests -> Codes \union {"none"}]
    /\ profile \in SUBSET Device
    /\ initial \in [Names -> InstanceStates]
    /\ instance \in [Names -> InstanceStates]
    /\ op \in [Requests -> OpStates]
    /\ \A r \in Requests : stage[r] = "done" <=> response[r] # "none"

Name(r) == input[r].name
Acked(a) == {r \in Requests : input[r].action = a /\ response[r] \in Successes}

(* "operation-completed" is never said of a write Incus has merely         *)
(* accepted, or that failed, however the other requests, the deadline and  *)
(* the replies fall (normalizeResponse: acceptance is not completion).     *)
CompletedMeansSucceeded ==
    \A r \in Requests : response[r] = "operation-completed" => op[r] = "success"

(* After a refusal the write has no effect, now or later: nothing of it is *)
(* on its way to Incus or running there.  A caller that retries on these   *)
(* codes cannot apply a request twice.                                     *)
RefusalIsFinal ==
    \A r \in Requests : response[r] \in Refusals => op[r] \in {"unsent", "failure"}

(* A create that left the agent carries the one root disk of the profile   *)
(* the agent read, and that disk names a storage pool.                     *)
SafeRootDisk ==
    \A r \in Requests : input[r].action = "create" /\ op[r] # "unsent" =>
        /\ RootDisks(devices[r]) = {rootDisk[r]}
        /\ rootDisk[r].pool

(* Once every request on a name has a definite answer, the answers alone   *)
(* tell whether the instance exists: what was there at the start, plus the *)
(* creates acknowledged, less the deletes acknowledged.  "sync-ok" is not  *)
(* definite if it may stand for an undecodable reply.                      *)
Definite(r) ==
    \/ response[r] \in Refusals \union {"operation-completed"}
    \/ response[r] = "sync-ok" /\ ~GarbledReplies

AnswersTellPresence ==
    \A n \in Names :
        (\A r \in Requests : Name(r) = n => Definite(r)) =>
            Cardinality({r \in Acked("create") : Name(r) = n})
              + (IF initial[n] = "absent" THEN 0 ELSE 1)
            = Cardinality({r \in Acked("delete") : Name(r) = n})
              + (IF instance[n] = "absent" THEN 0 ELSE 1)

(* When the agent looks for the instance of a create, it knows from Incus  *)
(* that the write is over.                                                 *)
KnownOver(r) == opKind[r] = "async" \/ ~GarbledReplies

(* "create completed but instance is missing" is said only after a delete  *)
(* of that instance succeeded, unless an undecodable reply hid from the    *)
(* agent that Incus was still at work.                                     *)
MissingOnlyIfDeleted ==
    \A r \in Requests : response[r] = "INCUS_INSTANCE_MISSING" /\ KnownOver(r) =>
        \E d \in Requests : /\ input[d].action = "delete" /\ Name(d) = Name(r)
                            /\ op[d] = "success"

(* An acknowledged create is there, unless a delete of it succeeded, even  *)
(* when an undecodable reply was degraded to "sync-ok" while Incus was     *)
(* still working (verifyCreatedInstance).                                  *)
AckedCreateExists ==
    \A r \in Acked("create") :
        \/ instance[Name(r)] # "absent"
        \/ \E d \in Requests : /\ input[d].action = "delete" /\ Name(d) = Name(r)
                               /\ op[d] = "success"

(* Every request is answered, even if Incus never answers a call.          *)
EveryRequestAnswered ==
    \A r \in Requests : stage[r] # "done" ~> stage[r] = "done"
=============================================================================
