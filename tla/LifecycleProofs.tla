-------------------------- MODULE LifecycleProofs --------------------------
(***************************************************************************)
(* Safety of the lifecycle service for any requests, names, profiles and   *)
(* error statuses, whatever the replies of Incus and its other clients.    *)
(*                                                                         *)
(* None of the invariants is inductive as it stands: what an answer may    *)
(* say depends on the reply it is computed from, and what a reply may say  *)
(* on the write Incus has seen.  Local(r) ties the four together, and      *)
(* PresenceInv what became of the writes to what exists.                   *)
(***************************************************************************)
EXTENDS Lifecycle, FiniteSetTheorems, TLAPS

Over == {"success", "failure"}

(* Where the handler is, against where its write is. *)
WriteFollowsStage(r) ==
    /\ stage[r] \in {"received", "profile"} => op[r] = "unsent"
    /\ stage[r] = "submit" /\ call[r] = "none" => op[r] = "unsent"
    /\ stage[r] \in {"received", "profile", "submit"} => opKind[r] = "sync"
    /\ stage[r] = "wait" => op[r] \in Over \union {"running"}
    /\ stage[r] = "verify" /\ opKind[r] = "async" => op[r] = "success"
    /\ call[r] # "none" => stage[r] \in CallStages

(* What a reply says, against the write it is about. *)
ReplyIsTrue(r) ==
    call[r] = "replied" =>
        /\ reply[r].body = "lost" => reply[r].status \in {500, 503}
        /\ reply[r].body \notin {"lost", "error"} => IsSuccess(reply[r].status)
        /\ reply[r].body = "error" => ~IsSuccess(reply[r].status)
        /\ stage[r] = "submit" /\ reply[r].body # "lost"
              => op[r] \in Over \union {"running"}
        /\ stage[r] = "submit" /\ reply[r].body = "error" => op[r] = "failure"
        /\ stage[r] = "wait" /\ reply[r].body \in Over => op[r] = reply[r].body

(* What the answer says, against the write. *)
AnswerIsTrue(r) ==
    /\ response[r] = "operation-completed" => op[r] = "success"
    /\ response[r] \in Refusals => op[r] \in {"unsent", "failure"}

(* What a create carries, against the profile it was computed from. *)
DiskIsSafe(r) ==
    /\ input[r].action = "create"
    /\ stage[r] \in {"submit", "wait", "verify"} \/ op[r] # "unsent"
    => RootDisks(devices[r]) = {rootDisk[r]} /\ rootDisk[r].pool

(* Nothing but a valid request gets as far as Incus. *)
OnlyValidGoOn(r) ==
    stage[r] \in CallStages \/ op[r] # "unsent" => Valid(input[r])

(* A synchronous success, as long as the replies can be decoded. *)
SyncIsTrue(r) ==
    ~GarbledReplies =>
        /\ Replied(r, "submit") /\ reply[r].body \notin {"lost", "error", "operation"}
              => op[r] = "success"
        /\ stage[r] = "verify" => op[r] = "success"
        /\ response[r] = "sync-ok" => op[r] = "success"

Local(r) ==
    /\ OnlyValidGoOn(r) /\ WriteFollowsStage(r)
    /\ ReplyIsTrue(r) /\ AnswerIsTrue(r) /\ SyncIsTrue(r)
    /\ DiskIsSafe(r)

IInv == TypeOK /\ \A r \in Requests : Local(r)
----------------------------------------------------------------------------
(* The pure operators *)

(* mapIncusErrorCode always yields a code of the agent, and a refusal only *)
(* for 404.                                                                *)
LEMMA ErrorCodes ==
    ASSUME NEW status
    PROVE  /\ MapIncusErrorCode(status) \in Codes
           /\ MapIncusErrorCode(status) \in Refusals => status = 404
           /\ MapIncusErrorCode(status) \notin Successes
BY DEF MapIncusErrorCode, Codes, Refusals, Successes, Doubts

(* selectProfileRootDisk refuses, or there is exactly one root disk and it *)
(* has a pool.                                                             *)
LEMMA VerdictIsOkOrRefusal ==
    ASSUME NEW devs
    PROVE  RootDiskVerdict(devs) \in Refusals \union {"ok"}
BY DEF RootDiskVerdict, Refusals

LEMMA OkVerdict ==
    ASSUME NEW devs, RootDiskVerdict(devs) = "ok", NEW d \in RootDisks(devs)
    PROVE  RootDisks(devs) = {d} /\ d.pool
BY DEF RootDiskVerdict

----------------------------------------------------------------------------
(* Types *)

LEMMA InitTypeOK == Init => TypeOK
<1> SUFFICES ASSUME Init PROVE TypeOK
  OBVIOUS
<1>1. NoReply \in Reply /\ "received" \in Stages /\ "unsent" \in OpStates
  BY DEF NoReply, Reply, Bodies, Stages, OpStates
<1>2. profile \in SUBSET Device
  BY ProfilesAssumption DEF Init
<1> QED BY <1>1, <1>2 DEF Init, TypeOK

(* A handler's turn: it answers with a code of the agent or goes on to a   *)
(* call of Incus.  Handle, OnProfile, OnSubmit, OnWait and OnVerify are     *)
(* such turns.                                                             *)
Turn(r) == (\E code \in Codes : Answer(r, code)) \/ (\E s \in CallStages : Goto(r, s))

LEMMA TurnTypeOK ==
    ASSUME TypeOK, NEW r \in Requests, stage[r] # "done", Turn(r),
           UNCHANGED <<input, devices, incusVars>>,
           rootDisk' \in [Requests -> Device \union {NoDisk}],
           opKind' \in [Requests -> {"sync", "async"}]
    PROVE  TypeOK'
<1>1. NoReply \in Reply /\ "none" \notin Codes
  BY DEF NoReply, Reply, Bodies, Codes, Refusals, Successes, Doubts
<1>2. ASSUME NEW code \in Codes, Answer(r, code) PROVE TypeOK'
  BY <1>1, <1>2 DEF TypeOK, Answer, incusVars, Stages
<1>3. ASSUME NEW s \in CallStages, Goto(r, s) PROVE TypeOK'
  BY <1>1, <1>3 DEF TypeOK, Goto, incusVars, Stages, CallStages
<1> QED BY <1>2, <1>3 DEF Turn

LEMMA SettleIsTurn ==
    ASSUME NEW r, NEW kind, Settle(r, kind) \/ Succeed(r, kind)
    PROVE  Turn(r)
BY DEF Settle, Succeed, Turn, Codes, Successes, CallStages

LEMMA RefusedIsTurn ==
    ASSUME NEW r, Refused(r)
    PROVE  Turn(r)
BY ErrorCodes DEF Refused, Turn

(* Steps of the agent keep the types. *)
LEMMA AgentTypeOK ==
    ASSUME TypeOK, NEW r \in Requests,
           Cancel(r) \/ CallFails(r) \/ Agent(r)
    PROVE  TypeOK'
<1>1. CASE Cancel(r)
  BY <1>1 DEF TypeOK, Cancel, incusVars
<1>2. CASE CallFails(r)
  BY <1>2 DEF TypeOK, CallFails, LoseReply, incusVars, Reply, Bodies
<1>3. CASE Handle(r)
  <2>1. Turn(r)
    BY <1>3 DEF Handle, Turn, Codes, Refusals, Doubts, CallStages
  <2> QED BY <1>3, <2>1, TurnTypeOK DEF Handle, TypeOK
<1>4. CASE Call(r)
  <2>1. CASE Answer(r, "REQUEST_CANCELLED") /\ UNCHANGED op
    <3>1. Turn(r)
      BY <2>1 DEF Turn, Codes, Doubts
    <3> QED BY <1>4, <2>1, <3>1, TurnTypeOK
            DEF Call, TypeOK, incusVars, CallStages
  <2>2. CASE /\ call' = [call EXCEPT ![r] = "sent"]
             /\ op' = [op EXCEPT ![r] = IF stage[r] = "submit" THEN "transit"
                                                               ELSE op[r]]
             /\ UNCHANGED <<stage, ctxDone, reply, response>>
    BY <1>4, <2>2 DEF TypeOK, Call, OpStates
  <2>3. CASE /\ call' = [call EXCEPT ![r] = "replied"]
             /\ reply' = [reply EXCEPT ![r] = [status |-> 503, body |-> "lost"]]
             /\ UNCHANGED <<stage, ctxDone, op, response>>
    BY <1>4, <2>3 DEF TypeOK, Call, Reply, Bodies
  <2> QED BY <1>4, <2>1, <2>2, <2>3 DEF Call
<1>5. CASE OnProfile(r)
  <2>1. rootDisk' \in [Requests -> Device \union {NoDisk}]
    BY <1>5 DEF TypeOK, OnProfile, RootDisks
  <2>2. Turn(r)
    BY <1>5, VerdictIsOkOrRefusal DEF OnProfile, Turn, Codes, Refusals, CallStages
  <2> QED BY <1>5, <2>1, <2>2, TurnTypeOK DEF OnProfile, Replied, TypeOK
<1>6. CASE OnSubmit(r)
  <2>1. opKind' \in [Requests -> {"sync", "async"}]
    BY <1>6 DEF OnSubmit, TypeOK
  <2>2. Turn(r)
    BY <1>6, SettleIsTurn, RefusedIsTurn DEF OnSubmit, Turn, Codes, Doubts, CallStages
  <2> QED BY <1>6, <2>1, <2>2, TurnTypeOK DEF OnSubmit, Replied, TypeOK
<1>7. CASE OnWait(r)
  <2>1. Turn(r)
    BY <1>7, SettleIsTurn, RefusedIsTurn DEF OnWait, Turn, Codes, Doubts, Refusals
  <2> QED BY <1>7, <2>1, TurnTypeOK DEF OnWait, Replied, TypeOK
<1>8. CASE OnVerify(r)
  <2>1. Turn(r)
    BY <1>8, SettleIsTurn, RefusedIsTurn DEF OnVerify, Turn, Codes, Doubts
  <2> QED BY <1>8, <2>1, TurnTypeOK DEF OnVerify, Replied, TypeOK
<1> QED BY <1>1, <1>2, <1>3, <1>4, <1>5, <1>6, <1>7, <1>8 DEF Agent

LEMMA RespondType ==
    ASSUME TypeOK, NEW r \in Requests, NEW status \in Nat, NEW body \in Bodies,
           Respond(r, status, body)
    PROVE  /\ call' \in [Requests -> {"none", "sent", "replied"}]
           /\ reply' \in [Requests -> Reply]
           /\ UNCHANGED <<stage, input, ctxDone, rootDisk, opKind, response>>
BY DEF TypeOK, Respond, Reply

LEMMA ApplyType ==
    ASSUME TypeOK, NEW r \in Requests, Valid(input[r]), Apply(r)
    PROVE  /\ op' \in [Requests -> OpStates]
           /\ instance' \in [Names -> InstanceStates]
           /\ UNCHANGED <<profile, initial>>
<1>1. op' \in [Requests -> OpStates]
  BY DEF TypeOK, Apply, OpStates
<1>2. After[input[r].action] \in InstanceStates
  BY DEF Valid, Actions, After, InstanceStates
<1>3. instance' \in [Names -> InstanceStates]
  BY <1>2 DEF TypeOK, Apply
<1> QED BY <1>1, <1>3 DEF Apply

(* Steps of Incus keep the types, if it only ever sees valid requests. *)
LEMMA IncusTypeOK ==
    ASSUME TypeOK, NEW r \in Requests, OnlyValidGoOn(r), IncusStep(r)
    PROVE  TypeOK'
<1>1. ErrorStatuses \subseteq Nat
  BY StatusesAssumption
<1>2. CASE IncusReadsProfile(r)
  <2>1. \E s \in Nat, b \in Bodies : Respond(r, s, b)
    BY <1>2 DEF IncusReadsProfile, Garbling, Bodies
  <2>2. devices' \in [Requests -> SUBSET Device]
    BY <1>2 DEF IncusReadsProfile, TypeOK
  <2> QED BY <1>2, <2>1, <2>2, RespondType DEF IncusReadsProfile, TypeOK, incusVars
<1>3. CASE IncusFailsRead(r)
  <2>1. \E s \in Nat, b \in Bodies : Respond(r, s, b)
    BY <1>1, <1>3 DEF IncusFailsRead, Bodies
  <2> QED BY <1>3, <2>1, RespondType DEF IncusFailsRead, TypeOK, incusVars
<1>4. CASE IncusRefuses(r)
  <2>1. \E s \in Nat, b \in Bodies : Respond(r, s, b)
    BY <1>1, <1>4 DEF IncusRefuses, Bodies
  <2>2. op' \in [Requests -> OpStates]
    BY <1>4 DEF IncusRefuses, TypeOK, OpStates
  <2> QED BY <1>4, <2>1, <2>2, RespondType DEF IncusRefuses, TypeOK
<1>5. CASE IncusAccepts(r)
  <2>1. \E s \in Nat, b \in Bodies : Respond(r, s, b)
    BY <1>5 DEF IncusAccepts, Bodies
  <2>2. op' \in [Requests -> OpStates]
    BY <1>5 DEF IncusAccepts, TypeOK, OpStates
  <2> QED BY <1>5, <2>1, <2>2, RespondType DEF IncusAccepts, TypeOK
<1>6. CASE IncusAppliesAtOnce(r)
  <2>1. Valid(input[r]) /\ "plain" \in Bodies
    BY <1>6 DEF IncusAppliesAtOnce, OnlyValidGoOn, Bodies
  <2> QED BY <1>6, <2>1, RespondType, ApplyType DEF IncusAppliesAtOnce, TypeOK
<1>7. CASE IncusReportsOperation(r)
  <2>1. \E s \in Nat, b \in Bodies : Respond(r, s, b)
    BY <1>7 DEF IncusReportsOperation, Garbling, Bodies
  <2> QED BY <1>7, <2>1, RespondType DEF IncusReportsOperation, TypeOK, incusVars
<1>8. CASE IncusLooksUp(r)
  <2>1. \E s \in Nat, b \in Bodies : Respond(r, s, b)
    BY <1>8 DEF IncusLooksUp, Bodies
  <2> QED BY <1>8, <2>1, RespondType DEF IncusLooksUp, TypeOK, incusVars
<1>9. CASE OperationSucceeds(r)
  <2>1. Valid(input[r])
    BY <1>9 DEF OperationSucceeds, OnlyValidGoOn
  <2> QED BY <1>9, <2>1, ApplyType DEF OperationSucceeds, TypeOK, agentVars
<1>10. CASE OperationFails(r)
  BY <1>10 DEF OperationFails, TypeOK, agentVars, OpStates
<1> QED BY <1>2, <1>3, <1>4, <1>5, <1>6, <1>7, <1>8, <1>9, <1>10 DEF IncusStep

----------------------------------------------------------------------------
(* The inductive invariant *)

LocalState(r) == <<stage[r], input[r], call[r], reply[r], devices[r],
                   rootDisk[r], opKind[r], response[r], op[r]>>

(* A request whose own state does not change keeps its invariant. *)
LEMMA Frame ==
    ASSUME NEW q, Local(q), UNCHANGED LocalState(q)
    PROVE  Local(q)'
<1>1. OnlyValidGoOn(q)'
  BY DEF Local, OnlyValidGoOn, LocalState
<1>2. WriteFollowsStage(q)'
  BY DEF Local, WriteFollowsStage, LocalState
<1>3. ReplyIsTrue(q)'
  BY DEF Local, ReplyIsTrue, LocalState
<1>4. AnswerIsTrue(q)'
  BY DEF Local, AnswerIsTrue, LocalState
<1>5. DiskIsSafe(q)'
  BY DEF Local, DiskIsSafe, LocalState
<1>6. SyncIsTrue(q)'
  BY DEF Local, SyncIsTrue, LocalState, Replied
<1> QED BY <1>1, <1>2, <1>3, <1>4, <1>5, <1>6 DEF Local

(* The goroutines share no variable: a step of one leaves the others alone.*)
LEMMA StepsAreLocal ==
    ASSUME TypeOK, NEW r \in Requests, NEW q \in Requests, q # r,
           Cancel(r) \/ CallFails(r) \/ Agent(r) \/ IncusStep(r)
    PROVE  UNCHANGED LocalState(q)
<1> USE DEF LocalState, TypeOK
<1>1. CASE Cancel(r)
  BY <1>1 DEF Cancel, incusVars
<1>2. CASE CallFails(r)
  BY <1>2 DEF CallFails, LoseReply, incusVars
<1>3. CASE Agent(r)
  <2> USE DEF Answer, Goto, incusVars
  <2>1. CASE Handle(r)
    BY <2>1 DEF Handle
  <2>2. CASE Call(r)
    BY <2>2 DEF Call
  <2>3. CASE OnProfile(r)
    BY <2>3 DEF OnProfile
  <2>4. CASE OnSubmit(r)
    BY <2>4 DEF OnSubmit, Refused, Settle, Succeed
  <2>5. CASE OnWait(r)
    BY <2>5 DEF OnWait, Refused, Settle, Succeed
  <2>6. CASE OnVerify(r)
    BY <2>6 DEF OnVerify, Refused, Settle, Succeed
  <2> QED BY <1>3, <2>1, <2>2, <2>3, <2>4, <2>5, <2>6 DEF Agent
<1>4. CASE IncusStep(r)
  <2> USE DEF Respond, incusVars
  <2>1. CASE IncusReadsProfile(r)
    BY <2>1 DEF IncusReadsProfile
  <2>2. CASE IncusFailsRead(r)
    BY <2>2 DEF IncusFailsRead
  <2>3. CASE IncusRefuses(r)
    BY <2>3 DEF IncusRefuses
  <2>4. CASE IncusAccepts(r)
    BY <2>4 DEF IncusAccepts
  <2>5. CASE IncusAppliesAtOnce(r)
    BY <2>5 DEF IncusAppliesAtOnce, Apply
  <2>6. CASE IncusReportsOperation(r)
    BY <2>6 DEF IncusReportsOperation
  <2>7. CASE IncusLooksUp(r)
    BY <2>7 DEF IncusLooksUp
  <2>8. CASE OperationSucceeds(r)
    BY <2>8 DEF OperationSucceeds, Apply, agentVars
  <2>9. CASE OperationFails(r)
    BY <2>9 DEF OperationFails, agentVars
  <2> QED BY <1>4, <2>1, <2>2, <2>3, <2>4, <2>5, <2>6, <2>7, <2>8, <2>9
          DEF IncusStep
<1> QED BY <1>1, <1>2, <1>3, <1>4

(* An answer given in the course of a request keeps its invariant if it is *)
(* true of the write at that moment.                                       *)
LEMMA AnswerLocal ==
    ASSUME TypeOK, NEW r \in Requests, Local(r), NEW code, Answer(r, code),
           UNCHANGED <<input, devices, op>>,
           rootDisk'[r] = rootDisk[r],
           code = "operation-completed" => op[r] = "success",
           code = "sync-ok" /\ ~GarbledReplies => op[r] = "success",
           code \in Refusals => op[r] \in {"unsent", "failure"}
    PROVE  Local(r)'
<1>1. /\ stage'[r] = "done" /\ call'[r] = "none" /\ response'[r] = code
      /\ op'[r] = op[r] /\ input'[r] = input[r] /\ devices'[r] = devices[r]
  BY DEF Answer, TypeOK
<1>2. OnlyValidGoOn(r)'
  BY <1>1 DEF Local, OnlyValidGoOn, CallStages
<1>3. WriteFollowsStage(r)' /\ ReplyIsTrue(r)' /\ AnswerIsTrue(r)' /\ SyncIsTrue(r)'
  BY <1>1 DEF WriteFollowsStage, ReplyIsTrue, AnswerIsTrue, SyncIsTrue, Replied
<1>4. DiskIsSafe(r)'
  BY <1>1 DEF Local, DiskIsSafe
<1> QED BY <1>2, <1>3, <1>4 DEF Local

(* So does going on to a stage the write is ready for. *)
LEMMA GotoLocal ==
    ASSUME TypeOK, NEW r \in Requests, Local(r), NEW s \in CallStages, Goto(r, s),
           stage[r] # "done", Valid(input[r]), UNCHANGED <<input, devices, op>>,
           s \in {"profile", "submit"} => op[r] = "unsent" /\ opKind'[r] = "sync",
           s = "wait" => op[r] \in Over \union {"running"},
           s = "verify" /\ (opKind'[r] = "async" \/ ~GarbledReplies)
               => op[r] = "success",
           input[r].action = "create" /\ s # "profile" =>
               RootDisks(devices[r]) = {rootDisk'[r]} /\ rootDisk'[r].pool
    PROVE  Local(r)'
<1>1. /\ stage'[r] = s /\ call'[r] = "none" /\ response'[r] = response[r]
      /\ op'[r] = op[r] /\ input'[r] = input[r] /\ devices'[r] = devices[r]
  BY DEF Goto, TypeOK
<1>2. OnlyValidGoOn(r)'
  BY <1>1 DEF OnlyValidGoOn
<1>3. WriteFollowsStage(r)'
  BY <1>1 DEF WriteFollowsStage, CallStages
<1>4. ReplyIsTrue(r)'
  BY <1>1 DEF ReplyIsTrue
<1>5. AnswerIsTrue(r)'
  BY <1>1 DEF Local, AnswerIsTrue
<1>6. DiskIsSafe(r)'
  BY <1>1 DEF DiskIsSafe
<1>7. SyncIsTrue(r)'
  BY <1>1 DEF Local, SyncIsTrue, Replied
<1> QED BY <1>2, <1>3, <1>4, <1>5, <1>6, <1>7 DEF Local

(* Whatever ends an accepted write, its answer is true. *)
LEMMA SettleLocal ==
    ASSUME TypeOK, NEW r \in Requests, Local(r), stage[r] \in {"submit", "wait"},
           op[r] # "unsent", NEW kind, Settle(r, kind),
           kind = "async" => op[r] = "success",
           opKind'[r] = "async" \/ ~GarbledReplies => op[r] = "success",
           UNCHANGED <<input, devices, op, rootDisk>>
    PROVE  Local(r)'
<1>1. CASE input[r].action = "create"
  <2>1. Goto(r, "verify")
    BY <1>1 DEF Settle
  <2> QED BY <1>1, <2>1, GotoLocal
          DEF CallStages, Local, OnlyValidGoOn, DiskIsSafe
<1>2. CASE input[r].action # "create"
  <2>1. Answer(r, IF kind = "async" THEN "operation-completed" ELSE "sync-ok")
    BY <1>2 DEF Settle, Succeed
  <2>2. "operation-completed" \notin Refusals /\ "sync-ok" \notin Refusals
    BY DEF Refusals
  <2> QED BY <2>1, <2>2, AnswerLocal
<1> QED BY <1>1, <1>2

(* An error reply is a refusal only if Incus refused the write itself. *)
LEMMA RefusedLocal ==
    ASSUME TypeOK, NEW r \in Requests, Local(r), Refused(r),
           reply[r].status = 404 => op[r] \in {"unsent", "failure"},
           UNCHANGED <<input, devices, op, rootDisk>>
    PROVE  Local(r)'
<1>1. Answer(r, MapIncusErrorCode(reply[r].status))
  BY DEF Refused
<1>2. MapIncusErrorCode(reply[r].status) \notin {"operation-completed", "sync-ok"}
  BY ErrorCodes DEF Successes
<1> QED BY <1>1, <1>2, ErrorCodes, AnswerLocal

LEMMA AgentLocal ==
    ASSUME TypeOK, NEW r \in Requests, Local(r), Agent(r)
    PROVE  Local(r)'
<1>1. CASE Handle(r)
  <2>1. op[r] = "unsent" /\ opKind[r] = "sync"
    BY <1>1 DEF Handle, Local, WriteFollowsStage
  <2>2. CASE \E code \in {"REQUEST_CANCELLED", "INVALID_REQUEST"} : Answer(r, code)
    BY <1>1, <2>1, <2>2, AnswerLocal DEF Handle, incusVars
  <2>3. CASE /\ Valid(input[r])
             /\ Goto(r, IF input[r].action = "create" THEN "profile" ELSE "submit")
    BY <1>1, <2>1, <2>3, GotoLocal DEF Handle, incusVars, CallStages
  <2> QED BY <1>1, <2>2, <2>3 DEF Handle
<1>2. CASE Call(r)
  <2>1. CASE Answer(r, "REQUEST_CANCELLED") /\ UNCHANGED op
    BY <1>2, <2>1, AnswerLocal DEF Call, Refusals
  <2>2. CASE /\ call' = [call EXCEPT ![r] = "sent"]
             /\ op' = [op EXCEPT ![r] = IF stage[r] = "submit" THEN "transit"
                                                               ELSE op[r]]
             /\ UNCHANGED <<stage, ctxDone, reply, response>>
    <3>1. /\ call'[r] = "sent" /\ stage'[r] = stage[r] /\ input'[r] = input[r]
          /\ opKind'[r] = opKind[r] /\ response'[r] = response[r]
          /\ devices'[r] = devices[r] /\ rootDisk'[r] = rootDisk[r]
          /\ stage[r] \in CallStages
          /\ op'[r] = IF stage[r] = "submit" THEN "transit" ELSE op[r]
      BY <1>2, <2>2 DEF Call, TypeOK
    <3>2. response[r] = "none"
      BY <3>1 DEF TypeOK, CallStages
    <3>3. OnlyValidGoOn(r)'
      BY <3>1 DEF Local, OnlyValidGoOn
    <3>4. WriteFollowsStage(r)' /\ ReplyIsTrue(r)'
      BY <3>1 DEF Local, WriteFollowsStage, ReplyIsTrue
    <3>5. AnswerIsTrue(r)' /\ SyncIsTrue(r)'
      BY <3>1, <3>2 DEF Local, AnswerIsTrue, SyncIsTrue, Replied, Refusals
    <3>6. DiskIsSafe(r)'
      BY <3>1 DEF Local, DiskIsSafe
    <3> QED BY <3>3, <3>4, <3>5, <3>6 DEF Local
  <2>3. CASE /\ call' = [call EXCEPT ![r] = "replied"]
             /\ stage[r] = "submit"
             /\ reply' = [reply EXCEPT ![r] = [status |-> 503, body |-> "lost"]]
             /\ UNCHANGED <<stage, ctxDone, op, response>>
    <3>1. /\ call'[r] = "replied" /\ reply'[r] = [status |-> 503, body |-> "lost"]
          /\ UNCHANGED <<stage, input, opKind, response, devices, rootDisk, op>>
      BY <1>2, <2>3 DEF Call, TypeOK
    <3>2. WriteFollowsStage(r)' /\ ReplyIsTrue(r)' /\ SyncIsTrue(r)'
      BY <2>3, <3>1 DEF Local, WriteFollowsStage, ReplyIsTrue, SyncIsTrue, Replied,
                        CallStages
    <3> QED BY <3>1, <3>2 DEF Local, OnlyValidGoOn, AnswerIsTrue, DiskIsSafe
  <2> QED BY <1>2, <2>1, <2>2, <2>3 DEF Call
<1>3. CASE OnProfile(r)
  <2>1. /\ op[r] = "unsent" /\ opKind[r] = "sync" /\ Valid(input[r])
        /\ UNCHANGED <<input, devices, opKind, op>>
    BY <1>3 DEF OnProfile, Replied, Local, WriteFollowsStage, OnlyValidGoOn,
                CallStages, incusVars
  <2>2. CASE \E code \in Refusals : Answer(r, code) /\ UNCHANGED rootDisk
    <3>1. PICK code \in Refusals : Answer(r, code) /\ UNCHANGED rootDisk
      BY <2>2
    <3>2. code # "operation-completed" /\ code # "sync-ok"
      BY DEF Refusals
    <3> QED BY <2>1, <3>1, <3>2, AnswerLocal
  <2>3. ASSUME NEW d \in RootDisks(devices[r]),
               rootDisk' = [rootDisk EXCEPT ![r] = d],
               RootDiskVerdict(devices[r]) = "ok", Goto(r, "submit")
        PROVE  Local(r)'
    <3>1. RootDisks(devices[r]) = {d} /\ d.pool /\ rootDisk'[r] = d
      BY <2>3, OkVerdict DEF TypeOK
    <3> QED BY <1>3, <2>1, <2>3, <3>1, GotoLocal DEF CallStages, OnProfile, Replied
  <2> QED BY <1>3, <2>2, <2>3, VerdictIsOkOrRefusal DEF OnProfile, Refusals
<1>4. CASE OnSubmit(r)
  <2>1. /\ UNCHANGED <<input, devices, op, rootDisk>>
        /\ Valid(input[r]) /\ stage[r] = "submit" /\ call[r] = "replied"
        /\ opKind[r] = "sync"
        /\ reply[r].body = "lost" => reply[r].status \in {500, 503}
        /\ reply[r].body \notin {"lost", "error"} => IsSuccess(reply[r].status)
        /\ reply[r].body # "lost" => op[r] \in Over \union {"running"}
        /\ reply[r].body = "error" => op[r] = "failure" /\ ~IsSuccess(reply[r].status)
        /\ ~GarbledReplies /\ reply[r].body \notin {"lost", "error", "operation"}
              => op[r] = "success"
    BY <1>4 DEF OnSubmit, Replied, Local, WriteFollowsStage, ReplyIsTrue,
                SyncIsTrue, OnlyValidGoOn, CallStages, incusVars
  <2>2. CASE Refused(r)
    BY <2>1, <2>2, RefusedLocal DEF Refused, IsSuccess
  <2>3. CASE IsSuccess(reply[r].status) /\ Goto(r, "wait")
    <3>1. reply[r].body # "lost"
      BY <2>1, <2>3 DEF IsSuccess
    <3> QED BY <2>1, <2>3, <3>1, GotoLocal
            DEF CallStages, Local, DiskIsSafe
  <2>4. CASE Answer(r, "INCUS_OPERATION_MALFORMED")
    BY <2>1, <2>4, AnswerLocal DEF Refusals
  <2>5. CASE /\ IsSuccess(reply[r].status) /\ reply[r].body # "operation"
             /\ Settle(r, "sync") /\ UNCHANGED opKind
    <3>1. op[r] \in Over \union {"running"} /\ (~GarbledReplies => op[r] = "success")
      BY <2>1, <2>5 DEF IsSuccess
    <3> QED BY <2>1, <2>5, <3>1, SettleLocal DEF Over
  <2> QED BY <1>4, <2>2, <2>3, <2>4, <2>5 DEF OnSubmit
<1>5. CASE OnWait(r)
  <2>1. /\ UNCHANGED <<input, devices, op, rootDisk>>
        /\ stage[r] = "wait" /\ op[r] \in Over \union {"running"}
        /\ reply[r].body \in Over => op[r] = reply[r].body
    BY <1>5 DEF OnWait, Replied, Local, ReplyIsTrue, WriteFollowsStage, incusVars
  <2>2. CASE reply[r].status # 404 /\ Refused(r)
    BY <2>1, <2>2, RefusedLocal
  <2>3. CASE \E code \in {"INCUS_OPERATION_MISSING", "INCUS_OPERATION_MALFORMED"} :
                Answer(r, code)
    BY <2>1, <2>3, AnswerLocal DEF Refusals
  <2>4. CASE reply[r].body = "success" /\ Settle(r, "async")
    BY <2>1, <2>4, SettleLocal DEF Over
  <2>5. CASE reply[r].body = "failure" /\ Answer(r, "INCUS_OPERATION_FAILED")
    BY <2>1, <2>5, AnswerLocal DEF Over
  <2> QED BY <1>5, <2>2, <2>3, <2>4, <2>5 DEF OnWait
<1>6. CASE OnVerify(r)
  <2>1. /\ UNCHANGED <<input, devices, op, rootDisk>>
        /\ opKind[r] = "async" \/ ~GarbledReplies => op[r] = "success"
    BY <1>6 DEF OnVerify, Replied, Local, WriteFollowsStage, SyncIsTrue, incusVars
  <2>2. CASE reply[r].status # 404 /\ Refused(r)
    BY <2>1, <2>2, RefusedLocal
  <2>3. CASE \E code \in {"INCUS_INSTANCE_MISSING", "sync-ok"} : Answer(r, code)
    BY <2>1, <2>3, AnswerLocal DEF Refusals
  <2>4. CASE opKind[r] = "async" /\ Answer(r, "operation-completed")
    BY <2>1, <2>4, AnswerLocal DEF Refusals
  <2> QED BY <1>6, <2>2, <2>3, <2>4 DEF OnVerify, Succeed
<1> QED BY <1>1, <1>2, <1>3, <1>4, <1>5, <1>6 DEF Agent

LEMMA LoseReplyLocal ==
    ASSUME TypeOK, NEW r \in Requests, Local(r), CallFails(r)
    PROVE  Local(r)'
<1>1. /\ call[r] # "none" /\ call'[r] = "replied" /\ reply'[r].body = "lost"
      /\ reply'[r].status \in {500, 503}
      /\ UNCHANGED <<stage, input, devices, rootDisk, opKind, response, op>>
  BY DEF CallFails, LoseReply, TypeOK, incusVars
<1>2. WriteFollowsStage(r)'
  BY <1>1 DEF Local, WriteFollowsStage
<1>3. ReplyIsTrue(r)' /\ SyncIsTrue(r)'
  BY <1>1 DEF Local, ReplyIsTrue, SyncIsTrue, Replied, IsSuccess, Over
<1> QED BY <1>1, <1>2, <1>3 DEF Local, OnlyValidGoOn, AnswerIsTrue, DiskIsSafe

(* A step of Incus: its reply is true, and what an answer says of a write  *)
(* that is over stays true.                                                *)
LEMMA IncusLocal ==
    ASSUME TypeOK, NEW r \in Requests, Local(r), IncusStep(r)
    PROVE  Local(r)'
<1>1. /\ UNCHANGED <<stage, input, rootDisk, opKind, response>>
      /\ devices'[r] = devices[r] \/ (stage[r] = "profile" /\ op'[r] = op[r])
  BY DEF IncusStep, IncusReadsProfile, IncusFailsRead, IncusRefuses, IncusAccepts,
         IncusAppliesAtOnce, IncusReportsOperation, IncusLooksUp,
         OperationSucceeds, OperationFails, Respond, agentVars, incusVars, Waiting
<1>2. \/ op'[r] = op[r]
      \/ op[r] \in {"transit", "running"} /\ op'[r] \in Over \union {"running"}
  BY DEF IncusStep, IncusReadsProfile, IncusFailsRead, IncusRefuses, IncusAccepts,
         IncusAppliesAtOnce, IncusReportsOperation, IncusLooksUp,
         OperationSucceeds, OperationFails, Apply, incusVars, TypeOK, Over
<1>3. call'[r] = "none" <=> call[r] = "none"
  BY DEF IncusStep, IncusReadsProfile, IncusFailsRead, IncusRefuses, IncusAccepts,
         IncusAppliesAtOnce, IncusReportsOperation, IncusLooksUp,
         OperationSucceeds, OperationFails, Respond, agentVars, TypeOK
<1>4. OnlyValidGoOn(r)'
  BY <1>1, <1>2 DEF Local, OnlyValidGoOn
<1>5. WriteFollowsStage(r)'
  BY <1>1, <1>2, <1>3 DEF Local, WriteFollowsStage, Over
<1>6. AnswerIsTrue(r)'
  BY <1>1, <1>2 DEF Local, AnswerIsTrue, Over
<1>7. DiskIsSafe(r)'
  BY <1>1, <1>2 DEF Local, DiskIsSafe, WriteFollowsStage
<1>8. ReplyIsTrue(r)' /\ SyncIsTrue(r)'
  <2>1. CASE call[r] = "sent" /\ call'[r] = "replied"
    <3> \A e \in ErrorStatuses : ~IsSuccess(e)
      BY StatusesAssumption DEF IsSuccess
    <3> USE <2>1 DEF Local, ReplyIsTrue, SyncIsTrue, Replied, Respond, TypeOK, IsSuccess, Over, Garbling, incusVars
    <3>1. CASE IncusReadsProfile(r)
      BY <3>1 DEF IncusReadsProfile, Waiting
    <3>2. CASE IncusFailsRead(r)
      BY <3>2 DEF IncusFailsRead, Waiting
    <3>3. CASE IncusRefuses(r)
      BY <1>1, <3>3 DEF IncusRefuses, Local, WriteFollowsStage
    <3>4. CASE IncusAccepts(r)
      BY <1>1, <3>4 DEF IncusAccepts, Local, WriteFollowsStage
    <3>5. CASE IncusAppliesAtOnce(r)
      BY <1>1, <3>5 DEF IncusAppliesAtOnce, Apply, Local, WriteFollowsStage
    <3>6. CASE IncusReportsOperation(r)
      BY <3>6 DEF IncusReportsOperation, Waiting
    <3>7. CASE IncusLooksUp(r)
      BY <3>7 DEF IncusLooksUp, Waiting
    <3>8. CASE OperationSucceeds(r) \/ OperationFails(r)
      BY <3>8 DEF OperationSucceeds, OperationFails, agentVars
    <3> QED BY <3>1, <3>2, <3>3, <3>4, <3>5, <3>6, <3>7, <3>8 DEF IncusStep
  <2>2. CASE call[r] # "sent"
    <3>1. UNCHANGED <<call, reply, stage>>
      BY <2>2 DEF IncusStep, IncusReadsProfile, IncusFailsRead, IncusRefuses,
         IncusAccepts, IncusAppliesAtOnce, IncusReportsOperation, IncusLooksUp,
         OperationSucceeds, OperationFails, Respond, agentVars, Waiting
    <3> QED BY <1>1, <1>2, <3>1
            DEF Local, ReplyIsTrue, SyncIsTrue, Replied, WriteFollowsStage, Over
  <2>3. CASE call'[r] # "replied"
    BY <1>1, <1>2, <2>3 DEF Local, ReplyIsTrue, SyncIsTrue, Replied, Over
  <2> QED BY <2>1, <2>2, <2>3
<1> QED BY <1>4, <1>5, <1>6, <1>7, <1>8 DEF Local

----------------------------------------------------------------------------
(* The theorems *)

LEMMA InitIInv == Init => IInv
<1> SUFFICES ASSUME Init, NEW r \in Requests PROVE Local(r)
  BY InitTypeOK DEF IInv
<1>1. /\ stage[r] = "received" /\ call[r] = "none" /\ op[r] = "unsent"
      /\ response[r] = "none" /\ opKind[r] = "sync"
  BY DEF Init
<1> QED BY <1>1 DEF Local, OnlyValidGoOn, WriteFollowsStage, ReplyIsTrue,
           AnswerIsTrue, SyncIsTrue, Replied, DiskIsSafe, CallStages, Refusals

LEMMA StepIInv ==
    ASSUME IInv, [Next]_vars
    PROVE  IInv'
<1>1. CASE \E r \in Requests : Cancel(r) \/ CallFails(r) \/ Agent(r) \/ IncusStep(r)
  <2>1. PICK r \in Requests : Cancel(r) \/ CallFails(r) \/ Agent(r) \/ IncusStep(r)
    BY <1>1
  <2>2. TypeOK'
    BY <2>1, AgentTypeOK, IncusTypeOK DEF IInv, Local
  <2>3. Local(r)'
    <3>1. CASE Cancel(r)
      BY <3>1, Frame DEF Cancel, IInv, LocalState, incusVars
    <3> QED BY <2>1, <3>1, LoseReplyLocal, AgentLocal, IncusLocal DEF IInv
  <2>4. ASSUME NEW q \in Requests, q # r PROVE Local(q)'
    BY <2>1, <2>4, StepsAreLocal, Frame DEF IInv
  <2> QED BY <2>2, <2>3, <2>4 DEF IInv
<1>2. CASE ProfileChanges
  <2>1. TypeOK'
    BY <1>2, ProfilesAssumption DEF ProfileChanges, IInv, TypeOK, agentVars
  <2>2. \A r \in Requests : UNCHANGED LocalState(r)
    BY <1>2 DEF ProfileChanges, LocalState, agentVars
  <2> QED BY <2>1, <2>2, Frame DEF IInv
<1>3. CASE \E n \in Names : OtherClientActs(n)
  <2>1. TypeOK'
    BY <1>3 DEF OtherClientActs, IInv, TypeOK, agentVars
  <2>2. \A r \in Requests : UNCHANGED LocalState(r)
    BY <1>3 DEF OtherClientActs, LocalState, agentVars
  <2> QED BY <2>1, <2>2, Frame DEF IInv
<1>4. CASE UNCHANGED vars
  <2>1. TypeOK'
    BY <1>4 DEF IInv, TypeOK, vars, agentVars, incusVars
  <2>2. \A r \in Requests : UNCHANGED LocalState(r)
    BY <1>4 DEF LocalState, vars, agentVars, incusVars
  <2> QED BY <2>1, <2>2, Frame DEF IInv
<1> QED BY <1>1, <1>2, <1>3, <1>4 DEF Next, Finished

(* IInv holds in every reachable state, for all values of the constants.   *)
THEOREM Invariance == Spec => []IInv
BY InitIInv, StepIInv, PTL DEF Spec

(* The handlers stay within their types and only ever answer with one of   *)
(* the agent's own codes.                                                  *)
THEOREM TypeCorrect == Spec => []TypeOK
<1>1. IInv => TypeOK
  BY DEF IInv
<1> QED BY <1>1, Invariance, PTL

(* "operation-completed" is only said of a write that succeeded.           *)
THEOREM CompletedIsSucceeded == Spec => []CompletedMeansSucceeded
<1>1. IInv => CompletedMeansSucceeded
  BY DEF IInv, Local, AnswerIsTrue, CompletedMeansSucceeded
<1> QED BY <1>1, Invariance, PTL

(* A refused write has no effect, now or later.                            *)
THEOREM RefusedIsFinal == Spec => []RefusalIsFinal
<1>1. IInv => RefusalIsFinal
  BY DEF IInv, Local, AnswerIsTrue, RefusalIsFinal
<1> QED BY <1>1, Invariance, PTL

(* A create only ever carries the sole root disk of the profile it read.   *)
THEOREM RootDiskIsSafe == Spec => []SafeRootDisk
<1>1. IInv => SafeRootDisk
  BY DEF IInv, Local, DiskIsSafe, SafeRootDisk
<1> QED BY <1>1, Invariance, PTL

----------------------------------------------------------------------------
(* What the answers of the lifecycle service tell of the instances, while  *)
(* nobody else drives the same Incus.                                      *)
(*                                                                         *)
(* An answer is given long after the write it is about, and in between     *)
(* other requests write to the same name.  What stays is the balance of    *)
(* the writes that succeeded: an instance is there iff it was created,     *)
(* counting what was there at the start, once more than it was deleted.    *)

Applied(a, n) ==
    {r \in Requests : input[r].action = a /\ Name(r) = n /\ op[r] = "success"}
Present(n) == instance[n] # "absent"
Deleted(n) == Applied("delete", n) # {}

Balance(n) ==
    /\ IsFiniteSet(Applied("create", n)) /\ IsFiniteSet(Applied("delete", n))
    /\ Cardinality(Applied("create", n)) + (IF initial[n] = "absent" THEN 0 ELSE 1)
         = Cardinality(Applied("delete", n)) + (IF instance[n] = "absent" THEN 0 ELSE 1)

(* Only a create that Incus has taken on is looked up. *)
VerifiesCreates(r) ==
    stage[r] = "verify" => input[r].action = "create" /\ op[r] \in Over \union {"running"}

(* The instance was found after the create, or was not. *)
Found(r) ==
    /\ input[r].action = "create"
    /\ \/ response[r] \in Successes
       \/ Replied(r, "verify") /\ IsSuccess(reply[r].status)
Missed(r) ==
    \/ response[r] = "INCUS_INSTANCE_MISSING"
    \/ Replied(r, "verify") /\ reply[r].status = 404

LookupIsTrue(r) ==
    /\ Found(r) \/ Missed(r) => Name(r) \in Names
    /\ Found(r) => Present(Name(r)) \/ Deleted(Name(r))
    /\ Missed(r) /\ KnownOver(r) => Deleted(Name(r))

PresenceInv ==
    /\ IInv
    /\ \A n \in Names : Balance(n)
    /\ \A r \in Requests : VerifiesCreates(r) /\ LookupIsTrue(r)

----------------------------------------------------------------------------
(* What a step does to the instances *)

(* No write succeeds and no instance changes. *)
Quiet ==
    /\ UNCHANGED <<input, initial, instance>>
    /\ \A q \in Requests : op'[q] = "success" <=> op[q] = "success"

Applies(r) ==
    /\ Apply(r) /\ op[r] # "success" /\ Valid(input[r])
    /\ UNCHANGED input

(* Without other clients an instance changes only because a write of the   *)
(* agent is applied.                                                       *)
LEMMA QuietOrApplied ==
    ASSUME IInv, [Next]_vars, ~OtherClients
    PROVE  Quiet \/ \E r \in Requests : Applies(r)
<1> USE DEF IInv, TypeOK
<1>1. ASSUME NEW r \in Requests, Cancel(r) \/ CallFails(r) \/ Agent(r)
      PROVE  Quiet
  <2>1. UNCHANGED <<input, initial, instance>>
    BY <1>1 DEF Cancel, CallFails, LoseReply, Agent, Handle, Call, OnProfile, OnSubmit,
                OnWait, OnVerify, incusVars
  <2>2. op'[r] = "success" <=> op[r] = "success"
    <3>1. CASE Cancel(r) \/ CallFails(r)
      BY <3>1 DEF Cancel, CallFails, LoseReply, incusVars
    <3>2. CASE Call(r)
      <4>1. stage[r] = "submit" /\ call[r] = "none" => op[r] = "unsent"
        BY DEF Local, WriteFollowsStage
      <4> QED BY <3>2, <4>1 DEF Call
    <3>3. CASE Handle(r) \/ OnProfile(r) \/ OnSubmit(r) \/ OnWait(r) \/ OnVerify(r)
      BY <3>3 DEF Handle, OnProfile, OnSubmit, OnWait, OnVerify, incusVars
    <3> QED BY <1>1, <3>1, <3>2, <3>3 DEF Agent
  <2>3. ASSUME NEW q \in Requests, q # r PROVE op'[q] = op[q]
    BY <1>1, <2>3, StepsAreLocal DEF LocalState
  <2> QED BY <2>1, <2>2, <2>3 DEF Quiet
<1>2. ASSUME NEW r \in Requests, IncusStep(r)
      PROVE  Quiet \/ Applies(r)
  <2>1. ASSUME NEW q \in Requests, q # r PROVE op'[q] = op[q]
    BY <1>2, <2>1, StepsAreLocal DEF LocalState
  <2>2. CASE IncusAppliesAtOnce(r) \/ OperationSucceeds(r)
    <3>1. Apply(r) /\ UNCHANGED input /\ op[r] \in {"transit", "running"}
      BY <2>2 DEF IncusAppliesAtOnce, OperationSucceeds, Respond, agentVars
    <3>2. Valid(input[r])
      BY <3>1 DEF Local, OnlyValidGoOn
    <3> QED BY <3>1, <3>2 DEF Applies
  <2>3. CASE ~(IncusAppliesAtOnce(r) \/ OperationSucceeds(r))
    <3>1. UNCHANGED <<input, initial, instance>>
      BY <1>2, <2>3 DEF IncusStep, IncusReadsProfile, IncusFailsRead, IncusRefuses,
         IncusAccepts, IncusReportsOperation, IncusLooksUp, OperationFails, Respond,
         agentVars, incusVars
    <3>2. op'[r] = "success" <=> op[r] = "success"
      BY <1>2, <2>3 DEF IncusStep, IncusReadsProfile, IncusFailsRead, IncusRefuses,
         IncusAccepts, IncusReportsOperation, IncusLooksUp, OperationFails, incusVars
    <3> QED BY <2>1, <3>1, <3>2 DEF Quiet
  <2> QED BY <2>2, <2>3
<1>3. CASE ProfileChanges \/ UNCHANGED vars
  BY <1>3 DEF ProfileChanges, Quiet, vars, agentVars, incusVars
<1>4. CASE \E n \in Names : OtherClientActs(n)
  BY <1>4 DEF OtherClientActs
<1> QED BY <1>1, <1>2, <1>3, <1>4 DEF Next, Finished

(* What an applied write does to the set of those that succeeded.          *)
LEMMA AppliedGrows ==
    ASSUME IInv, NEW r \in Requests, Applies(r), NEW a, NEW n
    PROVE  Applied(a, n)' =
               IF input[r].action = a /\ Name(r) = n THEN Applied(a, n) \union {r}
               ELSE Applied(a, n)
<1>1. op' = [op EXCEPT ![r] = "success"] /\ input' = input
  BY DEF Applies, Apply
<1>2. \A q \in Requests : op'[q] = "success" <=> op[q] = "success" \/ q = r
  BY <1>1 DEF IInv, TypeOK
<1> QED BY <1>1, <1>2 DEF Applied, Name

LEMMA QuietKeepsApplied ==
    ASSUME Quiet, NEW a, NEW n
    PROVE  Applied(a, n)' = Applied(a, n)
BY DEF Quiet, Applied, Name

(* A create makes an instance of nothing, a delete the reverse, and no     *)
(* other write does either.                                                *)
LEMMA PresenceAfter ==
    ASSUME IInv, NEW r \in Requests, Applies(r), NEW n \in Names
    PROVE  /\ initial' = initial
           /\ Name(r) # n \/ input[r].action \notin {"create", "delete"} => Present(n)' = Present(n)
           /\ Name(r) = n /\ input[r].action = "create" => ~Present(n) /\ Present(n)'
           /\ Name(r) = n /\ input[r].action = "delete" => Present(n) /\ ~Present(n)'
<1>1. /\ instance[Name(r)] = Before[input[r].action]
      /\ instance' = [instance EXCEPT ![Name(r)] = After[input[r].action]]
      /\ initial' = initial
  BY DEF Applies, Apply, Name
<1>2. input[r].action \in Actions /\ Name(r) \in Names
  BY DEF Applies, Valid, Name
<1>3. instance'[n] = IF Name(r) = n THEN After[input[r].action] ELSE instance[n]
  BY <1>1 DEF IInv, TypeOK
<1> QED BY <1>1, <1>2, <1>3 DEF Present, Before, After, Actions

(* What happened to an instance is not undone: once it is there or was     *)
(* deleted, that remains so.                                               *)
LEMMA AccountedStays ==
    ASSUME IInv, [Next]_vars, ~OtherClients, NEW n \in Names
    PROVE  /\ Deleted(n) => Deleted(n)'
           /\ Present(n) \/ Deleted(n) => Present(n)' \/ Deleted(n)'
<1>1. CASE Quiet
  BY <1>1, QuietKeepsApplied DEF Deleted, Present, Quiet
<1>2. CASE \E r \in Requests : Applies(r)
  <2>1. PICK r \in Requests : Applies(r)
    BY <1>2
  <2>2. Applied("delete", n) \subseteq Applied("delete", n)'
    BY <2>1, AppliedGrows
  <2>3. Present(n) /\ ~Present(n)' => r \in Applied("delete", n)'
    BY <2>1, AppliedGrows, PresenceAfter
  <2> QED BY <2>2, <2>3 DEF Deleted
<1> QED BY <1>1, <1>2, QuietOrApplied

----------------------------------------------------------------------------
(* The balance of the writes *)

LEMMA InitBalance ==
    ASSUME Init, NEW n \in Names
    PROVE  Balance(n)
<1>1. Applied("create", n) = {} /\ Applied("delete", n) = {}
  BY DEF Init, Applied
<1>2. IsFiniteSet({}) /\ Cardinality({}) = 0
  BY FS_EmptySet
<1> QED BY <1>1, <1>2 DEF Init, Balance

LEMMA BalanceStep ==
    ASSUME IInv, [Next]_vars, ~OtherClients, NEW n \in Names, Balance(n)
    PROVE  Balance(n)'
<1>1. CASE Quiet
  BY <1>1, QuietKeepsApplied DEF Balance, Quiet
<1>2. ASSUME NEW r \in Requests, Applies(r) PROVE Balance(n)'
  <2> DEFINE C == Applied("create", n)
             D == Applied("delete", n)
  <2>1. r \notin C /\ r \notin D
    BY <1>2 DEF Applies, Applied
  <2>2. IsFiniteSet(C) /\ IsFiniteSet(D)
    BY DEF Balance
  <2>3. Cardinality(C) \in Nat /\ Cardinality(D) \in Nat
    BY <2>2, FS_CardinalityType
  <2>4. /\ IsFiniteSet(C \union {r}) /\ Cardinality(C \union {r}) = Cardinality(C) + 1
        /\ IsFiniteSet(D \union {r}) /\ Cardinality(D \union {r}) = Cardinality(D) + 1
    BY <2>1, <2>2, FS_AddElement
  <2>5. /\ C' = IF input[r].action = "create" /\ Name(r) = n THEN C \union {r} ELSE C
        /\ D' = IF input[r].action = "delete" /\ Name(r) = n THEN D \union {r} ELSE D
    BY <1>2, AppliedGrows
  <2>6. Cardinality(C) + (IF initial[n] = "absent" THEN 0 ELSE 1)
          = Cardinality(D) + (IF Present(n) THEN 1 ELSE 0)
    BY DEF Balance, Present
  <2> HIDE DEF C, D
  <2>7. /\ IsFiniteSet(C') /\ IsFiniteSet(D')
        /\ Cardinality(C') + (IF initial[n] = "absent" THEN 0 ELSE 1)'
             = Cardinality(D') + (IF Present(n)' THEN 1 ELSE 0)
    <3>1. CASE Name(r) = n /\ input[r].action = "create"
      BY <1>2, <2>2, <2>3, <2>4, <2>5, <2>6, <3>1, PresenceAfter
    <3>2. CASE Name(r) = n /\ input[r].action = "delete"
      BY <1>2, <2>2, <2>3, <2>4, <2>5, <2>6, <3>2, PresenceAfter
    <3>3. CASE Name(r) # n \/ input[r].action \notin {"create", "delete"}
      BY <1>2, <2>2, <2>3, <2>5, <2>6, <3>3, PresenceAfter
    <3> QED BY <3>1, <3>2, <3>3
  <2> QED BY <2>7 DEF C, D, Balance, Present
<1> QED BY <1>1, <1>2, QuietOrApplied

(* An instance that was created is there, or was deleted. *)
LEMMA CreatedIsAccounted ==
    ASSUME NEW n, Balance(n), Applied("create", n) # {}
    PROVE  Present(n) \/ Deleted(n)
<1>1. Cardinality(Applied("create", n)) \in Nat \ {0}
  BY FS_CardinalityType, FS_EmptySet DEF Balance
<1>2. Cardinality({}) = 0
  BY FS_EmptySet
<1> SUFFICES ASSUME ~Present(n), Applied("delete", n) = {} PROVE FALSE
  BY DEF Deleted
<1> QED BY <1>1, <1>2 DEF Balance, Present

----------------------------------------------------------------------------
(* The lookup after a create *)

LEMMA VerifiesCreatesStep ==
    ASSUME IInv, [Next]_vars, NEW r \in Requests, VerifiesCreates(r)
    PROVE  VerifiesCreates(r)'
<1> USE DEF IInv, TypeOK
<1>1. ASSUME UNCHANGED LocalState(r) PROVE VerifiesCreates(r)'
  BY <1>1 DEF LocalState, VerifiesCreates
<1>2. CASE Agent(r)
  <2>1. /\ input' = input
        /\ stage'[r] = "verify" => op'[r] = op[r]
    BY <1>2 DEF Agent, Handle, Call, OnProfile, OnSubmit, OnWait, OnVerify, incusVars
  <2>2. SUFFICES ASSUME stage'[r] = "verify", stage[r] # "verify"
                 PROVE  input[r].action = "create" /\ op[r] \in Over \union {"running"}
    BY <2>1 DEF VerifiesCreates
  <2>3. \/ Replied(r, "submit") /\ IsSuccess(reply[r].status) /\ Settle(r, "sync")
        \/ Replied(r, "wait") /\ Settle(r, "async")
    BY <1>2, <2>2 DEF Agent, Handle, Call, OnProfile, OnSubmit, OnWait, OnVerify, Answer,
                      Goto, Refused, Succeed, Replied
  <2>4. input[r].action = "create"
    BY <2>2, <2>3 DEF Settle, Succeed, Answer
  <2> QED BY <2>3, <2>4 DEF Local, WriteFollowsStage, ReplyIsTrue, Replied, IsSuccess
<1>3. CASE IncusStep(r)
  <2>1. UNCHANGED <<stage, input>>
    BY <1>3 DEF IncusStep, IncusReadsProfile, IncusFailsRead, IncusRefuses, IncusAccepts,
         IncusAppliesAtOnce, IncusReportsOperation, IncusLooksUp, OperationSucceeds,
         OperationFails, Respond, agentVars
  <2>2. op'[r] = op[r] \/ op'[r] \in Over \union {"running"}
    BY <1>3 DEF IncusStep, IncusReadsProfile, IncusFailsRead, IncusRefuses, IncusAccepts,
         IncusAppliesAtOnce, IncusReportsOperation, IncusLooksUp, OperationSucceeds,
         OperationFails, Apply, incusVars, Over
  <2> QED BY <2>1, <2>2 DEF VerifiesCreates
<1>4. CASE Cancel(r) \/ CallFails(r)
  BY <1>4 DEF Cancel, CallFails, LoseReply, incusVars, VerifiesCreates
<1>5. ASSUME NEW q \in Requests, q # r, Cancel(q) \/ CallFails(q) \/ Agent(q) \/ IncusStep(q)
      PROVE  VerifiesCreates(r)'
  BY <1>1, <1>5, StepsAreLocal
<1>6. CASE ProfileChanges \/ (\E n \in Names : OtherClientActs(n)) \/ UNCHANGED vars
  BY <1>1, <1>6 DEF ProfileChanges, OtherClientActs, LocalState, vars, agentVars, incusVars
<1> QED BY <1>2, <1>3, <1>4, <1>5, <1>6 DEF Next, Finished

(* A request finds its instance only in a moment in which it is there, and *)
(* misses it only in one in which it is not.                               *)
LEMMA LookupSees ==
    ASSUME IInv, [Next]_vars, NEW r \in Requests, VerifiesCreates(r)
    PROVE  /\ Name(r)' = Name(r)
           /\ Found(r)' => Found(r) \/ (stage[r] = "verify" /\ Present(Name(r)))
           /\ Missed(r)' => Missed(r) \/ (stage[r] = "verify" /\ ~Present(Name(r)))
           /\ Missed(r)' => opKind'[r] = opKind[r]
<1> DEFINE Goal == /\ Name(r)' = Name(r)
                   /\ Found(r)' => Found(r) \/ (stage[r] = "verify" /\ Present(Name(r)))
                   /\ Missed(r)' => Missed(r) \/ (stage[r] = "verify" /\ ~Present(Name(r)))
                   /\ Missed(r)' => opKind'[r] = opKind[r]
<1> USE DEF IInv, TypeOK
<1>1. ASSUME UNCHANGED LocalState(r) PROVE Goal
  BY <1>1 DEF LocalState, Found, Missed, Replied, Name
<1>2. CASE Cancel(r) \/ CallFails(r)
  BY <1>2 DEF Cancel, CallFails, LoseReply, incusVars, Found, Missed, Replied, IsSuccess, Name
<1>3. CASE Agent(r)
  <2>1. UNCHANGED <<input, instance>>
    BY <1>3 DEF Agent, Handle, Call, OnProfile, OnSubmit, OnWait, OnVerify, incusVars
  <2>2. ~Replied(r, "verify")'
    BY <1>3 DEF Agent, Handle, Call, OnProfile, OnSubmit, OnWait, OnVerify, Replied,
                Answer, Goto, Refused, Settle, Succeed
  <2>3. ASSUME response'[r] \in Successes, input[r].action = "create"
        PROVE  Found(r)
    <3>1. CASE response'[r] = response[r]
      BY <2>3, <3>1 DEF Found
    <3>2. CASE response'[r] # response[r]
      <4>1. OnVerify(r) /\ IsSuccess(reply[r].status)
        BY <1>3, <2>3, <3>2, ErrorCodes, VerdictIsOkOrRefusal
           DEF Agent, Handle, Call, OnProfile, OnSubmit, OnWait, OnVerify, Answer, Goto,
               Refused, Settle, Succeed, Successes, Refusals
      <4> QED BY <2>3, <4>1 DEF OnVerify, Found
    <3> QED BY <3>1, <3>2
  <2>4. ASSUME response'[r] = "INCUS_INSTANCE_MISSING" PROVE Missed(r)
    <3>1. CASE response'[r] = response[r]
      BY <2>4, <3>1 DEF Missed
    <3>2. CASE response'[r] # response[r]
      <4>1. \A status : MapIncusErrorCode(status) # "INCUS_INSTANCE_MISSING"
        BY DEF MapIncusErrorCode
      <4>2. OnVerify(r) /\ reply[r].status = 404
        BY <1>3, <2>4, <3>2, <4>1, VerdictIsOkOrRefusal
           DEF Agent, Handle, Call, OnProfile, OnSubmit, OnWait, OnVerify, Answer, Goto,
               Refused, Settle, Succeed, Refusals
      <4> QED BY <4>2 DEF OnVerify, Missed
    <3> QED BY <3>1, <3>2
  <2>5. CASE OnSubmit(r)
    <3>1. response'[r] # "INCUS_INSTANCE_MISSING" \/ opKind' = opKind
      BY <2>5 DEF OnSubmit, Replied, Answer, Goto, Refused, Settle, Succeed
    <3> QED BY <2>1, <2>2, <2>3, <2>4, <3>1 DEF Found, Missed, Name
  <2>6. CASE ~OnSubmit(r)
    <3>1. UNCHANGED opKind
      BY <1>3, <2>6 DEF Agent, Handle, Call, OnProfile, OnWait, OnVerify
    <3> QED BY <2>1, <2>2, <2>3, <2>4, <3>1 DEF Found, Missed, Name
  <2> QED BY <2>5, <2>6
<1>4. CASE IncusStep(r)
  <2>1. UNCHANGED <<stage, input, response, opKind>>
    BY <1>4 DEF IncusStep, IncusReadsProfile, IncusFailsRead, IncusRefuses, IncusAccepts,
         IncusAppliesAtOnce, IncusReportsOperation, IncusLooksUp, OperationSucceeds,
         OperationFails, Respond, agentVars
  <2>2. CASE UNCHANGED <<call, reply>>
    BY <2>1, <2>2 DEF Found, Missed, Replied, Name
  <2>3. CASE stage[r] # "verify"
    BY <2>1, <2>3 DEF Found, Missed, Replied, Name
  <2>4. CASE stage[r] = "verify" /\ ~UNCHANGED <<call, reply>>
    <3>1. IncusFailsRead(r) \/ IncusLooksUp(r)
      BY <1>4, <2>4 DEF IncusStep, IncusReadsProfile, IncusRefuses, IncusAccepts,
         IncusAppliesAtOnce, IncusReportsOperation, OperationSucceeds, OperationFails,
         Waiting, agentVars, VerifiesCreates, Over
    <3>2. \A e \in ErrorStatuses : ~IsSuccess(e)
      BY StatusesAssumption DEF IsSuccess
    <3>3. CASE IncusFailsRead(r)
      BY <2>1, <2>4, <3>2, <3>3
         DEF IncusFailsRead, Respond, Found, Missed, Replied, Name, Present
    <3>4. CASE IncusLooksUp(r)
      BY <2>1, <2>4, <3>4
         DEF IncusLooksUp, Respond, Found, Missed, Replied, Name, Present, IsSuccess
    <3> QED BY <3>1, <3>3, <3>4
  <2> QED BY <2>2, <2>3, <2>4
<1>5. ASSUME NEW q \in Requests, q # r, Cancel(q) \/ CallFails(q) \/ Agent(q) \/ IncusStep(q)
      PROVE  Goal
  BY <1>1, <1>5, StepsAreLocal
<1>6. CASE ProfileChanges \/ (\E n \in Names : OtherClientActs(n)) \/ UNCHANGED vars
  BY <1>1, <1>6 DEF ProfileChanges, OtherClientActs, LocalState, vars, agentVars, incusVars
<1> QED BY <1>2, <1>3, <1>4, <1>5, <1>6 DEF Next, Finished

LEMMA LookupStep ==
    ASSUME PresenceInv, [Next]_vars, ~OtherClients, NEW r \in Requests
    PROVE  LookupIsTrue(r)'
<1> USE DEF PresenceInv
<1>1. /\ Name(r)' = Name(r)
      /\ Found(r)' => Found(r) \/ (stage[r] = "verify" /\ Present(Name(r)))
      /\ Missed(r)' => Missed(r) \/ (stage[r] = "verify" /\ ~Present(Name(r)))
      /\ Missed(r)' => (KnownOver(r)' <=> KnownOver(r))
  BY LookupSees DEF KnownOver
<1>2. stage[r] = "verify" => Name(r) \in Names
  BY DEF IInv, Local, OnlyValidGoOn, Valid, Name, CallStages
<1>3. Found(r)' \/ Missed(r)' => Name(r) \in Names
  BY <1>1, <1>2 DEF LookupIsTrue
<1>4. Found(r)' => Present(Name(r)) \/ Deleted(Name(r))
  BY <1>1 DEF LookupIsTrue
<1>5. Missed(r)' /\ KnownOver(r)' => Deleted(Name(r))
  <2>1. ASSUME stage[r] = "verify", ~Present(Name(r)), KnownOver(r)
        PROVE  Deleted(Name(r))
    <3>1. input[r].action = "create" /\ op[r] = "success"
      BY <2>1 DEF IInv, Local, SyncIsTrue, WriteFollowsStage, KnownOver, VerifiesCreates
    <3>2. Applied("create", Name(r)) # {}
      BY <3>1 DEF Applied, Name
    <3> QED BY <1>2, <2>1, <3>2, CreatedIsAccounted
  <2> QED BY <1>1, <2>1 DEF LookupIsTrue
<1>6. ASSUME NEW n \in Names, n = Name(r), Found(r)' \/ Missed(r)'
      PROVE  LookupIsTrue(r)'
  <2>1. /\ Deleted(n) => Deleted(n)'
        /\ Present(n) \/ Deleted(n) => Present(n)' \/ Deleted(n)'
    BY AccountedStays
  <2>2. Name(r)' = n
    BY <1>1, <1>6
  <2>3. Found(r)' => Present(n)' \/ Deleted(n)'
    BY <1>4, <1>6, <2>1
  <2>4. Missed(r)' /\ KnownOver(r)' => Deleted(n)'
    BY <1>5, <1>6, <2>1
  <2> QED BY <2>2, <2>3, <2>4 DEF LookupIsTrue, Present, Deleted, Applied
<1>7. CASE ~(Found(r)' \/ Missed(r)')
  BY <1>7 DEF LookupIsTrue
<1> QED BY <1>3, <1>6, <1>7

----------------------------------------------------------------------------
(* The theorems *)

LEMMA InitPresenceInv == Init => PresenceInv
<1> SUFFICES ASSUME Init PROVE PresenceInv
  OBVIOUS
<1>1. ASSUME NEW r \in Requests PROVE VerifiesCreates(r) /\ LookupIsTrue(r)
  BY DEF Init, VerifiesCreates, LookupIsTrue, Found, Missed, Replied, Successes
<1> QED BY <1>1, InitIInv, InitBalance DEF PresenceInv

LEMMA StepPresenceInv ==
    ASSUME PresenceInv, [Next]_vars, ~OtherClients
    PROVE  PresenceInv'
<1>1. IInv'
  BY StepIInv DEF PresenceInv
<1>2. \A n \in Names : Balance(n)'
  BY BalanceStep DEF PresenceInv
<1>3. \A r \in Requests : VerifiesCreates(r)' /\ LookupIsTrue(r)'
  BY VerifiesCreatesStep, LookupStep DEF PresenceInv
<1> QED BY <1>1, <1>2, <1>3 DEF PresenceInv

LEMMA PresenceInvariance ==
    ASSUME ~OtherClients
    PROVE  Spec => []PresenceInv
<1>1. PresenceInv /\ [Next]_vars => PresenceInv'
  BY StepPresenceInv
<1> QED BY <1>1, InitPresenceInv, PTL DEF Spec

(* While nobody else drives the same Incus, an acknowledged create is      *)
(* there unless a delete of it succeeded, even if replies cannot be        *)
(* decoded.                                                                *)
THEOREM AckedIsThere ==
    ASSUME ~OtherClients
    PROVE  Spec => []AckedCreateExists
<1>1. PresenceInv => AckedCreateExists
  <2> SUFFICES ASSUME PresenceInv, NEW r \in Acked("create")
               PROVE  Present(Name(r)) \/ Deleted(Name(r))
    BY DEF AckedCreateExists, Present, Deleted, Applied
  <2>1. r \in Requests /\ Found(r)
    BY DEF Acked, Found
  <2> QED BY <2>1 DEF PresenceInv, LookupIsTrue
<1> QED BY <1>1, PresenceInvariance, PTL

(* While nobody else drives the same Incus, a create is said to be missing *)
(* only after a delete of it succeeded, unless its reply could not be      *)
(* decoded.                                                                *)
THEOREM MissingIsDeleted ==
    ASSUME ~OtherClients
    PROVE  Spec => []MissingOnlyIfDeleted
<1>1. PresenceInv => MissingOnlyIfDeleted
  <2> SUFFICES ASSUME PresenceInv, NEW r \in Requests,
                      response[r] = "INCUS_INSTANCE_MISSING", KnownOver(r)
               PROVE  Deleted(Name(r))
    BY DEF MissingOnlyIfDeleted, Deleted, Applied
  <2> QED BY DEF PresenceInv, LookupIsTrue, Missed
<1> QED BY <1>1, PresenceInvariance, PTL

(* And the definite answers on a name tell whether its instance exists.    *)
THEOREM AnswersTell ==
    ASSUME ~OtherClients
    PROVE  Spec => []AnswersTellPresence
<1>1. PresenceInv => AnswersTellPresence
  <2> SUFFICES ASSUME PresenceInv, NEW n \in Names,
                      \A r \in Requests : Name(r) = n => Definite(r)
               PROVE  Cardinality({r \in Acked("create") : Name(r) = n})
                        + (IF initial[n] = "absent" THEN 0 ELSE 1)
                      = Cardinality({r \in Acked("delete") : Name(r) = n})
                        + (IF instance[n] = "absent" THEN 0 ELSE 1)
    BY DEF AnswersTellPresence
  <2>1. ASSUME NEW r \in Requests, Name(r) = n
        PROVE  response[r] \in Successes <=> op[r] = "success"
    <3>1. AnswerIsTrue(r) /\ SyncIsTrue(r)
      BY DEF PresenceInv, IInv, Local
    <3> QED BY <2>1, <3>1 DEF Definite, AnswerIsTrue, SyncIsTrue, Successes, Refusals
  <2>2. /\ {r \in Acked("create") : Name(r) = n} = Applied("create", n)
        /\ {r \in Acked("delete") : Name(r) = n} = Applied("delete", n)
    BY <2>1 DEF Acked, Applied
  <2> QED BY <2>2 DEF PresenceInv, Balance
<1> QED BY <1>1, PresenceInvariance, PTL
=============================================================================
