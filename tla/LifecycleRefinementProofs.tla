--------------------- MODULE LifecycleRefinementProofs ---------------------
(***************************************************************************)
(* The lifecycle service implements its contract, for every value of the   *)
(* constants.  A step of a handler that answers maps to Acknowledge,       *)
(* Reject or GiveUp, a write taking effect to Commit, a write Incus        *)
(* refuses or fails to Fail, and every other step to a stutter.            *)
(***************************************************************************)
EXTENDS LifecycleRefinement, LifecycleProofs

(* The contract's variables, as functions of the state. *)
wishes == [r \in Requests |-> Wish(input[r])]
fates == [r \in Requests |-> Fate(r)]
answers == [r \in Requests |-> AnswerClass(response[r])]

LEMMA WishType ==
    ASSUME NEW in \in Input
    PROVE  Wish(in) \in [legal: BOOLEAN, name: Names,
                         from: InstanceStates, to: InstanceStates]
<1>1. CASE Valid(in)
  <2>1. Before[in.action] \in InstanceStates /\ After[in.action] \in InstanceStates
    BY <1>1 DEF Valid, Actions, Before, After, InstanceStates
  <2> QED BY <1>1, <2>1 DEF Wish, Valid
<1>2. CASE ~Valid(in)
  <2>1. (CHOOSE n \in Names : TRUE) \in Names
    BY NamesAssumption
  <2> QED BY <1>2, <2>1 DEF Wish, InstanceStates
<1> QED BY <1>1, <1>2

LEMMA InitImplements == Init => Contract!Init
<1> SUFFICES ASSUME Init PROVE Contract!Init
  OBVIOUS
<1>1. wishes \in [Requests -> [legal: BOOLEAN, name: Names,
                               from: InstanceStates, to: InstanceStates]]
  BY WishType, InputsAssumption DEF wishes, Init
<1>2. fates = [r \in Requests |-> "open"]
  BY DEF fates, Fate, Init
<1>3. answers = [r \in Requests |-> "none"]
  BY DEF answers, AnswerClass, Refusals, Init
<1> QED BY <1>1, <1>2, <1>3 DEF Contract!Init, Init, wishes, fates, answers

(* A step that changes no input, fate, answer or instance is a stutter. *)
LEMMA Stutter ==
    ASSUME UNCHANGED <<input, response, instance>>,
           \A q \in Requests : Fate(q)' = Fate(q)
    PROVE  UNCHANGED Contract!vars
BY DEF Contract!vars

(* A handler that answers truthfully.                                      *)
LEMMA AnswerImplements ==
    ASSUME IInv, IInv', NEW r \in Requests, stage[r] # "done", NEW code,
           Answer(r, code), UNCHANGED <<input, op, instance>>
    PROVE  Contract!Next
<1>1. /\ response[r] = "none" /\ response' = [response EXCEPT ![r] = code]
      /\ response'[r] = code /\ code # "none"
      /\ stage'[r] = "done" /\ \A q \in Requests \ {r} : stage'[q] = stage[q]
  BY DEF IInv, TypeOK, Answer
<1>2. answers[r] = "none" /\ answers' = [answers EXCEPT ![r] = AnswerClass(code)]
  <2>1. AnswerClass("none") = "none"
    BY DEF AnswerClass, Refusals
  <2>2. \A q \in Requests : q # r => response'[q] = response[q]
    BY <1>1
  <2>3. \A q \in Requests : answers'[q] = AnswerClass(response'[q])
    BY DEF answers, AnswerClass
  <2>4. /\ answers' = [q \in Requests |-> answers'[q]]
        /\ [answers EXCEPT ![r] = AnswerClass(code)]
             = [q \in Requests |-> IF q = r THEN AnswerClass(code)
                                           ELSE AnswerClass(response[q])]
    BY DEF answers
  <2>5. \A q \in Requests : answers'[q] = IF q = r THEN AnswerClass(code)
                                                  ELSE AnswerClass(response[q])
    BY <1>1, <2>2, <2>3
  <2>6. answers[r] = "none"
    BY <1>1, <2>1 DEF answers
  <2> QED BY <2>4, <2>5, <2>6
<1>3. fates' = [fates EXCEPT ![r] = Fate(r)'] /\ fates[r] = Fate(r)
  BY <1>1 DEF fates, Fate
<1>4. wishes' = wishes
  BY DEF wishes
<1>5. /\ op[r] = "success" => Fate(r) = "committed" /\ Fate(r)' = "committed"
      /\ op[r] = "failure" => Fate(r) = "failed" /\ Fate(r)' = "failed"
      /\ op[r] = "unsent" => Fate(r) = "open" /\ Fate(r)' = "failed"
      /\ op[r] \in {"transit", "running"} => Fate(r) = "open" /\ Fate(r)' = "open"
      /\ op[r] \in OpStates
  BY <1>1 DEF Fate, IInv, TypeOK
<1>6. CASE AnswerClass(code) = "ok"
  <2>1. op[r] = "success"
    BY <1>1, <1>6 DEF IInv, Local, AnswerIsTrue, SyncIsTrue, AnswerClass, Refusals
  <2>2. Contract!Acknowledge(r)
    BY <1>2, <1>3, <1>4, <1>5, <1>6, <2>1
       DEF Contract!Acknowledge, answers, fates, wishes
  <2> QED BY <2>2 DEF Contract!Next
<1>7. CASE AnswerClass(code) = "rejected"
  <2>1. op[r] \in {"unsent", "failure"}
    BY <1>1, <1>7 DEF IInv, Local, AnswerIsTrue, AnswerClass
  <2>2. Contract!Reject(r)
    BY <1>2, <1>3, <1>4, <1>5, <1>7, <2>1 DEF Contract!Reject, answers, fates, wishes
  <2> QED BY <2>2 DEF Contract!Next
<1>8. CASE AnswerClass(code) = "unknown"
  <2>1. fates' = fates \/ (fates[r] = "open" /\ fates' = [fates EXCEPT ![r] = "failed"])
    BY <1>3, <1>5 DEF OpStates, fates
  <2>2. Contract!GiveUp(r)
    BY <1>2, <1>4, <1>8, <2>1 DEF Contract!GiveUp, answers, fates, wishes
  <2> QED BY <2>2 DEF Contract!Next
<1> QED BY <1>1, <1>6, <1>7, <1>8 DEF AnswerClass

(* A handler that goes on. *)
LEMMA GotoImplements ==
    ASSUME IInv, NEW r \in Requests, stage[r] # "done", NEW s \in CallStages,
           Goto(r, s), UNCHANGED <<input, op, instance>>
    PROVE  UNCHANGED Contract!vars
<1>1. \A q \in Requests : (stage'[q] = "done") <=> (stage[q] = "done")
  BY DEF IInv, TypeOK, Goto, CallStages
<1>2. \A q \in Requests : Fate(q)' = Fate(q)
  BY <1>1 DEF Fate
<1> QED BY <1>2, Stutter DEF Goto

LEMMA AgentImplements ==
    ASSUME IInv, IInv', NEW r \in Requests,
           Cancel(r) \/ CallFails(r) \/ Agent(r)
    PROVE  [Contract!Next]_(Contract!vars)
<1>1. CASE Cancel(r) \/ CallFails(r)
  BY <1>1, Stutter DEF Cancel, CallFails, LoseReply, Fate, incusVars
<1>2. CASE Call(r) /\ UNCHANGED <<stage, response>>
  <2>1. /\ UNCHANGED <<input, response, instance, stage>>
        /\ \A q \in Requests : op'[q] = op[q] \/ (op[q] = "unsent" /\ op'[q] = "transit")
    BY <1>2 DEF Call, IInv, TypeOK, Local, WriteFollowsStage, Answer
  <2>2. stage[r] # "done" /\ \A q \in Requests : q # r => op'[q] = op[q]
    BY <1>2 DEF Call, IInv, TypeOK, CallStages
  <2>3. \A q \in Requests : Fate(q)' = Fate(q)
    BY <2>1, <2>2 DEF Fate
  <2> QED BY <2>1, <2>3, Stutter
<1>3. CASE Turn(r) /\ stage[r] # "done" /\ UNCHANGED <<input, op, instance>>
  BY <1>3, AnswerImplements, GotoImplements DEF Turn
<1>4. CASE Call(r) /\ ~UNCHANGED <<stage, response>>
  <2>1. /\ Answer(r, "REQUEST_CANCELLED") /\ stage[r] # "done"
        /\ UNCHANGED <<input, op, instance>>
    BY <1>4 DEF Call, CallStages
  <2> QED BY <2>1, AnswerImplements
<1>5. CASE Handle(r)
  <2>1. Turn(r)
    BY <1>5 DEF Handle, Turn, Codes, Refusals, Doubts, CallStages
  <2> QED BY <1>3, <1>5, <2>1 DEF Handle, incusVars
<1>6. CASE OnProfile(r)
  <2>1. Turn(r)
    BY <1>6, VerdictIsOkOrRefusal DEF OnProfile, Turn, Codes, Refusals, CallStages
  <2> QED BY <1>3, <1>6, <2>1 DEF OnProfile, Replied, incusVars
<1>7. CASE OnSubmit(r)
  <2>1. Turn(r)
    BY <1>7, SettleIsTurn, RefusedIsTurn DEF OnSubmit, Turn, Codes, Doubts, CallStages
  <2> QED BY <1>3, <1>7, <2>1 DEF OnSubmit, Replied, incusVars
<1>8. CASE OnWait(r)
  <2>1. Turn(r)
    BY <1>8, SettleIsTurn, RefusedIsTurn DEF OnWait, Turn, Codes, Doubts, Refusals
  <2> QED BY <1>3, <1>8, <2>1 DEF OnWait, Replied, incusVars
<1>9. CASE OnVerify(r)
  <2>1. Turn(r)
    BY <1>9, SettleIsTurn, RefusedIsTurn DEF OnVerify, Turn, Codes, Doubts
  <2> QED BY <1>3, <1>9, <2>1 DEF OnVerify, Replied, incusVars
<1> QED BY <1>1, <1>2, <1>4, <1>5, <1>6, <1>7, <1>8, <1>9 DEF Agent

(* A write that takes effect. *)
LEMMA ApplyImplements ==
    ASSUME IInv, NEW r \in Requests, op[r] \in {"transit", "running"}, Apply(r),
           UNCHANGED <<stage, input, response>>
    PROVE  Contract!Next
<1>1. Valid(input[r])
  BY DEF IInv, Local, OnlyValidGoOn
<1>2. /\ op' = [op EXCEPT ![r] = "success"] /\ op \in [Requests -> OpStates]
      /\ instance[input[r].name] = Before[input[r].action]
      /\ instance' = [instance EXCEPT ![input[r].name] = After[input[r].action]]
  BY DEF Apply, IInv, TypeOK
<1>3. fates[r] = "open" /\ fates' = [fates EXCEPT ![r] = "committed"]
  BY <1>2 DEF fates, Fate
<1>4. /\ wishes[r].legal /\ wishes[r].name = input[r].name
      /\ wishes[r].from = Before[input[r].action]
      /\ wishes[r].to = After[input[r].action]
  BY <1>1 DEF wishes, Wish
<1>5. Contract!Commit(r)
  BY <1>2, <1>3, <1>4 DEF Contract!Commit, fates, wishes
<1> QED BY <1>5 DEF Contract!Next

(* A write that will never take effect. *)
LEMMA FailImplements ==
    ASSUME IInv, NEW r \in Requests, op[r] \in {"transit", "running"},
           op' = [op EXCEPT ![r] = "failure"],
           UNCHANGED <<stage, input, response, instance>>
    PROVE  Contract!Next
<1>1. fates[r] = "open" /\ fates' = [fates EXCEPT ![r] = "failed"]
  BY DEF fates, Fate, IInv, TypeOK
<1>2. Contract!Fail(r)
  BY <1>1 DEF Contract!Fail, fates
<1> QED BY <1>2 DEF Contract!Next

LEMMA IncusImplements ==
    ASSUME IInv, NEW r \in Requests, IncusStep(r)
    PROVE  [Contract!Next]_(Contract!vars)
<1>1. CASE IncusReadsProfile(r) \/ IncusFailsRead(r) \/ IncusReportsOperation(r)
           \/ IncusLooksUp(r)
  <2>1. UNCHANGED <<stage, input, response, instance, op>>
    BY <1>1 DEF IncusReadsProfile, IncusFailsRead, IncusReportsOperation,
                IncusLooksUp, Respond, incusVars
  <2> QED BY <2>1, Stutter DEF Fate
<1>2. CASE IncusAccepts(r)
  <2>1. /\ UNCHANGED <<stage, input, response, instance>>
        /\ op[r] = "transit" /\ op' = [op EXCEPT ![r] = "running"]
    BY <1>2 DEF IncusAccepts, Respond
  <2>2. \A q \in Requests : Fate(q)' = Fate(q)
    BY <2>1 DEF Fate, IInv, TypeOK
  <2> QED BY <2>1, <2>2, Stutter
<1>3. CASE IncusRefuses(r) \/ OperationFails(r)
  BY <1>3, FailImplements DEF IncusRefuses, OperationFails, Respond, agentVars
<1>4. CASE IncusAppliesAtOnce(r) \/ OperationSucceeds(r)
  BY <1>4, ApplyImplements DEF IncusAppliesAtOnce, OperationSucceeds, Respond, agentVars
<1> QED BY <1>1, <1>2, <1>3, <1>4 DEF IncusStep

LEMMA StepImplements ==
    ASSUME IInv, IInv', [Next]_vars
    PROVE  [Contract!Next]_(Contract!vars)
<1>1. CASE \E r \in Requests : Cancel(r) \/ CallFails(r) \/ Agent(r) \/ IncusStep(r)
  BY <1>1, AgentImplements, IncusImplements
<1>2. CASE ProfileChanges \/ UNCHANGED vars
  BY <1>2, Stutter DEF ProfileChanges, Fate, vars, agentVars, incusVars
<1>3. CASE \E n \in Names : OtherClientActs(n)
  <2>1. PICK n \in Names : OtherClientActs(n)
    BY <1>3
  <2>2. UNCHANGED <<input, response, op, stage>>
    BY <2>1 DEF OtherClientActs, agentVars
  <2>3. Contract!OtherClient(n)
    BY <2>1, <2>2 DEF OtherClientActs, Contract!OtherClient, Fate
  <2> QED BY <2>3 DEF Contract!Next
<1> QED BY <1>1, <1>2, <1>3 DEF Next, Finished

(* Every behaviour of the service is one its contract allows.              *)
THEOREM ServiceImplementsContract == Spec => ImplementsContract
<1>1. Spec => [][Contract!Next]_(Contract!vars)
  BY Invariance, StepImplements, PTL DEF Spec
<1> QED BY <1>1, InitImplements, PTL DEF Spec, ImplementsContract, Contract!Spec
=============================================================================
