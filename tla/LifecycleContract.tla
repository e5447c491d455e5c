------------------------- MODULE LifecycleContract -------------------------
(***************************************************************************)
(* What the lifecycle service promises its backend, without calls, replies *)
(* or contexts: a request takes effect at most once, only if it is legal,  *)
(* in one step that finds the instance as the request needs it; it is      *)
(* answered once; an acknowledged request has taken effect and a rejected  *)
(* one never will.  An "unknown" answer promises nothing.                  *)
(***************************************************************************)
CONSTANTS Requests, Names, InstanceStates

VARIABLES
    wish,      \* what each request asks for
    fate,      \* "open", or "committed" or "failed" for good
    answer,    \* "none", then "ok", "rejected" or "unknown" for good
    instance   \* the state of each instance

vars == <<wish, fate, answer, instance>>

Init ==
    /\ wish \in [Requests -> [legal: BOOLEAN, name: Names,
                              from: InstanceStates, to: InstanceStates]]
    /\ fate = [r \in Requests |-> "open"]
    /\ answer = [r \in Requests |-> "none"]
    /\ instance \in [Names -> InstanceStates]

Commit(r) ==
    /\ fate[r] = "open"
    /\ wish[r].legal
    /\ instance[wish[r].name] = wish[r].from
    /\ instance' = [instance EXCEPT ![wish[r].name] = wish[r].to]
    /\ fate' = [fate EXCEPT ![r] = "committed"]
    /\ UNCHANGED <<wish, answer>>

Fail(r) ==
    /\ fate[r] = "open"
    /\ fate' = [fate EXCEPT ![r] = "failed"]
    /\ UNCHANGED <<wish, answer, instance>>

Acknowledge(r) ==
    /\ answer[r] = "none"
    /\ fate[r] = "committed"
    /\ answer' = [answer EXCEPT ![r] = "ok"]
    /\ UNCHANGED <<wish, fate, instance>>

Reject(r) ==
    /\ answer[r] = "none"
    /\ fate[r] \in {"open", "failed"}
    /\ fate' = [fate EXCEPT ![r] = "failed"]
    /\ answer' = [answer EXCEPT ![r] = "rejected"]
    /\ UNCHANGED <<wish, instance>>

(* The service no longer knows; a request still open may be dropped.       *)
GiveUp(r) ==
    /\ answer[r] = "none"
    /\ answer' = [answer EXCEPT ![r] = "unknown"]
    /\ \/ UNCHANGED fate
       \/ fate[r] = "open" /\ fate' = [fate EXCEPT ![r] = "failed"]
    /\ UNCHANGED <<wish, instance>>

(* Another client of the same Incus. *)
OtherClient(n) ==
    /\ \E s \in InstanceStates : instance' = [instance EXCEPT ![n] = s]
    /\ UNCHANGED <<wish, fate, answer>>

Next ==
    \/ \E r \in Requests : \/ Commit(r) \/ Fail(r)
                           \/ Acknowledge(r) \/ Reject(r) \/ GiveUp(r)
    \/ \E n \in Names : OtherClient(n)

Spec == Init /\ [][Next]_vars
=============================================================================
