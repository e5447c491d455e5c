------------------------ MODULE LifecycleRefinement ------------------------
(***************************************************************************)
(* The lifecycle service implements LifecycleContract.                     *)
(***************************************************************************)
EXTENDS Lifecycle

(* A request the agent refuses is mapped to one that is not legal; its     *)
(* name and states are then irrelevant.                                    *)
Wish(in) ==
    IF Valid(in)
    THEN [legal |-> TRUE, name |-> in.name,
          from |-> Before[in.action], to |-> After[in.action]]
    ELSE [legal |-> FALSE, name |-> CHOOSE n \in Names : TRUE,
          from |-> "absent", to |-> "absent"]

(* A write that never left the agent has failed once its handler is done.  *)
Fate(r) ==
    CASE op[r] = "success" -> "committed"
      [] op[r] = "failure" -> "failed"
      [] op[r] = "unsent" /\ stage[r] = "done" -> "failed"
      [] OTHER -> "open"

(* "sync-ok" acknowledges only while the replies of Incus can be trusted:  *)
(* an undecodable 200 is degraded to "sync-ok" as well.                    *)
AnswerClass(code) ==
    CASE code = "none" -> "none"
      [] code = "operation-completed" -> "ok"
      [] code = "sync-ok" -> IF GarbledReplies THEN "unknown" ELSE "ok"
      [] code \in Refusals -> "rejected"
      [] OTHER -> "unknown"

Contract == INSTANCE LifecycleContract WITH
    wish <- [r \in Requests |-> Wish(input[r])],
    fate <- [r \in Requests |-> Fate(r)],
    answer <- [r \in Requests |-> AnswerClass(response[r])]

(* Whatever the interleaving, the lost replies and the late writes, every  *)
(* request takes effect at most once and its answer never contradicts what *)
(* became of it (Handle to normalizeResponse, one goroutine per request).  *)
ImplementsContract == Contract!Spec
=============================================================================
