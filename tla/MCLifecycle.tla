---------------------------- MODULE MCLifecycle ----------------------------
(* Small instances of Lifecycle for TLC. *)
EXTENDS LifecycleRefinement, TLC

CONSTANTS r1, r2, n1, n2, bad, d1, d2

In(a, n) == [action |-> a, method |-> "POST", body |-> "valid", name |-> n]

(* Valid requests of the kinds a run is about, on one name. *)
ContractInputs ==
    {In("create", n1), In("start", n1), In("delete", n1),
     [In("delete", n1) EXCEPT !.body = "refused"]}

(* Every kind of input the agent refuses, and some it accepts. *)
MixedInputs ==
    {In("create", n1), In("unknown", n1), In("stop", bad),
     [In("restart", n1) EXCEPT !.body = "empty"],
     [In("delete", n1) EXCEPT !.body = "refused"],
     [In("start", n1) EXCEPT !.method = "other"]}

RootOn(d) == [id |-> d, root |-> TRUE, pool |-> TRUE]
PlainRoot == {{RootOn(d1)}}
(* no root disk, two root disks, one without a pool, one beside another disk *)
AllProfiles ==
    {{}, {RootOn(d1), RootOn(d2)},
     {[id |-> d1, root |-> TRUE, pool |-> FALSE]},
     {RootOn(d1), [id |-> d2, root |-> FALSE, pool |-> TRUE]}}

Symmetry == Permutations(Requests)
=============================================================================
