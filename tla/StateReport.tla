---------------------------- MODULE StateReport ----------------------------
(***************************************************************************)
(* How anvil-agent puts together one report of GET /agent/v1/state: Report *)
(* (internal/state/report.go) and the readiness detector it asks           *)
(* (internal/lifecycle/readiness.go).  It looks at the host twice and at   *)
(* Incus up to five times, while both may change and the context of the    *)
(* request may end.                                                        *)
(***************************************************************************)
EXTENDS Naturals, FiniteSets, RootDisk

CONSTANTS
    Profiles,   \* the device sets the default profile may have
    Totals,     \* how many instances, images or operations there may be
    MaxChanges  \* bound: how often host and Incus change during a report

ASSUME TotalsAssumption == 0 \in Totals /\ Totals \subseteq Nat
ASSUME ProfilesAssumption == Profiles # {} /\ Profiles \subseteq SUBSET Device

Lists == {"instances", "images", "operations"}

(* Host and Incus, as far as a report tells of them.                       *)
World == [hostname : BOOLEAN,                       \* the host has a name
          wg : BOOLEAN,                             \* wg is on the PATH
          kvm : {"device", "absent", "unreadable"}, \* /dev/kvm
          up : BOOLEAN,                             \* Incus answers
          profile : Profiles,
          total : [Lists -> Totals]]

VARIABLES
    world,     \* host and Incus now
    moments,   \* history: what they have been since the report was asked for
    stage,     \* what the report reads next; none, "done" or "failed"
    ctxEnded,  \* the context of the request has ended
    report,    \* the report so far
    failed     \* history: what could not be read

reportVars == <<world, moments, stage, ctxEnded, report, failed>>

NoReport == [wireGuard |-> FALSE, vmLifecycle |-> FALSE, available |-> FALSE,
             total |-> [l \in Lists |-> 0]]

(* What host and Incus were before the report was asked for does not matter. *)
InitReport ==
    /\ world = [hostname |-> TRUE, wg |-> FALSE, kvm |-> "absent", up |-> FALSE,
                profile |-> CHOOSE p \in Profiles : TRUE, total |-> [l \in Lists |-> 0]]
    /\ moments = {world}
    /\ stage = "none" /\ ctxEnded = FALSE
    /\ report = NoReport /\ failed = {}

----------------------------------------------------------------------------
(* Host and Incus; external *)

Reading == stage \notin {"none", "done", "failed"}

WorldChanges ==
    /\ Reading /\ Cardinality(moments) <= MaxChanges
    /\ \/ \E k \in {"device", "absent", "unreadable"} : world' = [world EXCEPT !.kvm = k]
       \/ world' = [world EXCEPT !.wg = ~@]
       \/ world' = [world EXCEPT !.up = ~@]
       \/ \E p \in Profiles : world' = [world EXCEPT !.profile = p]
       \/ \E l \in Lists, t \in Totals : world' = [world EXCEPT !.total[l] = t]
    /\ world' # world
    /\ moments' = moments \union {world'}
    /\ UNCHANGED <<stage, ctxEnded, report, failed>>

ReportContextEnds ==
    /\ Reading /\ ~ctxEnded
    /\ ctxEnded' = TRUE
    /\ UNCHANGED <<world, moments, stage, report, failed>>

----------------------------------------------------------------------------
(* Report *)

AskForReport ==
    /\ stage = "none" /\ stage' = "hostname"
    /\ world' \in World /\ moments' = {world'}
    /\ UNCHANGED <<ctxEnded, report, failed>>

ReadHostname ==
    /\ stage = "hostname"
    /\ stage' = IF world.hostname THEN "wireGuard" ELSE "failed"
    /\ UNCHANGED <<world, moments, ctxEnded, report, failed>>

ReadWireGuard ==
    /\ stage = "wireGuard"
    /\ report' = [report EXCEPT !.wireGuard = ~ctxEnded /\ world.wg]
    /\ stage' = "kvm"
    /\ UNCHANGED <<world, moments, ctxEnded, failed>>

ReadKvmSkips ==
    /\ stage = "kvm"
    /\ stage' = IF ~ctxEnded /\ world.kvm = "absent" THEN "profile" ELSE "root"
    /\ UNCHANGED <<world, moments, ctxEnded, report, failed>>

(* VMLifecycleAvailable *)
ReadKvm ==
    /\ stage = "kvm"
    /\ stage' = IF ~ctxEnded /\ world.kvm = "device" THEN "profile" ELSE "root"
    /\ UNCHANGED <<world, moments, ctxEnded, report, failed>>

(* A call of Incus has a 2xx answer that decodes, or fails: Incus is down, *)
(* slow, answers an error or what does not decode, or the context ended.   *)
Call(name, onSuccess, onFailure) ==
    \/ ~ctxEnded /\ world.up /\ report' = onSuccess /\ UNCHANGED failed
    \/ report' = onFailure /\ failed' = failed \union {name}

ReadProfileAnyDisk ==
    /\ stage = "profile"
    /\ Call("profile", [report EXCEPT !.vmLifecycle = RootDisks(world.profile) # {}], report)
    /\ stage' = "root"
    /\ UNCHANGED <<world, moments, ctxEnded>>

ReadProfile ==
    /\ stage = "profile"
    /\ Call("profile", [report EXCEPT !.vmLifecycle = RootDiskVerdict(world.profile) = "ok"], report)
    /\ stage' = "root"
    /\ UNCHANGED <<world, moments, ctxEnded>>

ReadRootCountsAnyway ==
    /\ stage = "root"
    /\ Call("root", [report EXCEPT !.available = TRUE], report)
    /\ stage' = "instances"
    /\ UNCHANGED <<world, moments, ctxEnded>>

(* summarizeIncusRoot; an answer whose body does not decode counts as one. *)
ReadRoot ==
    /\ stage = "root"
    /\ Call("root", [report EXCEPT !.available = TRUE], report)
    /\ stage' = IF report'.available THEN "instances" ELSE "done"
    /\ UNCHANGED <<world, moments, ctxEnded>>

Following == [instances |-> "images", images |-> "operations", operations |-> "done"]

CountGivesUp ==
    /\ stage \in Lists
    /\ Call(stage, [report EXCEPT !.total[stage] = world.total[stage]], report)
    /\ stage' = IF ctxEnded THEN stage ELSE Following[stage]
    /\ UNCHANGED <<world, moments, ctxEnded>>

(* countList and countOperations; the classes of operations are summed.    *)
Count ==
    /\ stage \in Lists
    /\ Call(stage, [report EXCEPT !.total[stage] = world.total[stage]], report)
    /\ stage' = Following[stage]
    /\ UNCHANGED <<world, moments, ctxEnded>>

ReportStep == ReadHostname \/ ReadWireGuard \/ ReadKvm \/ ReadProfile \/ ReadRoot \/ Count

----------------------------------------------------------------------------
(* Properties *)

(* Stage and report agree: nothing is counted unless Incus was available,  *)
(* and only then, whatever else failed.                                    *)
ReportTypeOK ==
    /\ world \in World /\ world \in moments /\ moments \subseteq World
    /\ stage \in {"none", "hostname", "wireGuard", "kvm", "profile", "root", "done", "failed"} \union Lists
    /\ ctxEnded \in BOOLEAN
    /\ report \in [wireGuard : BOOLEAN, vmLifecycle : BOOLEAN, available : BOOLEAN, total : [Lists -> Totals]]
    /\ failed \subseteq Lists \union {"profile", "root"}
    /\ report.available => stage \in Lists \union {"done"}
    /\ ~report.available => stage \notin Lists /\ report.total = NoReport.total

(* What a report claims was so at some moment since it was asked for,      *)
(* though its parts may come from several: a flag that is set, and a count *)
(* unless its call failed.  VMs are not promised to a backend whose create *)
(* would have been refused all the time.                                   *)
ClaimsWereTrue ==
    /\ report.wireGuard => \E w \in moments : w.wg
    /\ report.vmLifecycle => /\ \E w \in moments : w.kvm = "device"
                             /\ \E w \in moments : w.up /\ RootDiskVerdict(w.profile) = "ok"
    /\ report.available => \E w \in moments : w.up
    /\ \A l \in Lists : report.total[l] # 0 => \E w \in moments : w.up /\ w.total[l] = report.total[l]

(* What a finished report denies was missing at some moment, or could not  *)
(* be read: a host on which all is well throughout is reported so, count   *)
(* for count.                                                              *)
DenialsHadReason ==
    stage = "done" =>
        /\ ~report.wireGuard => ctxEnded \/ \E w \in moments : ~w.wg
        /\ ~report.vmLifecycle =>
               \/ ctxEnded \/ "profile" \in failed
               \/ \E w \in moments : w.kvm # "device" \/ RootDiskVerdict(w.profile) # "ok"
        /\ ~report.available => "root" \in failed
        /\ \A l \in Lists :
               report.available /\ l \notin failed => \E w \in moments : w.total[l] = report.total[l]
=============================================================================
