------------------------------ MODULE Identity ------------------------------
(***************************************************************************)
(* The host identity of anvil-agent: state.LoadIdentity as every start of  *)
(* the program runs it (cmd/anvil-agent/main.go), then the listening       *)
(* socket.  Processes start and are killed at any time, under systemd      *)
(* (Restart=on-failure) or by hand; nothing but the port keeps two of them *)
(* apart, and the port is taken only after the identity is loaded.         *)
(***************************************************************************)
EXTENDS Naturals, FiniteSets

CONSTANTS
    Procs,     \* process slots: a killed process may start again
    Ids,       \* the UUIDs newUUID may draw
    NoId,      \* none of them
    MaxKills   \* bound on the number of kills

ASSUME IdsAssumption == NoId \notin Ids /\ {"absent", "empty"} \intersect Ids = {}
ASSUME KillsAssumption == MaxKills \in Nat

VARIABLES
    file,     \* identity.json: "absent", "empty" (created, not written) or an id
    stage,    \* where each process is
    id,       \* the identity it has in memory
    served,   \* the ids backends have been served under (history)
    written,  \* the ids that were in the file (history)
    kills     \* the kills so far

vars == <<file, stage, id, served, written, kills>>

Stages == {"down", "read", "create", "write", "listen", "serving"}

Init ==
    /\ file \in {"absent"} \union Ids
    /\ stage = [p \in Procs |-> "down"]
    /\ id = [p \in Procs |-> NoId]
    /\ served = {}
    /\ written = {file} \ {"absent"}
    /\ kills = 0

Goes(p, from, to) == stage[p] = from /\ stage' = [stage EXCEPT ![p] = to]

(* A process that ends loses what it has in memory, and the port. *)
Ends(p) ==
    /\ stage' = [stage EXCEPT ![p] = "down"]
    /\ id' = [id EXCEPT ![p] = NoId]

Start(p) ==
    /\ Goes(p, "down", "read")
    /\ UNCHANGED <<file, id, served, written, kills>>

(* An id nobody has: newUUID draws 122 random bits.                        *)
Fresh == Ids \ ({id[p] : p \in Procs} \union served \union {file})

ReadRegenerates(p) ==
    /\ stage[p] = "read"
    /\ \/ /\ file \in Ids
          /\ Goes(p, "read", "listen")
          /\ id' = [id EXCEPT ![p] = file]
       \/ /\ \E i \in Fresh : id' = [id EXCEPT ![p] = i]
          /\ Goes(p, "read", "create")
    /\ UNCHANGED <<file, served, written, kills>>

(* os.ReadFile and parseIdentity: an identity is used, a missing file      *)
(* calls for a new one, and a file that does not parse ends the process.   *)
Read(p) ==
    /\ stage[p] = "read"
    /\ \/ /\ file \in Ids
          /\ Goes(p, "read", "listen")
          /\ id' = [id EXCEPT ![p] = file]
       \/ /\ file = "absent"
          /\ \E i \in Fresh : id' = [id EXCEPT ![p] = i]
          /\ Goes(p, "read", "create")
       \/ /\ file = "empty"
          /\ Ends(p)
    /\ UNCHANGED <<file, served, written, kills>>

(* os.WriteFile: open the file, truncating what is there, ...              *)
CreateSkipsWrite(p) ==
    /\ Goes(p, "create", "listen")
    /\ file' = "empty"
    /\ UNCHANGED <<id, served, written, kills>>

Create(p) ==
    /\ Goes(p, "create", "write")
    /\ file' = "empty"
    /\ UNCHANGED <<id, served, written, kills>>

(* ... then write it. *)
Write(p) ==
    /\ Goes(p, "write", "listen")
    /\ file' = id[p]
    /\ written' = written \union {id[p]}
    /\ UNCHANGED <<id, served, kills>>

(* ListenAndServe succeeds for one process and ends any other.             *)
ListenAlways(p) ==
    /\ Goes(p, "listen", "serving")
    /\ served' = served \union {id[p]}
    /\ UNCHANGED <<file, id, written, kills>>

Listen(p) ==
    /\ stage[p] = "listen"
    /\ \/ /\ \A q \in Procs : stage[q] # "serving"
          /\ Goes(p, "listen", "serving")
          /\ served' = served \union {id[p]}
          /\ UNCHANGED id
       \/ /\ \E q \in Procs : stage[q] = "serving"
          /\ Ends(p)
          /\ UNCHANGED served
    /\ UNCHANGED <<file, written, kills>>

Kill(p) ==
    /\ stage[p] # "down"
    /\ kills < MaxKills
    /\ kills' = kills + 1
    /\ Ends(p)
    /\ UNCHANGED <<file, served, written>>

Step(p) == Start(p) \/ Read(p) \/ Create(p) \/ Write(p) \/ Listen(p)

Next == \E p \in Procs : Step(p) \/ Kill(p)

Spec == Init /\ [][Next]_vars

(* systemd starts the program again whenever it ended, and it runs.        *)
FairSpec == Spec /\ \A p \in Procs : WF_vars(Step(p))

----------------------------------------------------------------------------
(* Properties *)

(* The file, the processes and the histories stay within their ranges, and *)
(* a process past the read has an identity.                                *)
TypeOK ==
    /\ file \in {"absent", "empty"} \union Ids
    /\ stage \in [Procs -> Stages]
    /\ id \in [Procs -> Ids \union {NoId}]
    /\ served \subseteq Ids
    /\ written \subseteq Ids
    /\ kills \in 0..MaxKills
    /\ \A p \in Procs : id[p] = NoId <=> stage[p] \in {"down", "read"}
    /\ \A p, q \in Procs : stage[p] = "serving" /\ stage[q] = "serving" => p = q

(* No backend ever sees an identity that was not in the file first: a      *)
(* process answers only after os.WriteFile returned or the file was read.  *)
PersistedBeforeServed == served \subseteq written

(* Once the file holds an id, no process is about to write it and every    *)
(* process that has an identity has that one, it stays so for good, across *)
(* kills and any number of concurrent starts.                              *)
Settled ==
    /\ file \in Ids
    /\ \A p \in Procs : /\ stage[p] \notin {"create", "write"}
                        /\ id[p] \in {NoId, file}
SettledIdentityStays == [][Settled => Settled' /\ file' = file]_vars

(* The identity backends see never changes.                                *)
StableIdentity == Cardinality(served) <= 1

(* A host whose agent is restarted whenever it ends serves again.          *)
RestartRecovers == []<>(\E p \in Procs : stage[p] = "serving")
=============================================================================
