--------------------------- MODULE IdentityProofs ---------------------------
(***************************************************************************)
(* Safety of the host identity for any number of processes, kills and ids. *)
(*                                                                         *)
(* That an id was in the file before it was served is not inductive: the   *)
(* process that serves it read or wrote it two steps earlier.  Backed says *)
(* so of every process past that point, and of the file itself.            *)
(***************************************************************************)
EXTENDS Identity, TLAPS

Backed ==
    /\ file \in Ids => file \in written
    /\ \A p \in Procs : stage[p] \in {"listen", "serving"} => id[p] \in written

IInv == TypeOK /\ Backed /\ PersistedBeforeServed

(* Every start begins from the file alone. *)
LEMMA InitIInv == Init => IInv
BY IdsAssumption, KillsAssumption
   DEF Init, IInv, TypeOK, Backed, PersistedBeforeServed, Stages

(* What a process that ends leaves behind is what its file holds. *)
LEMMA EndsKeeps ==
    ASSUME IInv, NEW p \in Procs, stage[p] # "down", Ends(p),
           kills' \in 0..MaxKills, UNCHANGED <<file, served, written>>
    PROVE  IInv'
BY IdsAssumption DEF IInv, TypeOK, Backed, PersistedBeforeServed, Ends, Stages

(* One step per action of a process. *)
LEMMA NextIInv == IInv /\ [Next]_vars => IInv'
<1> SUFFICES ASSUME IInv, [Next]_vars
             PROVE  IInv'
  OBVIOUS
<1> USE DEF IInv, TypeOK, Backed, PersistedBeforeServed, Stages
<1>1. ASSUME NEW p \in Procs, Start(p)
      PROVE  IInv'
  BY <1>1 DEF Start, Goes
<1>2. ASSUME NEW p \in Procs, Read(p)
      PROVE  IInv'
  <2>1. CASE file \in Ids /\ Goes(p, "read", "listen")
             /\ id' = [id EXCEPT ![p] = file]
             /\ UNCHANGED <<file, served, written, kills>>
    BY <2>1, IdsAssumption DEF Goes
  <2>2. CASE file = "absent" /\ (\E i \in Fresh : id' = [id EXCEPT ![p] = i])
             /\ Goes(p, "read", "create")
             /\ UNCHANGED <<file, served, written, kills>>
    <3>1. PICK i \in Ids : id' = [id EXCEPT ![p] = i]
      BY <2>2 DEF Fresh
    <3> QED BY <2>2, <3>1, IdsAssumption DEF Goes
  <2>3. CASE file = "empty" /\ Ends(p) /\ stage[p] = "read"
             /\ UNCHANGED <<file, served, written, kills>>
    BY <2>3, EndsKeeps
  <2> QED BY <1>2, <2>1, <2>2, <2>3 DEF Read
<1>3. ASSUME NEW p \in Procs, Create(p)
      PROVE  IInv'
  BY <1>3, IdsAssumption DEF Create, Goes
<1>4. ASSUME NEW p \in Procs, Write(p)
      PROVE  IInv'
  BY <1>4, IdsAssumption DEF Write, Goes
<1>5. ASSUME NEW p \in Procs, Listen(p)
      PROVE  IInv'
  <2>1. CASE /\ \A q \in Procs : stage[q] # "serving"
             /\ Goes(p, "listen", "serving")
             /\ served' = served \union {id[p]}
             /\ UNCHANGED <<file, id, written, kills>>
    BY <2>1, IdsAssumption DEF Goes
  <2>2. CASE stage[p] = "listen" /\ Ends(p) /\ UNCHANGED <<file, served, written, kills>>
    BY <2>2, EndsKeeps
  <2> QED BY <1>5, <2>1, <2>2 DEF Listen
<1>6. ASSUME NEW p \in Procs, Kill(p)
      PROVE  IInv'
  <2>1. kills' \in 0..MaxKills
    BY <1>6, KillsAssumption DEF Kill
  <2> QED BY <1>6, <2>1, EndsKeeps DEF Kill
<1>7. CASE UNCHANGED vars
  BY <1>7 DEF vars
<1> QED BY <1>1, <1>2, <1>3, <1>4, <1>5, <1>6, <1>7 DEF Next, Step

(* The inductive invariant holds of every behaviour of any number of       *)
(* processes (LoadIdentity and what main does around it).                  *)
THEOREM Invariance == Spec => []IInv
<1> QED BY InitIInv, NextIInv, PTL DEF Spec

(* The file, the processes and the port are always in a state the model    *)
(* names: at most one process serves, however they start and die.          *)
THEOREM TypeCorrect == Spec => []TypeOK
<1>1. IInv => TypeOK
  BY DEF IInv
<1> QED BY <1>1, Invariance, PTL

(* No backend sees an identity that was not in identity.json before.       *)
THEOREM ServedIsPersisted == Spec => []PersistedBeforeServed
<1>1. IInv => PersistedBeforeServed
  BY DEF IInv
<1> QED BY <1>1, Invariance, PTL

(* Once every process agrees with the file no start, kill or restart of    *)
(* LoadIdentity changes it.                                                *)
THEOREM SettledIsStable == Spec => SettledIdentityStays
<1>1. IInv /\ [Next]_vars => [Settled => Settled' /\ file' = file]_vars
  <2> SUFFICES ASSUME IInv, Next, Settled
               PROVE  Settled' /\ file' = file
    BY DEF Settled, vars
  <2> USE DEF Settled, IInv, TypeOK
  <2>1. PICK p \in Procs : Step(p) \/ Kill(p)
    BY DEF Next
  <2>2. CASE Start(p)
    BY <2>2 DEF Start, Goes
  <2>3. CASE Read(p)
    BY <2>3, IdsAssumption DEF Read, Goes, Ends
  <2>4. CASE Listen(p)
    BY <2>4 DEF Listen, Goes, Ends
  <2>5. CASE Kill(p)
    BY <2>5 DEF Kill, Ends
  <2>6. ~Create(p) /\ ~Write(p)
    BY DEF Create, Write, Goes
  <2> QED BY <2>1, <2>2, <2>3, <2>4, <2>5, <2>6 DEF Step
<1> QED BY <1>1, Invariance, PTL DEF Spec, SettledIdentityStays
=============================================================================
