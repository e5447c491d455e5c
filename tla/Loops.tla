-------------------------------- MODULE Loops --------------------------------
(***************************************************************************)
(* Two facts about loops of any length, for the proofs about functions     *)
(* that are defined by their turns: what each turn keeps holds after the   *)
(* last (LoopStays), and a loop over states of one set has a history       *)
(* (LoopRuns), so that a function defined by its turns has a value at      *)
(* each.                                                                   *)
(***************************************************************************)
EXTENDS Integers, FiniteSetsExt, WellFoundedInduction, TLAPS

(* A set of naturals that is not empty has a least one.                     *)
LEMMA LeastNat ==
    ASSUME NEW T, T \subseteq Nat, T # {}
    PROVE  \E x \in T : \A y \in T : x <= y
<1> DEFINE R == {ss \in Nat \X Nat : ss[1] < ss[2]}
<1>1. IsWellFoundedOn(R, Nat)
  BY NatLessThanWellFounded DEF OpToRel
<1> HIDE DEF R
<1>2. PICK x \in T : \A y \in T : ~ (<<y, x>> \in R)
  BY <1>1, WFMin
<1>3. \A y \in T : ~ (y < x)
  BY <1>2 DEF R
<1> QED BY <1>2, <1>3

(* The first that passes a test. *)
LEMMA MinIsIn ==
    ASSUME NEW I, I \subseteq Nat, I # {}
    PROVE  Min(I) \in I
<1>1. \E x \in I : \A y \in I : x =< y
  BY LeastNat
<1> QED BY <1>1 DEF Min

(* A set that a loop of n turns never leaves. *)
LEMMA LoopStays ==
    ASSUME NEW n \in Nat, NEW S, 0 \in S, \A i \in 0 .. n - 1 : i \in S => i + 1 \in S
    PROVE  0 .. n \subseteq S
<1> DEFINE T == (0 .. n) \ S
<1> SUFFICES ASSUME T # {} PROVE FALSE
  OBVIOUS
<1>1. T \subseteq Nat
  OBVIOUS
<1> HIDE DEF T
<1>2. PICK x \in T : \A y \in T : x <= y
  BY <1>1, LeastNat
<1>3. x \in Nat /\ x # 0 /\ x - 1 \in 0 .. n - 1 /\ x \notin S
  BY <1>2 DEF T
<1>4. x - 1 \in S
  BY <1>2, <1>3 DEF T
<1>5. (x - 1) + 1 \in S
  BY <1>3, <1>4
<1> QED BY <1>3, <1>5

(* t is the history of a loop of n turns over states in T that starts from *)
(* b; step[i] is what turn i does to the state.                            *)
IsHistory(t, n, T, b, step) ==
    /\ t \in [0 .. n -> T]
    /\ t[0] = b
    /\ \A i \in 1 .. n : t[i] = step[i][t[i - 1]]

LEMMA LoopRuns ==
    ASSUME NEW n \in Nat, NEW T, NEW b \in T, NEW step \in [1 .. n -> [T -> T]]
    PROVE  \E t : IsHistory(t, n, T, b, step)
<1> DEFINE S == {m \in 0 .. n : \E t : IsHistory(t, m, T, b, step)}
<1>1. 0 \in S
  <2> DEFINE t == [i \in 0 .. 0 |-> b]
  <2>1. IsHistory(t, 0, T, b, step)
    BY DEF IsHistory
  <2> HIDE DEF t
  <2> QED BY <2>1
<1>2. ASSUME NEW m \in 0 .. n - 1, m \in S PROVE m + 1 \in S
  <2>1. PICK t : IsHistory(t, m, T, b, step)
    BY <1>2
  <2>2. t \in [0 .. m -> T] /\ t[0] = b /\ \A i \in 1 .. m : t[i] = step[i][t[i - 1]]
    BY <2>1 DEF IsHistory
  <2> DEFINE last == step[m + 1][t[m]]
             u == [i \in 0 .. m + 1 |-> IF i <= m THEN t[i] ELSE last]
  <2>3. last \in T
    <3>1. t[m] \in T /\ m + 1 \in 1 .. n
      BY <2>2
    <3> QED BY <3>1
  <2> HIDE DEF last
  <2>4. u \in [0 .. m + 1 -> T] /\ u[0] = b
    BY <2>2, <2>3
  <2>5. ASSUME NEW i \in 1 .. m + 1 PROVE u[i] = step[i][u[i - 1]]
    <3>1. CASE i <= m
      <4>1. u[i] = t[i] /\ u[i - 1] = t[i - 1] /\ i \in 1 .. m
        BY <3>1
      <4> QED BY <4>1, <2>2
    <3>2. CASE i = m + 1
      <4>1. u[i] = last /\ u[i - 1] = t[m]
        BY <3>2
      <4> QED BY <4>1, <3>2 DEF last
    <3> QED BY <3>1, <3>2
  <2> HIDE DEF u
  <2>6. IsHistory(u, m + 1, T, b, step)
    BY <2>4, <2>5 DEF IsHistory
  <2> QED BY <2>6
<1>3. 0 .. n \subseteq S
  <2> HIDE DEF S
  <2> QED BY <1>1, <1>2, LoopStays
<1> QED BY <1>3
=============================================================================
