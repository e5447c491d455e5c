----------------------------- MODULE EventRelay -----------------------------
(***************************************************************************)
(* What anvil-agent promises of the events of Incus: it passes them on in  *)
(* order, each at most once, and may lose any that it has not passed on,   *)
(* in silence.  EventStream implements it.                                 *)
(***************************************************************************)
EXTENDS Naturals

VARIABLES
    emitted,  \* the number of events so far
    current,  \* the last event that was passed on
    lost      \* the events that never will be

relay == <<emitted, current, lost>>

Init == emitted = 0 /\ current = 0 /\ lost = {}

Emit ==
    /\ emitted' = emitted + 1
    /\ lost' = lost \/ lost' = lost \union {emitted + 1}
    /\ UNCHANGED current

Lose ==
    /\ lost \subseteq lost' /\ lost' \subseteq lost \union (current + 1 .. emitted)
    /\ UNCHANGED <<emitted, current>>

PassOn ==
    /\ current' \in (current + 1 .. emitted) \ lost
    /\ \A e \in current + 1 .. current' - 1 : e \in lost
    /\ UNCHANGED <<emitted, lost>>

Next == Emit \/ Lose \/ PassOn

Spec == Init /\ [][Next]_relay
=============================================================================
