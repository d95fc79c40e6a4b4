----------------------------- MODULE SectorCache -----------------------------
(***************************************************************************)
(* What the exFAT driver expects of its buffer cache: so many sectors, in  *)
(* the order of their last use, of which the oldest makes room for a new   *)
(* one, but none of those that the driver has locked.                      *)
(***************************************************************************)
EXTENDS Naturals, Sequences, SequencesExt

CONSTANTS Size, Sectors, None

VARIABLES slots,   \* the sectors, the last used one first; None is room
          kept     \* the locked sectors

vars == <<slots, kept>>

Init == slots = [k \in 1 .. Size |-> None] /\ kept = {}

ToFront(k, s) == slots' = <<s>> \o RemoveAt(slots, k)
ToEnd(k) == slots' = Append(RemoveAt(slots, k), None)

Hit(s) ==
    /\ \E k \in DOMAIN slots : slots[k] = s /\ ToFront(k, s)
    /\ UNCHANGED kept

\* Room, or the oldest sector that is not locked; a sector that cannot be read
\* leaves room.
Miss(s) ==
    /\ s \notin {slots[k] : k \in DOMAIN slots}
    /\ \E k \in DOMAIN slots :
        /\ slots[k] = None \/ slots[k] \notin kept
        /\ \A j \in k + 1 .. Size : slots[j] # None /\ slots[j] \in kept
        /\ ToFront(k, s) \/ ToEnd(k)
    /\ UNCHANGED kept

Lock(s) ==
    /\ s \in {slots[k] : k \in DOMAIN slots}
    /\ kept' = kept \cup {s}
    /\ UNCHANGED slots

Unlock(s) == kept' = kept \ {s} /\ UNCHANGED slots

Release(s) ==
    /\ \E k \in DOMAIN slots : slots[k] = s /\ ToEnd(k)
    /\ UNCHANGED kept

Clear == slots' = [k \in 1 .. Size |-> None] /\ kept' = {}

Next ==
    \/ \E s \in Sectors : Hit(s) \/ Miss(s) \/ Lock(s) \/ Unlock(s) \/ Release(s)
    \/ Clear

Spec == Init /\ [][Next]_vars
=============================================================================
