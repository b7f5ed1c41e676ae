---------------------------- MODULE EventDelivery ----------------------------
(***************************************************************************)
(* What the order pipeline promises about an order.placed event, stated    *)
(* without outbox, broker or consumer.                                     *)
(*                                                                         *)
(* An order is placed once.  From then on its event is either still on its *)
(* way, or its effect has been applied, or a copy of it is parked where an *)
(* operator finds it (the dead-letter queue or the unroutable queue).  The *)
(* effect is applied at most once and only to a placed order; nothing ever *)
(* takes an order, an effect or a parked copy back.                        *)
(***************************************************************************)
EXTENDS Naturals

CONSTANT Orders

VARIABLES placed,   \* orders whose checkout has committed
          applied,  \* how many times the effect of an order was applied
          parked    \* orders with a copy of the event set aside

vars == <<placed, applied, parked>>

Init == /\ placed = {}
        /\ applied = [o \in Orders |-> 0]
        /\ parked = {}

Place(o) == /\ o \notin placed
            /\ placed' = placed \cup {o}
            /\ UNCHANGED <<applied, parked>>

Apply(o) == /\ o \in placed
            /\ applied[o] = 0
            /\ applied' = [applied EXCEPT ![o] = 1]
            /\ UNCHANGED <<placed, parked>>

\* A closing channel can dead-letter several events in one step.
Park(S) == /\ S \subseteq placed
           /\ parked' = parked \cup S
           /\ UNCHANGED <<placed, applied>>

Next == \/ \E o \in Orders : Place(o) \/ Apply(o)
        \/ \E S \in SUBSET Orders : Park(S)

Spec == Init /\ [][Next]_vars

-----------------------------------------------------------------------------
\* Every placed order is settled in the end: applied, or parked for a human.
EverySettled ==
  \A o \in Orders : o \in placed ~> (applied[o] = 1 \/ o \in parked)

=============================================================================
