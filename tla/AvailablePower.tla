--------------------------- MODULE AvailablePower ---------------------------
(***************************************************************************)
(* The first half of Compute (advice/allocate.go): how much of a site's    *)
(* capacity may be proposed for charging.  An observation is its load and  *)
(* its age; the solar surplus, an output nothing else reads, is left out.  *)
(***************************************************************************)
EXTENDS Integers

CONSTANTS Capacity, SafetyMargin, Fallback, Freshness   \* Policy

ASSUME CapacityAssumption ==
    {Capacity, SafetyMargin, Fallback, Freshness} \subseteq Nat

Unknown == -1        \* a nil SiteLoadKW
NoObservation == [load |-> -2, age |-> 0]

(* Mutant: what is left over may be negative. *)
PositivePart_signed(x) == x

PositivePart(x) == IF x > 0 THEN x ELSE 0

(* Mutant: the power drawn by vehicles counts as other load. *)
non_ev_load_with_ev(load, ev) == IF load = Unknown THEN 0 ELSE load

(* A load the provider did not report is read as 0. *)
non_ev_load(load, ev) == PositivePart((IF load = Unknown THEN 0 ELSE load) - ev)

(* Mutant: the safety margin is not held back from a measured proposal. *)
AvailableForEV_marginless(o, ev) ==
    PositivePart(IF o = NoObservation \/ o.age > Freshness THEN Fallback - SafetyMargin
                 ELSE Capacity - non_ev_load(o.load, ev))

AvailableForEV(o, ev) ==
    PositivePart((IF o = NoObservation \/ o.age > Freshness THEN Fallback
                  ELSE Capacity - non_ev_load(o.load, ev)) - SafetyMargin)
=============================================================================
