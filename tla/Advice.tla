------------------------------- MODULE Advice -------------------------------
(***************************************************************************)
(* The site charging advice (advice/allocate.go): how the power that is    *)
(* available for charging (AvailablePower) is shared out.                  *)
(*                                                                         *)
(* Compute is a pure function; each turn of the two loops of allocate is a *)
(* step here, so that what holds between the turns can be stated.  Power   *)
(* is an integer: Grain units are the 10 W that round keeps.  A share is   *)
(* only compared where it can be: x <= left / n is x * n <= left.          *)
(***************************************************************************)
EXTENDS AvailablePower, FiniteSets, FiniteSetsExt

CONSTANTS
    Connectors,      \* numbered in the order of (StationID, ConnectorID)
    Requests,        \* the values of RequestedKW
    Loads,           \* the values of SiteLoadKW
    Ages,            \* the ages of an observation, negative in the future
    MaxConnector,    \* Policy.MaxConnectorKW
    MinimumUseful,   \* MinimumUsefulKW
    Grain            \* what round rounds down to

ASSUME PolicyAssumption ==
    /\ Connectors \subseteq Nat /\ IsFiniteSet(Connectors)
    /\ Requests \subseteq Int /\ Loads \subseteq Nat /\ Ages \subseteq Int
    /\ MaxConnector \in Nat /\ MinimumUseful \in Nat \ {0} /\ Grain \in Nat \ {0}

VARIABLES
    requested,    \* connector -> Demand.RequestedKW
    observation,  \* the latest energy observation, or NoObservation
    phase,        \* "satisfy", "share" or "done": which loop runs
    left,         \* remainingKW
    remaining,    \* the connectors without a result
    results       \* connector -> its Allocation, for the others

vars == <<requested, observation, phase, left, remaining, results>>
inputs == <<requested, observation>>

Total(f) == MapThenSumSet(LAMBDA c : f[c], DOMAIN f)

ev_power == Total([c \in DOMAIN requested |-> PositivePart(requested[c])])

available == AvailableForEV(observation, ev_power)

clamp(x) == IF MaxConnector > 0 /\ x > MaxConnector THEN MaxConnector
            ELSE PositivePart(x)

(* Mutant: rounds down to what is worth offering. *)
round_to_useful(x) == (x \div MinimumUseful) * MinimumUseful

round(x) == (x \div Grain) * Grain

Outcome(power, name) == [MaxPower |-> power, Outcome |-> name]

(* The order allocate sorts the demands in. *)
Before(c, d) == \/ requested[c] < requested[d]
                \/ requested[c] = requested[d] /\ c < d

Add(allocations) ==
    results' = [c \in DOMAIN results \cup DOMAIN allocations |->
                    IF c \in DOMAIN allocations THEN allocations[c] ELSE results[c]]

Init ==
    /\ requested \in UNION {[S -> Requests] : S \in SUBSET Connectors}
    /\ observation \in [load : Loads \cup {Unknown}, age : Ages] \cup {NoObservation}
    /\ phase = "satisfy"
    /\ left = available
    /\ remaining = DOMAIN requested
    /\ results = <<>>

fits(c) == clamp(requested[c]) * Cardinality(remaining) <= left

(* Mutant: the budget is not reduced by what was handed out. *)
satisfy_keeps_budget ==
    LET modest == {c \in remaining : fits(c)}
    IN  /\ phase = "satisfy"
        /\ modest # {}
        /\ Add([c \in modest |-> Outcome(round(clamp(requested[c])), "FULL")])
        /\ remaining' = remaining \ modest
        /\ UNCHANGED <<inputs, phase, left>>

(* First loop: everyone asking for no more than an equal share gets it. *)
satisfy ==
    LET modest == {c \in remaining : fits(c)}
    IN  /\ phase = "satisfy"
        /\ modest # {}
        /\ Add([c \in modest |-> Outcome(round(clamp(requested[c])), "FULL")])
        /\ left' = left - Total([c \in modest |-> clamp(requested[c])])
        /\ remaining' = remaining \ modest
        /\ UNCHANGED <<inputs, phase>>

(* Mutant: the second loop is entered only with somebody left over. *)
nobody_satisfied_of_some ==
    /\ phase = "satisfy" /\ remaining # {}
    /\ \A c \in remaining : ~fits(c)
    /\ phase' = "share"
    /\ UNCHANGED <<inputs, left, remaining, results>>

nobody_satisfied ==
    /\ phase = "satisfy"
    /\ \A c \in remaining : ~fits(c)
    /\ phase' = "share"
    /\ UNCHANGED <<inputs, left, remaining, results>>

(* Mutant: the share counts the satisfied connectors too. *)
equal_share_of_all == left \div Cardinality(DOMAIN requested)

equal_share == left \div Cardinality(remaining)

(* Second loop: the rest share equally, if a share is worth having ... *)
share_rest ==
    /\ phase = "share" /\ remaining # {}
    /\ left >= MinimumUseful * Cardinality(remaining)
    /\ Add([c \in remaining |-> Outcome(round(clamp(equal_share)), "LIMITED")])
    /\ remaining' = {}
    /\ UNCHANGED <<inputs, phase, left>>

(* ... else the last in the order is paused, and the others try again. *)
pause ==
    /\ phase = "share"
    /\ left < MinimumUseful * Cardinality(remaining)
    /\ \E c \in remaining : /\ \A d \in remaining \ {c} : Before(d, c)
                            /\ Add([d \in {c} |-> Outcome(0, "PAUSED")])
                            /\ remaining' = remaining \ {c}
    /\ UNCHANGED <<inputs, phase, left>>

finish ==
    /\ phase = "share" /\ remaining = {}
    /\ phase' = "done"
    /\ UNCHANGED <<inputs, left, remaining, results>>

Next == satisfy \/ nobody_satisfied \/ share_rest \/ pause \/ finish

Spec == Init /\ [][Next]_vars /\ WF_vars(Next)

-----------------------------------------------------------------------------
Given == Total([c \in DOMAIN results |-> results[c].MaxPower])
Ended(outcome) == {c \in DOMAIN results : results[c].Outcome = outcome}

(* The proposals never add up to more than the site was found to have, nor *)
(* does one exceed the cap of a connector, although a share grows whenever *)
(* somebody is paused.  Between the turns, what was given and what is left *)
(* fit together.                                                           *)
WithinLimits ==
    /\ left >= 0
    /\ Given + (IF remaining = {} THEN 0 ELSE left) <= available
    /\ MaxConnector > 0 => \A c \in DOMAIN results : results[c].MaxPower <= MaxConnector

(* Nobody is offered more than a connector that is limited: the loops      *)
(* compute the max-min fair share.                                         *)
FairShare ==
    \A c \in Ended("LIMITED") : \A d \in DOMAIN results :
        results[d].MaxPower <= results[c].MaxPower

(* "A slow charger cannot hold capacity that a fast one could use": when   *)
(* somebody is limited and nobody paused, only rounding is left over.      *)
NothingWasted ==
    (phase = "done" /\ Ended("LIMITED") # {} /\ Ended("PAUSED") = {}) =>
        available - Given < Grain * Cardinality(DOMAIN requested)

(* Both loops end, and with an answer for every connector that asked. *)
EveryoneIsAnswered == <>(phase = "done" /\ DOMAIN results = DOMAIN requested)
=============================================================================
