----------------------------- MODULE SiteAdvice -----------------------------
(***************************************************************************)
(* How a site's proposal comes about over time (advice/publisher.go): the  *)
(* replicas of the control plane read the demand and the energy            *)
(* observation one after the other, compute, and publish to a stream that  *)
(* keeps one message per site, while the site itself goes on changing.     *)
(*                                                                         *)
(* One site with one connector.  What the connectors share is in Advice;   *)
(* chargingAdvice (httpapi) takes the same steps without the publishing.   *)
(***************************************************************************)
EXTENDS AvailablePower, FiniteSets

CONSTANTS
    Replicas,    \* processes of the control plane, each with a Publisher
    Draws,       \* what the connector may draw, 0 when it does not charge
    OtherLoads,  \* what the rest of the site may draw
    Window,      \* activeWithin
    MaxTime,     \* bound: the clock
    MaxChanges,  \* bound: how often the site changes
    MaxSamples,  \* bound: observations of the provider
    MaxPending   \* bound: readings taken and not yet stored

ASSUME SiteAssumption ==
    /\ Draws \cup OtherLoads \subseteq Nat
    /\ Window \in Nat \ {0}
    /\ {MaxTime, MaxChanges, MaxSamples, MaxPending} \subseteq Nat

VARIABLES
    now,
    draw, other,   \* the site: what is drawn at this moment
    changed,       \* when either last changed
    changes,       \* how often
    samples,       \* observations the provider published, any may be redelivered
    pending,       \* readings the station took that are on their way to the store
    reported,      \* ingested_at of the newest row of telemetry
    charging,      \* its newest row in one of the chargingStates
    observations,  \* observed_at of the rows of energy_observations
    latest,        \* the row that arrived last
    round,         \* per replica: where publishSite is and what it has read
    proposal       \* the site's message in ORVOLT_ADVICE

site == <<draw, other, changed, changes>>
database == <<reported, charging, observations, latest>>
outside == <<samples, pending>>
vars == <<now, site, outside, database, round, proposal>>

Never == -(Window + Freshness + 1)
NoReading == [power |-> 0, taken |-> Never, at |-> Never]
NoSample == [load |-> 0, at |-> Never]
Idle == [pc |-> "idle"]
NoProposal == [at |-> 0, available |-> 0, non_ev |-> 0, demand |-> NoReading, sample |-> NoSample]

Init ==
    /\ now = 0 /\ changed = 0 /\ changes = 0
    /\ draw \in Draws /\ other \in OtherLoads
    /\ samples = {} /\ pending = {}
    /\ reported = Never /\ charging = NoReading
    /\ observations = {} /\ latest = NoSample
    /\ round = [r \in Replicas |-> Idle]
    /\ proposal = NoProposal

-----------------------------------------------------------------------------
(* The site and the energy provider, which are not part of the repository. *)

tick ==
    /\ now < MaxTime
    /\ now' = now + 1
    /\ UNCHANGED <<site, outside, database, round, proposal>>

site_changes ==
    /\ changes < MaxChanges /\ changes' = changes + 1
    /\ draw' \in Draws /\ other' \in OtherLoads
    /\ <<draw', other'>> # <<draw, other>>
    /\ changed' = now
    /\ UNCHANGED <<now, outside, database, round, proposal>>

(* A provider may leave the load out; the other fields it reports are not  *)
(* part of the proposal.                                                   *)
observe ==
    /\ Cardinality(samples) < MaxSamples
    /\ \A o \in samples : o.at # now
    /\ \E load \in {draw + other, Unknown} :
          samples' = samples \cup {[load |-> load, at |-> now]}
    /\ UNCHANGED <<now, site, pending, database, round, proposal>>

(* The station takes a reading; agent, spool and broker may keep it long.  *)
take_reading ==
    /\ Cardinality(pending) < MaxPending
    /\ pending' = pending \cup {[power |-> draw, taken |-> now]}
    /\ UNCHANGED <<now, site, samples, database, round, proposal>>

-----------------------------------------------------------------------------
(* A reading of the connector is stored, however old and in whatever       *)
(* order, with the time it arrives; one that does not charge leaves the    *)
(* newest charging row, which is the one ListSiteDemand selects.           *)
PersistTelemetry(m) ==
    /\ pending' = pending \ {m}
    /\ reported' = now
    /\ charging' = IF m.power > 0 THEN [power |-> m.power, taken |-> m.taken, at |-> now]
                   ELSE charging
    /\ UNCHANGED <<now, site, samples, observations, latest, round, proposal>>

(* insertEnergyObservationSQL: a second delivery does nothing. *)
PersistEnergyObservation(o) ==
    /\ o.at \notin observations
    /\ observations' = observations \cup {o.at}
    /\ latest' = o
    /\ UNCHANGED <<now, site, outside, reported, charging, round, proposal>>

ListSiteDemand == IF charging.at > now - Window THEN charging ELSE NoReading

ListActiveSites == reported > now - Window

read_demand(r) ==
    /\ round[r] = Idle
    /\ ListActiveSites
    /\ round' = [round EXCEPT ![r] = [pc |-> "observation", demand |-> ListSiteDemand]]
    /\ UNCHANGED <<now, site, outside, database, proposal>>

(* Mutant: the age of an observation is not looked at. *)
Observation_ageless(o) ==
    IF o = NoSample THEN NoObservation ELSE [load |-> o.load, age |-> 0]

Observation(o) ==
    IF o = NoSample THEN NoObservation ELSE [load |-> o.load, age |-> now - o.at]

(* A query that fails counts as no observation. *)
Compute(r) ==
    /\ round[r].pc = "observation"
    /\ \E o \in {latest, NoSample} :
          LET ev == round[r].demand.power
          IN  round' = [round EXCEPT ![r] =
                 [pc |-> "publish",
                  advice |-> [at |-> now, available |-> AvailableForEV(Observation(o), ev),
                              non_ev |-> non_ev_load(o.load, ev),
                              demand |-> round[r].demand, sample |-> o]]]
    /\ UNCHANGED <<now, site, outside, database, proposal>>

(* MaxMsgsPerSubject: the message replaces the one before. *)
Publish(r) ==
    /\ round[r].pc = "publish"
    /\ proposal' = round[r].advice
    /\ round' = [round EXCEPT ![r] = Idle]
    /\ UNCHANGED <<now, site, outside, database>>

PublishFails(r) ==
    /\ round[r].pc = "publish"
    /\ round' = [round EXCEPT ![r] = Idle]
    /\ UNCHANGED <<now, site, outside, database, proposal>>

publishSite(r) == read_demand(r) \/ Compute(r) \/ Publish(r) \/ PublishFails(r)

Next == \/ tick \/ site_changes \/ observe \/ take_reading
        \/ \E m \in pending : PersistTelemetry(m)
        \/ \E o \in samples : PersistEnergyObservation(o)
        \/ \E r \in Replicas : publishSite(r)

Spec == Init /\ [][Next]_vars

-----------------------------------------------------------------------------
Reading == [power : Draws, taken : 0..MaxTime, at : 0..MaxTime] \cup {NoReading}
Sample == [load : {Unknown} \cup Nat, at : 0..MaxTime] \cup {NoSample}
Proposal == [at : 0..MaxTime, available : 0..Capacity \cup 0..Fallback, non_ev : Nat,
             demand : Reading, sample : Sample]

(* A proposal offers at most what the policy has, and quotes a reading and *)
(* an observation that were stored.                                        *)
TypeOK ==
    /\ now \in 0..MaxTime /\ changed \in 0..now /\ changes \in 0..MaxChanges
    /\ draw \in Draws /\ other \in OtherLoads
    /\ samples \subseteq Sample \ {NoSample}
    /\ pending \subseteq [power : Draws, taken : 0..now]
    /\ reported \in 0..now \cup {Never}
    /\ charging \in Reading /\ latest \in Sample
    /\ observations \subseteq {o.at : o \in samples}
    /\ round \in [Replicas -> {Idle} \cup [pc : {"observation"}, demand : Reading]
                                     \cup [pc : {"publish"}, advice : Proposal]]
    /\ proposal \in Proposal

Measured(p) == p.sample # NoSample /\ p.at - p.sample.at <= Freshness

(* A measured proposal that knew the load, when nothing at the site has    *)
(* changed since the observation and the reading it used were taken.       *)
Steady(p) == /\ Measured(p) /\ p.sample.load # Unknown
             /\ p.sample.at > changed
             /\ p.demand = NoReading \/ p.demand.taken > changed

(* A proposal for a site that has not changed leaves the safety margin     *)
(* free next to the other loads, in whatever order the replicas read and   *)
(* publish and whichever readings and observations were late or had        *)
(* expired.  The load has to be known: Compute takes one the provider left *)
(* out for 0 and offers the whole capacity.                                *)
SteadyIsSafe ==
    Steady(proposal) /\ proposal.available > 0 =>
        proposal.available + other <= Capacity - SafetyMargin

(* "Adding the headroom back to the current charging draw is what makes    *)
(* the result a total" (allocate.go): a site that is within its limit and  *)
(* has not changed is never told to charge less than it does.              *)
SteadyIsNotReduced ==
    /\ Steady(proposal) /\ proposal.demand # NoReading
    /\ draw + other <= Capacity - SafetyMargin
    => proposal.available >= draw

(* A provider outage degrades the proposal: when the provider had made no  *)
(* observation within Freshness of the moment of computing, the proposal   *)
(* is within the fallback, whatever arrived late or out of order.          *)
OutageFallsBack ==
    (\A o \in samples : ~(proposal.at - Freshness <= o.at /\ o.at <= proposal.at)) =>
        proposal.available <= PositivePart(Fallback - SafetyMargin)
=============================================================================
