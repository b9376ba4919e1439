-------------------------- MODULE SiteAdviceProofs --------------------------
(***************************************************************************)
(* Proofs about SiteAdvice, for any policy, any number of replicas and any *)
(* range of draws and loads: a proposal for a steady site keeps the safety *)
(* margin and takes nothing away, and without observations the proposal    *)
(* falls back.                                                             *)
(***************************************************************************)
EXTENDS SiteAdvice, TLAPS

USE CapacityAssumption, SiteAssumption

(* A reading, or an observation, that is younger than the site's last      *)
(* change describes the site as it is.                                     *)
ReadingOK(d) == d.taken <= now /\ (d.taken > changed => d.power = draw)
SampleOK(o) == o.at <= now /\ (o.at > changed => o.load \in {draw + other, Unknown})

(* The observation as Compute took it. *)
Quoted(p) ==
    IF p.sample = NoSample THEN NoObservation
    ELSE [load |-> p.sample.load, age |-> p.at - p.sample.at]

(* A proposal is what Compute makes of the reading and the observation it  *)
(* quotes, both made before it.                                            *)
ProposalOK(p) ==
    /\ p.sample \in samples \cup {NoSample}
    /\ p.sample.at <= p.at /\ p.at <= now
    /\ ReadingOK(p.demand)
    /\ \/ p = NoProposal
       \/ p.available = AvailableForEV(Quoted(p), p.demand.power)

(* Everything a replica has read, computed or published goes back to what  *)
(* the site was at the time.                                               *)
Consistent ==
    /\ \A o \in samples : SampleOK(o)
    /\ latest \in samples \cup {NoSample}
    /\ \A m \in pending : ReadingOK(m)
    /\ ReadingOK(charging)
    /\ \A r \in Replicas : round[r].pc = "observation" => ReadingOK(round[r].demand)
    /\ \A r \in Replicas : round[r].pc = "publish" => ProposalOK(round[r].advice)
    /\ ProposalOK(proposal)

Inv == TypeOK /\ Consistent

-----------------------------------------------------------------------------
(* What the arithmetic of Compute yields: a number between 0 and what the  *)
(* policy has.                                                             *)
LEMMA AvailableRange ==
    ASSUME NEW o \in [load : Int, age : Int], NEW ev \in Nat
    PROVE  AvailableForEV(o, ev) \in 0..Capacity \cup 0..Fallback
BY DEF AvailableForEV, non_ev_load, PositivePart, Unknown, NoObservation

(* A fresh observation of a known load leaves, next to the load that is    *)
(* not charging, exactly the safety margin, if it leaves anything.         *)
LEMMA AvailableFresh ==
    ASSUME NEW load \in Nat, NEW age \in Int, age <= Freshness, NEW ev \in Nat
    PROVE  /\ AvailableForEV([load |-> load, age |-> age], ev) > 0 =>
                AvailableForEV([load |-> load, age |-> age], ev)
                    + PositivePart(load - ev) = Capacity - SafetyMargin
           /\ AvailableForEV([load |-> load, age |-> age], ev)
                    >= Capacity - SafetyMargin - PositivePart(load - ev)
<1>1. [load |-> load, age |-> age] # NoObservation
  BY DEF NoObservation
<1> QED
  BY <1>1 DEF AvailableForEV, non_ev_load, PositivePart, Unknown

(* A missing or an old observation leaves the fallback less the margin. *)
LEMMA AvailableStale ==
    ASSUME NEW o, NEW ev, o = NoObservation \/ o.age > Freshness
    PROVE  AvailableForEV(o, ev) = PositivePart(Fallback - SafetyMargin)
BY DEF AvailableForEV

(* The two placeholders are older than anything. *)
LEMMA NeverFacts ==
    /\ Never \in Int /\ Never < 0
    /\ NoReading \in [power : Nat, taken : Int, at : Int]
    /\ NoSample \in [load : Int, at : Int]
BY DEF Never, NoReading, NoSample

(* The types of what is read. *)
LEMMA ReadTypes ==
    /\ Reading \subseteq [power : Nat, taken : Int, at : Int]
    /\ Sample \subseteq [load : Int, at : Int]
BY NeverFacts DEF Reading, Sample, Unknown

-----------------------------------------------------------------------------
(* The start satisfies the invariant: nothing is stored or published. *)
LEMMA InitInv == Init => Inv
<1> SUFFICES ASSUME Init PROVE Inv
  OBVIOUS
<1>1. TypeOK
  <2>1. NoReading \in Reading /\ NoSample \in Sample
    BY DEF Reading, Sample
  <2>2. NoProposal \in Proposal
    BY <2>1 DEF NoProposal, Proposal
  <2> QED
    BY <2>1, <2>2 DEF Init, TypeOK
<1>2. ReadingOK(NoReading)
  BY NeverFacts DEF ReadingOK, NoReading, Init
<1>3. ProposalOK(NoProposal)
  BY <1>2, NeverFacts DEF ProposalOK, NoProposal, NoSample, Init
<1>4. Consistent
  BY <1>2, <1>3 DEF Init, Consistent, Idle
<1> QED
  BY <1>1, <1>4 DEF Inv

(* The steps of the site and of the provider, and the writes to the        *)
(* database, keep the types.                                               *)
LEMMA TypeWorld ==
    ASSUME TypeOK,
           \/ tick \/ site_changes \/ observe \/ take_reading
           \/ \E m \in pending : PersistTelemetry(m)
           \/ \E o \in samples : PersistEnergyObservation(o)
    PROVE  TypeOK'
<1>1. CASE tick
  <2>1. pending \subseteq [power : Draws, taken : 0..now']
    BY <1>1 DEF tick, TypeOK
  <2> QED
    BY <1>1, <2>1 DEF tick, TypeOK, site, outside, database
<1>2. CASE site_changes
  BY <1>2 DEF site_changes, TypeOK, outside, database
<1>3. CASE observe
  <2>1. PICK load \in {draw + other, Unknown} :
          samples' = samples \cup {[load |-> load, at |-> now]}
    BY <1>3, Zenon DEF observe
  <2> DEFINE o == [load |-> load, at |-> now]
  <2>2. o \in Sample
    BY DEF TypeOK, Sample
  <2>3. o # NoSample
    BY NeverFacts DEF TypeOK, NoSample
  <2>4. samples' = samples \cup {o}
    BY <2>1
  <2> HIDE DEF o
  <2> QED
    BY <1>3, <2>2, <2>3, <2>4 DEF observe, TypeOK, site, database
<1>4. CASE take_reading
  <2>1. pending' \subseteq [power : Draws, taken : 0..now]
    BY <1>4 DEF take_reading, TypeOK
  <2> QED
    BY <1>4, <2>1 DEF take_reading, TypeOK, site, database
<1>5. ASSUME NEW o \in samples, PersistEnergyObservation(o) PROVE TypeOK'
  BY <1>5 DEF PersistEnergyObservation, TypeOK, site, outside
<1>6. ASSUME NEW m \in pending, PersistTelemetry(m) PROVE TypeOK'
  <2>1. charging' \in Reading
    BY <1>6 DEF PersistTelemetry, TypeOK, Reading
  <2> QED
    BY <1>6, <2>1 DEF PersistTelemetry, TypeOK, site
<1> QED
  BY <1>1, <1>2, <1>3, <1>4, <1>5, <1>6

(* Compute makes a proposal of the right type. *)
LEMMA ComputedType ==
    ASSUME TypeOK, NEW o \in {latest, NoSample}, NEW d \in Reading
    PROVE  [at |-> now, available |-> AvailableForEV(Observation(o), d.power),
            non_ev |-> non_ev_load(o.load, d.power), demand |-> d, sample |-> o] \in Proposal
<1>1. o \in Sample /\ o.load \in Int /\ o.at \in Int /\ d.power \in Nat
  BY ReadTypes DEF TypeOK, Sample
<1>2. Observation(o) \in [load : Int, age : Int]
  BY <1>1 DEF Observation, NoObservation, TypeOK
<1>3. AvailableForEV(Observation(o), d.power) \in 0..Capacity \cup 0..Fallback
  BY <1>1, <1>2, AvailableRange
<1>4. non_ev_load(o.load, d.power) \in Nat
  BY <1>1 DEF non_ev_load, PositivePart, Unknown
<1> QED
  BY <1>1, <1>3, <1>4 DEF Proposal, TypeOK

(* The steps of publishSite keep the types. *)
LEMMA TypePublish ==
    ASSUME TypeOK, NEW r \in Replicas, publishSite(r)
    PROVE  TypeOK'
<1> DEFINE Rounds == {Idle} \cup [pc : {"observation"}, demand : Reading]
                            \cup [pc : {"publish"}, advice : Proposal]
<1>0. round \in [Replicas -> Rounds] /\ round[r] \in Rounds
  BY DEF TypeOK
<1>1. CASE read_demand(r)
  <2>1. ListSiteDemand \in Reading
    BY DEF ListSiteDemand, TypeOK, Reading
  <2>2. round' \in [Replicas -> Rounds]
    BY <1>0, <1>1, <2>1 DEF read_demand
  <2> QED
    BY <1>1, <2>2 DEF read_demand, TypeOK, site, outside, database
<1>2. CASE Compute(r)
  <2>1. round[r].demand \in Reading
    BY <1>0, <1>2 DEF Compute, Idle
  <2>2. PICK o \in {latest, NoSample} :
          round' = [round EXCEPT ![r] =
                 [pc |-> "publish",
                  advice |-> [at |-> now,
                              available |-> AvailableForEV(Observation(o), round[r].demand.power),
                              non_ev |-> non_ev_load(o.load, round[r].demand.power),
                              demand |-> round[r].demand, sample |-> o]]]
    BY <1>2, Zenon DEF Compute
  <2>3. round' \in [Replicas -> Rounds]
    BY <1>0, <2>1, <2>2, ComputedType
  <2> QED
    BY <1>2, <2>3 DEF Compute, TypeOK, site, outside, database
<1>3. CASE Publish(r)
  <2>1. round[r].advice \in Proposal
    BY <1>0, <1>3 DEF Publish, Idle
  <2>2. round' \in [Replicas -> Rounds]
    BY <1>0, <1>3 DEF Publish
  <2> QED
    BY <1>3, <2>1, <2>2 DEF Publish, TypeOK, site, outside, database
<1>4. CASE PublishFails(r)
  <2>1. round' \in [Replicas -> Rounds]
    BY <1>0, <1>4 DEF PublishFails
  <2> QED
    BY <1>4, <2>1 DEF PublishFails, TypeOK, site, outside, database
<1> QED
  BY <1>1, <1>2, <1>3, <1>4 DEF publishSite

-----------------------------------------------------------------------------
(* As time passes and the site changes, what described the site still      *)
(* describes it or is older than the change.                               *)
LEMMA Ageing ==
    ASSUME TypeOK,
           now' = now \/ now' = now + 1,
           samples \subseteq samples',
           \/ changed' = changed /\ draw' = draw /\ other' = other
           \/ changed' = now
    PROVE  /\ \A d \in Reading \cup pending : ReadingOK(d) => ReadingOK(d)'
           /\ \A o \in Sample : SampleOK(o) => SampleOK(o)'
           /\ \A p \in Proposal : ProposalOK(p) => ProposalOK(p)'
<1>1. now \in Int /\ changed \in Int
  BY DEF TypeOK
<1>2. \A d \in Reading \cup pending : ReadingOK(d) => ReadingOK(d)'
  <2>1. \A d \in Reading \cup pending : d.taken \in Int
    BY ReadTypes DEF TypeOK
  <2> QED
    BY <1>1, <2>1 DEF ReadingOK
<1>3. \A o \in Sample : SampleOK(o) => SampleOK(o)'
  BY <1>1, ReadTypes DEF SampleOK
<1>4. \A p \in Proposal : ProposalOK(p) => ProposalOK(p)'
  <2> TAKE p \in Proposal
  <2>1. p.at \in Int /\ p.demand \in Reading
    BY DEF Proposal
  <2> QED
    BY <1>1, <1>2, <2>1 DEF ProposalOK
<1> QED
  BY <1>2, <1>3, <1>4

(* Steps of the site and the provider leave everything consistent. *)
LEMMA ConsistentSite ==
    ASSUME Inv, tick \/ site_changes \/ observe \/ take_reading
    PROVE  Consistent'
<1>1. /\ \A d \in Reading \cup pending : ReadingOK(d) => ReadingOK(d)'
      /\ \A o \in Sample : SampleOK(o) => SampleOK(o)'
      /\ \A p \in Proposal : ProposalOK(p) => ProposalOK(p)'
  BY Ageing DEF Inv, tick, site_changes, observe, take_reading, site, outside
<1>2. /\ UNCHANGED <<charging, latest, round, proposal>>
      /\ samples \subseteq samples'
  BY DEF tick, site_changes, observe, take_reading, outside, database
<1>3. \A r \in Replicas :
        /\ round[r].pc = "observation" => round[r].demand \in Reading
        /\ round[r].pc = "publish" => round[r].advice \in Proposal
  BY DEF Inv, TypeOK, Idle
<1>4. \A o \in samples' : SampleOK(o)'
  <2>1. ASSUME NEW o \in samples PROVE SampleOK(o)'
    BY <1>1, <2>1 DEF Inv, TypeOK, Consistent
  <2>2. ASSUME NEW o \in samples', o \notin samples PROVE SampleOK(o)'
    <3>1. o.load \in {draw + other, Unknown} /\ o.at = now /\ observe
      BY <2>2 DEF tick, site_changes, observe, take_reading, outside
    <3>2. now' = now /\ draw' = draw /\ other' = other /\ now \in Int
      BY <3>1 DEF observe, site, Inv, TypeOK
    <3> QED
      BY <3>1, <3>2 DEF SampleOK
  <2> QED
    BY <2>1, <2>2
<1>5. ASSUME NEW m \in pending' PROVE ReadingOK(m)'
  <2>1. CASE m \in pending
    BY <1>1, <2>1 DEF Inv, Consistent
  <2>2. CASE m \notin pending
    <3>1. m.power = draw /\ m.taken = now /\ take_reading
      BY <1>5, <2>2 DEF tick, site_changes, observe, take_reading, outside
    <3>2. now' = now /\ draw' = draw /\ now \in Int
      BY <3>1 DEF take_reading, site, Inv, TypeOK
    <3> QED
      BY <3>1, <3>2 DEF ReadingOK
  <2> QED
    BY <2>1, <2>2
<1>6. ReadingOK(charging)' /\ ProposalOK(proposal)'
  BY <1>1, <1>2 DEF Inv, TypeOK, Consistent, ReadingOK, ProposalOK
<1>7. ASSUME NEW r \in Replicas
      PROVE  /\ round'[r].pc = "observation" => ReadingOK(round[r].demand)'
             /\ round'[r].pc = "publish" => ProposalOK(round[r].advice)'
  BY <1>1, <1>2, <1>3 DEF Inv, Consistent, ReadingOK, ProposalOK
<1> QED
  BY <1>2, <1>4, <1>5, <1>6, <1>7 DEF Inv, Consistent

(* The writes to the database copy a reading or an observation. *)
LEMMA ConsistentStore ==
    ASSUME Inv,
           \/ \E m \in pending : PersistTelemetry(m)
           \/ \E o \in samples : PersistEnergyObservation(o)
    PROVE  Consistent'
<1>1. UNCHANGED <<now, site, samples, round, proposal>> /\ pending' \subseteq pending
  BY DEF PersistTelemetry, PersistEnergyObservation, outside
<1>2. ReadingOK(charging)' /\ latest' \in samples \cup {NoSample}
  BY DEF PersistTelemetry, PersistEnergyObservation, Inv, TypeOK, Consistent, ReadingOK, site
<1> QED
  BY <1>1, <1>2 DEF Inv, Consistent, ReadingOK, SampleOK, ProposalOK, site

(* The steps of publishSite quote what is stored. *)
LEMMA ConsistentPublish ==
    ASSUME Inv, NEW r \in Replicas, publishSite(r)
    PROVE  Consistent'
<1>1. UNCHANGED <<now, site, samples, pending, latest, charging>>
  BY DEF publishSite, read_demand, Compute, Publish, PublishFails, outside, database
<1>2. round \in [Replicas -> {Idle} \cup [pc : {"observation"}, demand : Reading]
                                    \cup [pc : {"publish"}, advice : Proposal]]
  BY DEF Inv, TypeOK
<1>3. /\ \A o \in samples' : SampleOK(o)'
      /\ latest' \in samples' \cup {NoSample} /\ ReadingOK(charging)'
      /\ \A m \in pending' : ReadingOK(m)'
  BY <1>1 DEF Inv, Consistent, SampleOK, ReadingOK, site
<1>4. ASSUME NEW x, round' = [round EXCEPT ![r] = x],
             x.pc = "observation" => ReadingOK(x.demand),
             x.pc = "publish" => ProposalOK(x.advice),
             NEW p, proposal' = p, ProposalOK(p)
      PROVE  Consistent'
  <2>1. round'[r] = x /\ \A q \in Replicas : q # r => round'[q] = round[q]
    BY <1>2, <1>4
  <2>2. ASSUME NEW q \in Replicas, round'[q].pc = "observation"
        PROVE  ReadingOK(round[q].demand)'
    <3>1. PICK d : d = round'[q].demand /\ ReadingOK(d)
      BY <1>4, <2>1, <2>2 DEF Inv, Consistent
    <3> QED
      BY <1>1, <3>1 DEF ReadingOK, site
  <2>3. ASSUME NEW q \in Replicas, round'[q].pc = "publish"
        PROVE  ProposalOK(round[q].advice)'
    <3>1. PICK a : a = round'[q].advice /\ ProposalOK(a)
      BY <1>4, <2>1, <2>3 DEF Inv, Consistent
    <3> QED
      BY <1>1, <3>1 DEF ProposalOK, ReadingOK, site
  <2>4. ProposalOK(proposal)'
    BY <1>1, <1>4 DEF ProposalOK, ReadingOK, site
  <2> QED
    BY <1>3, <2>2, <2>3, <2>4 DEF Consistent
<1>5. ProposalOK(proposal)
  BY DEF Inv, Consistent
<1>6. CASE read_demand(r)
  <2>1. ReadingOK(ListSiteDemand)
    <3>1. now \in Nat /\ changed \in Nat /\ ReadingOK(charging)
      BY DEF Inv, TypeOK, Consistent
    <3>2. ReadingOK(NoReading)
      BY <3>1, NeverFacts DEF NoReading, ReadingOK
    <3> QED
      BY <3>1, <3>2 DEF ListSiteDemand
  <2>2. round' = [round EXCEPT ![r] = [pc |-> "observation", demand |-> ListSiteDemand]]
        /\ proposal' = proposal
    BY <1>6 DEF read_demand
  <2> QED
    BY <1>4, <1>5, <2>1, <2>2, Zenon
<1>7. CASE Compute(r)
  <2> DEFINE d == round[r].demand
             Advice(o) == [at |-> now, available |-> AvailableForEV(Observation(o), d.power),
                           non_ev |-> non_ev_load(o.load, d.power),
                           demand |-> d, sample |-> o]
  <2>1. PICK o \in {latest, NoSample} :
          round' = [round EXCEPT ![r] = [pc |-> "publish", advice |-> Advice(o)]]
    BY <1>7, Zenon DEF Compute
  <2>2. ReadingOK(d) /\ proposal' = proposal
    BY <1>7 DEF Compute, Inv, Consistent
  <2>3. o \in samples \cup {NoSample} /\ o.at <= now
    BY NeverFacts DEF Inv, Consistent, SampleOK, TypeOK, NoSample
  <2>4. Quoted(Advice(o)) = Observation(o)
    BY DEF Quoted, Observation
  <2>5. ProposalOK(Advice(o))
    <3>1. now <= now
      BY DEF Inv, TypeOK
    <3>2. PICK p : p = Advice(o)
      BY Zenon
    <3>3. /\ p.at = now /\ p.demand = d /\ p.sample = o
          /\ p.available = AvailableForEV(Observation(o), d.power)
      BY <3>2, Zenon
    <3>4. Quoted(p) = Observation(o)
      BY <2>4, <3>2, Zenon
    <3>5. ProposalOK(p)
      BY <2>2, <2>3, <3>1, <3>3, <3>4, Zenon DEF ProposalOK
    <3> QED
      BY <3>2, <3>5, Zenon
  <2> QED
    BY <1>4, <1>5, <2>1, <2>2, <2>5, Zenon
<1>8. CASE Publish(r)
  <2>1. ProposalOK(round[r].advice)
    BY <1>8, Zenon DEF Publish, Inv, Consistent
  <2>2. proposal' = round[r].advice /\ round' = [round EXCEPT ![r] = Idle]
    BY <1>8 DEF Publish
  <2> QED
    BY <1>4, <2>1, <2>2, Zenon DEF Idle
<1>9. CASE PublishFails(r)
  <2>1. proposal' = proposal /\ round' = [round EXCEPT ![r] = Idle]
    BY <1>9 DEF PublishFails
  <2> QED
    BY <1>4, <1>5, <2>1, Zenon DEF Idle
<1> QED
  BY <1>6, <1>7, <1>8, <1>9 DEF publishSite

(* The invariant holds of every reachable state. *)
THEOREM SiteInvariant == Spec => []Inv
<1>1. Inv /\ [Next]_vars => Inv'
  <2> SUFFICES ASSUME Inv, [Next]_vars PROVE Inv'
    OBVIOUS
  <2>1. CASE UNCHANGED vars
    <3>1. /\ UNCHANGED <<now, draw, other, changed, changes, samples, pending, reported>>
          /\ UNCHANGED <<charging, observations, latest, round, proposal>>
      BY <2>1, Zenon DEF vars, site, outside, database
    <3>2. TypeOK'
      BY <3>1, Zenon DEF Inv, TypeOK
    <3>3. Consistent'
      BY <3>1, Zenon DEF Inv, Consistent, ReadingOK, SampleOK, ProposalOK
    <3> QED
      BY <3>2, <3>3, Zenon DEF Inv
  <2>2. CASE tick \/ site_changes \/ observe \/ take_reading
    BY <2>2, TypeWorld, ConsistentSite DEF Inv
  <2>3. CASE \/ \E m \in pending : PersistTelemetry(m)
             \/ \E o \in samples : PersistEnergyObservation(o)
    BY <2>3, TypeWorld, ConsistentStore DEF Inv
  <2>4. ASSUME NEW r \in Replicas, publishSite(r) PROVE Inv'
    BY <2>4, TypePublish, ConsistentPublish DEF Inv
  <2> QED
    BY <2>1, <2>2, <2>3, <2>4 DEF Next
<1> QED
  BY <1>1, InitInv, PTL DEF Spec

-----------------------------------------------------------------------------
(* What a measured proposal for a steady site was computed from. *)
LEMMA SteadyFacts ==
    ASSUME Inv, Steady(proposal)
    PROVE  /\ proposal.sample.load = draw + other
           /\ proposal.demand.power \in {0, draw}
           /\ proposal.demand # NoReading => proposal.demand.power = draw
           /\ \E age \in Int :
                /\ age <= Freshness
                /\ proposal.available =
                     AvailableForEV([load |-> draw + other, age |-> age], proposal.demand.power)
<1> DEFINE p == proposal
<1>1. /\ p.sample # NoSample /\ p.sample \in samples
      /\ p.at - p.sample.at <= Freshness /\ p.sample.at > changed
      /\ p.sample.load # Unknown
  BY DEF Inv, Consistent, ProposalOK, Steady, Measured
<1>2. p.sample.load = draw + other
  BY <1>1 DEF Inv, Consistent, SampleOK
<1>3. p.demand = NoReading \/ p.demand.power = draw
  BY DEF Inv, Consistent, ProposalOK, ReadingOK, Steady
<1>4. p # NoProposal
  BY <1>1 DEF NoProposal
<1>5. p.available = AvailableForEV([load |-> draw + other, age |-> p.at - p.sample.at],
                                   p.demand.power)
  BY <1>1, <1>2, <1>4, SMTT(30) DEF Inv, Consistent, ProposalOK, Quoted
<1>6. p.at - p.sample.at \in Int
  BY ReadTypes DEF Inv, TypeOK, Proposal
<1> QED
  BY <1>1, <1>2, <1>3, <1>5, <1>6 DEF NoReading

(* A proposal that knew the load of a site that has not changed leaves the *)
(* safety margin free next to the other loads, whatever the replicas, the  *)
(* broker and the provider do in between (AvailableForEV of Compute).      *)
THEOREM SteadySiteIsSafe == Spec => []SteadyIsSafe
<1>1. Inv => SteadyIsSafe
  <2> SUFFICES ASSUME Inv, Steady(proposal), proposal.available > 0
               PROVE  proposal.available + other <= Capacity - SafetyMargin
    BY DEF SteadyIsSafe
  <2>1. draw \in Nat /\ other \in Nat /\ draw + other \in Nat
    BY DEF Inv, TypeOK
  <2>2. PICK age \in Int :
          /\ age <= Freshness
          /\ proposal.available =
               AvailableForEV([load |-> draw + other, age |-> age], proposal.demand.power)
    BY SteadyFacts, Zenon
  <2>3. proposal.demand.power \in Nat /\ proposal.demand.power <= draw
    BY <2>1, SteadyFacts
  <2>4. proposal.available + PositivePart(draw + other - proposal.demand.power)
          = Capacity - SafetyMargin
    BY <2>1, <2>2, <2>3, AvailableFresh
  <2>5. PositivePart(draw + other - proposal.demand.power) >= other
    BY <2>1, <2>3 DEF PositivePart
  <2>6. proposal.available \in Int
    BY DEF Inv, TypeOK, Proposal
  <2>7. PositivePart(draw + other - proposal.demand.power) \in Int
    BY <2>1, <2>3 DEF PositivePart
  <2> QED
    BY <2>1, <2>4, <2>5, <2>6, <2>7
<1> QED
  BY <1>1, SiteInvariant, PTL

(* "Adding the headroom back to the current charging draw is what makes    *)
(* the result a total": a site within its limit that has not changed is    *)
(* not told to charge less than it does.                                   *)
THEOREM SteadySiteIsNotReduced == Spec => []SteadyIsNotReduced
<1>1. Inv => SteadyIsNotReduced
  <2> SUFFICES ASSUME Inv, Steady(proposal), proposal.demand # NoReading,
                      draw + other <= Capacity - SafetyMargin
               PROVE  proposal.available >= draw
    BY DEF SteadyIsNotReduced
  <2>1. draw \in Nat /\ other \in Nat /\ draw + other \in Nat
    BY DEF Inv, TypeOK
  <2>2. PICK age \in Int :
          /\ age <= Freshness
          /\ proposal.available = AvailableForEV([load |-> draw + other, age |-> age], draw)
    BY SteadyFacts
  <2>3. proposal.available >= Capacity - SafetyMargin - PositivePart(draw + other - draw)
    BY <2>1, <2>2, AvailableFresh
  <2>4. PositivePart(draw + other - draw) = other
    BY <2>1 DEF PositivePart
  <2>5. proposal.available \in Int
    BY DEF Inv, TypeOK, Proposal
  <2> QED
    BY <2>1, <2>3, <2>4, <2>5
<1> QED
  BY <1>1, SiteInvariant, PTL

(* When the provider made no observation within Freshness of the moment of *)
(* computing, the proposal is within the fallback.                         *)
THEOREM OutageIsFallback == Spec => []OutageFallsBack
<1>1. Inv => OutageFallsBack
  <2> SUFFICES ASSUME Inv,
                      \A o \in samples : ~(proposal.at - Freshness <= o.at /\ o.at <= proposal.at)
               PROVE  proposal.available <= PositivePart(Fallback - SafetyMargin)
    BY DEF OutageFallsBack
  <2>1. PositivePart(Fallback - SafetyMargin) \in Nat
    BY DEF PositivePart
  <2>2. CASE proposal = NoProposal
    BY <2>1, <2>2 DEF NoProposal
  <2>3. CASE proposal # NoProposal
    <3>1. Quoted(proposal) = NoObservation \/ Quoted(proposal).age > Freshness
      <4>1. CASE proposal.sample = NoSample
        BY <4>1 DEF Quoted
      <4>2. CASE proposal.sample # NoSample
        <5>1. proposal.sample \in samples /\ proposal.sample.at <= proposal.at
          BY <4>2 DEF Inv, Consistent, ProposalOK
        <5>2. proposal.at \in Int /\ proposal.sample.at \in Int
          BY ReadTypes DEF Inv, TypeOK, Proposal
        <5> QED
          BY <4>2, <5>1, <5>2 DEF Quoted
      <4> QED
        BY <4>1, <4>2
    <3>2. proposal.available = AvailableForEV(Quoted(proposal), proposal.demand.power)
      BY <2>3 DEF Inv, Consistent, ProposalOK
    <3> QED
      BY <2>1, <3>1, <3>2, AvailableStale
  <2> QED
    BY <2>2, <2>3
<1> QED
  BY <1>1, SiteInvariant, PTL

(* A proposal offers at most what the policy has. *)
THEOREM SiteTypes == Spec => []TypeOK
<1>1. Inv => TypeOK
  BY DEF Inv
<1> QED
  BY <1>1, SiteInvariant, PTL
=============================================================================
