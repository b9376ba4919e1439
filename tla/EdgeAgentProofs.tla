--------------------------- MODULE EdgeAgentProofs ---------------------------
(***************************************************************************)
(* Proofs about EdgeAgent, for any number of readings and faults, any      *)
(* channel size and any read-ahead: a running agent drops no reading, and  *)
(* the end of a process costs at most what the channel and the client      *)
(* hold and the one reading the loop is handling.                          *)
(***************************************************************************)
EXTENDS EdgeAgent, FiniteSetTheorems, SequenceTheorems, TLAPS

USE AgentAssumption

(* The readings that reached the agent at some time. *)
Taken == InMemory \cup Settled \cup lost

(* What the broker has delivered on this connection reached the agent, so  *)
(* that the broker may forget it at any time.                              *)
Reached == \A i \in 1..inflight : session[i] \in Taken

(* read_broker takes from the client no more than was read at once. *)
ReadAheadHeld == Len(events) + (IF held = 0 THEN 0 ELSE 1) <= ReadAhead

(* The loop holds a reading just while it handles it. *)
HandlingHolds == (main = "accept") = (taken # 0)

(* Every end of a process is a fault, an orderly stop from when it begins. *)
StopsCounted == stops + (IF main = "stopping" THEN 1 ELSE 0) <= faults

Inv == /\ TypeOK /\ NothingDropped /\ Reached /\ ReadAheadHeld /\ StopsCounted
       /\ HandlingHolds /\ LossIsBounded

-----------------------------------------------------------------------------
(* What the operations on a queue do to the set of its elements. *)
LEMMA AppendSet ==
    ASSUME NEW S, NEW s \in Seq(S), NEW e \in S
    PROVE  /\ Append(s, e) \in Seq(S) /\ Len(Append(s, e)) = Len(s) + 1
           /\ \A i \in 1..Len(s) : Append(s, e)[i] = s[i]
           /\ Range(Append(s, e)) = Range(s) \cup {e}
BY AppendProperties DEF Range

(* A queue is its head and its tail. *)
LEMMA TailSet ==
    ASSUME NEW S, NEW s \in Seq(S), s # <<>>
    PROVE  /\ Head(s) \in S /\ Tail(s) \in Seq(S) /\ Len(Tail(s)) = Len(s) - 1
           /\ Head(s) = s[1] /\ Len(s) > 0
           /\ \A i \in 1..Len(Tail(s)) : Tail(s)[i] = s[i + 1]
           /\ Range(s) = {Head(s)} \cup Range(Tail(s))
<1>1. /\ Head(s) \in S /\ Tail(s) \in Seq(S) /\ Len(Tail(s)) = Len(s) - 1
      /\ \A i \in 1..Len(Tail(s)) : Tail(s)[i] = s[i + 1]
      /\ Head(s) = s[1] /\ Len(s) > 0 /\ Len(s) \in Nat
  BY HeadTailProperties
<1>2. DOMAIN s = 1..Len(s) /\ DOMAIN Tail(s) = 1..(Len(s) - 1)
  BY <1>1, LenProperties
<1>3. ASSUME NEW i \in DOMAIN s PROVE s[i] \in {Head(s)} \cup Range(Tail(s))
  <2>1. CASE i = 1
    BY <1>1, <2>1
  <2>2. CASE i # 1
    <3>1. i - 1 \in 1..(Len(s) - 1) /\ Tail(s)[i - 1] = s[i]
      BY <1>1, <1>2, <2>2
    <3> QED
      BY <1>2, <3>1 DEF Range
  <2> QED
    BY <2>1, <2>2
<1>4. ASSUME NEW i \in DOMAIN Tail(s) PROVE Tail(s)[i] \in Range(s)
  <2>1. i + 1 \in DOMAIN s /\ Tail(s)[i] = s[i + 1]
    BY <1>1, <1>2
  <2> QED
    BY <2>1 DEF Range
<1>5. Head(s) \in Range(s)
  BY <1>1, <1>2 DEF Range
<1>6. Range(s) \subseteq {Head(s)} \cup Range(Tail(s))
  BY <1>3, Zenon DEF Range
<1>7. Range(Tail(s)) \subseteq Range(s)
  BY <1>4, Zenon DEF Range
<1>8. Range(s) = {Head(s)} \cup Range(Tail(s))
  BY <1>5, <1>6, <1>7, Zenon
<1> QED
  BY <1>1, <1>8

(* What is read from the session next. *)
LEMMA SubSeqSet ==
    ASSUME NEW S, NEW s \in Seq(S), NEW a \in Nat \ {0}, NEW b \in Nat,
           a <= b, b <= Len(s)
    PROVE  /\ SubSeq(s, a, b) \in Seq(S) /\ Len(SubSeq(s, a, b)) = b - a + 1
           /\ Range(SubSeq(s, a, b)) = {s[i] : i \in a..b}
<1> DEFINE t == SubSeq(s, a, b)
           n == b - a + 1
<1>1. \A i \in a..b : s[i] \in S
  BY ElementOfSeq, LenProperties
<1>2. /\ t \in Seq(S) /\ Len(t) = n /\ n \in Nat
      /\ \A i \in 1..n : t[i] = s[a + i - 1]
  BY <1>1, SubSeqProperties
<1>3. DOMAIN t = 1..n
  BY <1>2, LenProperties
<1> HIDE DEF t
<1>4. ASSUME NEW i \in a..b PROVE s[i] \in Range(t)
  <2>1. i - a + 1 \in 1..n /\ a + (i - a + 1) - 1 = i
    OBVIOUS
  <2>2. t[i - a + 1] = s[i]
    BY <1>2, <2>1
  <2> QED
    BY <1>3, <2>1, <2>2, SMTT(30) DEF Range
<1>5. ASSUME NEW i \in 1..n PROVE t[i] \in {s[j] : j \in a..b}
  <2>1. a + i - 1 \in a..b
    OBVIOUS
  <2>2. t[i] = s[a + i - 1]
    BY <1>2
  <2> QED
    BY <2>1, <2>2
<1>6. Range(t) = {s[i] : i \in a..b}
  BY <1>3, <1>4, <1>5, SMTT(30) DEF Range
<1> QED
  BY <1>2, <1>6 DEF t

(* A queue has no more different elements than places. *)
LEMMA SetSize ==
    ASSUME NEW S, NEW s \in Seq(S)
    PROVE  IsFiniteSet(Range(s)) /\ Cardinality(Range(s)) <= Len(s)
                /\ Cardinality(Range(s)) \in Nat
<1>1. Len(s) \in Nat /\ DOMAIN s = 1..Len(s) /\ s \in [1..Len(s) -> S]
  BY LenProperties
<1>2. s \in Surjection(1..Len(s), Range(s))
  BY <1>1 DEF Surjection, Range
<1>3. IsFiniteSet(1..Len(s)) /\ Cardinality(1..Len(s)) = Len(s)
  <2>1. 1 \in Int /\ Len(s) \in Int
    BY <1>1
  <2>2. /\ IsFiniteSet(1..Len(s))
        /\ Cardinality(1..Len(s)) = IF 1 > Len(s) THEN 0 ELSE Len(s) - 1 + 1
    BY <2>1, FS_Interval, Zenon
  <2> QED
    BY <1>1, <2>2
<1>4. IsFiniteSet(Range(s)) /\ Cardinality(Range(s)) <= Cardinality(1..Len(s))
  BY <1>2, <1>3, FS_Surjection
<1> QED
  BY <1>3, <1>4, FS_CardinalityType

(* Two sets have together no more elements than both. *)
LEMMA UnionSize ==
    ASSUME NEW S, NEW T, IsFiniteSet(S), IsFiniteSet(T)
    PROVE  /\ IsFiniteSet(S \cup T) /\ Cardinality(S \cup T) \in Nat
           /\ Cardinality(S \cup T) <= Cardinality(S) + Cardinality(T)
<1>1. IsFiniteSet(S \cup T) /\ IsFiniteSet(S \cap T)
      /\ Cardinality(S \cup T) = Cardinality(S) + Cardinality(T) - Cardinality(S \cap T)
  BY FS_Union, FS_Intersection
<1>2. /\ Cardinality(S) \in Nat /\ Cardinality(T) \in Nat
      /\ Cardinality(S \cap T) \in Nat /\ Cardinality(S \cup T) \in Nat
  BY <1>1, FS_CardinalityType
<1> QED
  BY <1>1, <1>2

-----------------------------------------------------------------------------
(* The constants, one by one. *)
LEMMA Constants ==
    /\ MaxReadings \in Nat /\ MaxFaults \in Nat
    /\ ChannelSize \in Nat /\ ChannelSize > 0 /\ ReadAhead \in Nat /\ ReadAhead > 0
BY DEF AgentAssumption

(* A step after which the agent has had the same readings, and that the    *)
(* broker takes no part in, keeps what relates the two.                    *)
LEMMA SameTaken ==
    ASSUME Inv, UNCHANGED mqtt, Taken' = Taken
    PROVE  NothingDropped' /\ Reached'
<1>1. NothingDropped'
  BY DEF Inv, NothingDropped, Taken, mqtt
<1>2. Reached'
  BY DEF Inv, Reached, mqtt
<1> QED
  BY <1>1, <1>2

(* What is in memory was published. *)
LEMMA MemoryIsPublished ==
    ASSUME Inv
    PROVE  InMemory \subseteq 1..sent /\ Range(session) \subseteq 1..sent
BY DEF Inv, NothingDropped

(* The agent starts with nothing. *)
LEMMA InitInv == ASSUME Init PROVE Inv
<1>1. Range(<<>>) = {}
  BY DEF Range
<1>2. TypeOK
  <2>1. <<>> \in Seq(Readings) /\ Len(<<>>) = 0
    BY EmptySeq
  <2>2. 0 \in 0..MaxReadings /\ 0 \in 0..MaxFaults /\ 0 \in 0..0 /\ 0 <= ChannelSize
    BY Constants
  <2>3. sent \in 0..MaxReadings /\ inflight \in 0..Len(session) /\ Len(channel) <= ChannelSize
    BY <2>1, <2>2 DEF Init
  <2> QED
    BY <2>1, <2>2, <2>3, Zenon DEF Init, TypeOK
<1>3. NothingDropped
  BY <1>1 DEF Init, NothingDropped, InMemory, Settled
<1>4. Reached /\ ReadAheadHeld /\ StopsCounted /\ HandlingHolds
  BY Constants, EmptySeq DEF Init, Reached, ReadAheadHeld, StopsCounted, HandlingHolds
<1>5. LossIsBounded
  <2>1. Cardinality(lost) = 0
    BY FS_EmptySet DEF Init
  <2> QED
    BY <2>1, Constants DEF Init, LossIsBounded
<1> QED
  BY <1>2, <1>3, <1>4, <1>5 DEF Inv

-----------------------------------------------------------------------------
(* One lemma per action that moves readings. *)
LEMMA PublishStep == ASSUME Inv, publish PROVE Inv'
<1>1. sent \in Nat /\ session \in Seq(Readings) /\ sent + 1 \in Readings
  BY Constants DEF Inv, TypeOK, publish, Readings
<1>2. /\ session' \in Seq(Readings) /\ Len(session') = Len(session) + 1
      /\ \A i \in 1..Len(session) : session'[i] = session[i]
      /\ Range(session') = Range(session) \cup {sent + 1}
  BY <1>1, AppendSet DEF publish
<1>3. Taken' = Taken /\ InMemory' = InMemory /\ Settled' = Settled
  BY DEF publish, Taken, InMemory, Settled, memory, settled, history
<1>4. 1..sent' = 1..sent \cup {sent + 1}
  BY <1>1 DEF publish
<1>5. TypeOK'
  <2>1. sent' \in 0..MaxReadings
    BY Constants DEF Inv, TypeOK, publish
  <2>2. inflight' \in 0..Len(session')
    BY <1>2 DEF Inv, TypeOK, publish
  <2>3. \A S \in {spool', delivered', refused', lost'} : S \subseteq 1..sent'
    BY <1>4 DEF Inv, TypeOK, publish, settled, history
  <2> QED
    BY <1>2, <2>1, <2>2, <2>3, SMTT(30) DEF Inv, TypeOK, publish, memory, settled, history
<1>6. NothingDropped'
  BY <1>2, <1>3, <1>4 DEF Inv, NothingDropped, publish, history
<1>7. Reached'
  <2>1. inflight' = inflight /\ 1..inflight \subseteq 1..Len(session)
    BY DEF Inv, TypeOK, publish
  <2> QED
    BY <1>2, <1>3, <2>1 DEF Inv, Reached
<1>8. ReadAheadHeld' /\ StopsCounted' /\ HandlingHolds' /\ LossIsBounded'
  BY DEF Inv, publish, ReadAheadHeld, StopsCounted, HandlingHolds, LossIsBounded, memory, history
<1> QED
  BY <1>5, <1>6, <1>7, <1>8 DEF Inv

(* What is read from the connection is what comes next in the session. *)
LEMMA ReadStep == ASSUME Inv, read PROVE Inv'
<1> PICK n \in 1..ReadAhead :
          /\ inflight + n <= Len(session)
          /\ events' = SubSeq(session, inflight + 1, inflight + n)
          /\ inflight' = inflight + n
  BY Zenon DEF read
<1>1. n \in Nat /\ inflight \in Nat /\ session \in Seq(Readings) /\ Len(session) \in Nat
  BY Constants DEF Inv, TypeOK
<1> DEFINE new == {session[i] : i \in (inflight + 1)..(inflight + n)}
<1>2. /\ events' \in Seq(Readings) /\ Len(events') = n
      /\ Range(events') = new
  <2> DEFINE a == inflight + 1
             b == inflight + n
  <2>1. a \in Nat \ {0} /\ b \in Nat /\ a <= b /\ b <= Len(session) /\ b - a + 1 = n
    BY <1>1
  <2>2. events' = SubSeq(session, a, b) /\ new = {session[i] : i \in a..b}
    OBVIOUS
  <2> HIDE DEF a, b, new
  <2>3. /\ SubSeq(session, a, b) \in Seq(Readings)
        /\ Len(SubSeq(session, a, b)) = b - a + 1
        /\ Range(SubSeq(session, a, b)) = {session[i] : i \in a..b}
    <3>1. a \in Nat \ {0} /\ b \in Nat /\ a <= b /\ b <= Len(session) /\ session \in Seq(Readings)
      BY <1>1, <2>1
    <3> QED
      BY ONLY <3>1, SubSeqSet, SMTT(60)
  <2> QED
    BY <2>1, <2>2, <2>3, Zenon
<1>3. Range(events) = {}
  BY DEF read, Range
<1>4. new \subseteq Range(session)
  BY <1>1 DEF Range
<1>5. \A r \in new : r \in Readings /\ r # 0
  <2>1. ASSUME NEW i \in (inflight + 1)..(inflight + n) PROVE session[i] \in Readings
    <3>1. i \in 1..Len(session)
      BY <1>1
    <3> QED
      BY <1>1, <3>1, ElementOfSeq
  <2>2. 0 \notin Readings
    BY DEF Readings
  <2> QED
    BY <2>1, <2>2
<1>6. InMemory' = InMemory \cup new
  BY <1>2, <1>3, <1>5, SMTT(30) DEF read, InMemory
<1>7. Taken' = Taken \cup new
  BY <1>6 DEF Taken, Settled, read, settled, history
<1>8. TypeOK'
  <2>1. inflight' \in 0..Len(session')
    BY <1>1 DEF read
  <2> QED
    BY <1>2, <2>1, SMTT(30) DEF Inv, TypeOK, read, settled, history
<1>9. NothingDropped'
  BY <1>4, <1>6 DEF Inv, NothingDropped, Settled, read, settled, history
<1>10. Reached'
  <2>1. SUFFICES ASSUME NEW i \in 1..(inflight + n) PROVE session[i] \in Taken \cup new
    BY <1>7 DEF Reached, read
  <2>2. CASE i \in 1..inflight
    BY <2>2 DEF Inv, Reached
  <2>3. CASE i \notin 1..inflight
    <3>1. i \in (inflight + 1)..(inflight + n)
      BY <1>1, <2>3
    <3> QED
      BY <3>1
  <2> QED
    BY <2>2, <2>3
<1>11. ReadAheadHeld'
  BY <1>1, <1>2, Constants DEF ReadAheadHeld, read
<1>12. StopsCounted' /\ HandlingHolds' /\ LossIsBounded'
  BY DEF Inv, StopsCounted, HandlingHolds, LossIsBounded, read, history
<1> QED
  BY <1>8, <1>9, <1>10, <1>11, <1>12 DEF Inv

(* The broker forgets only what the agent has. *)
LEMMA PubackStep == ASSUME Inv, puback PROVE Inv'
<1>1. session \in Seq(Readings) /\ session # <<>> /\ inflight \in Nat /\ inflight > 0
          /\ inflight <= Len(session)
  BY EmptySeq DEF Inv, TypeOK, puback
<1>2. /\ session' \in Seq(Readings) /\ Len(session') = Len(session) - 1
      /\ Head(session) = session[1]
      /\ \A i \in 1..Len(session') : session'[i] = session[i + 1]
      /\ Range(session) = {Head(session)} \cup Range(session')
  BY <1>1, TailSet DEF puback
<1>3. Taken' = Taken /\ InMemory' = InMemory /\ Settled' = Settled
  BY DEF puback, Taken, InMemory, Settled, memory, settled, history
<1>4. Head(session) \in Taken
  <2>1. 1 \in 1..inflight
    BY <1>1
  <2> QED
    BY <1>2, <2>1 DEF Inv, Reached
<1>5. TypeOK'
  <2>1. inflight' \in 0..Len(session')
    BY <1>1, <1>2, LenProperties DEF puback
  <2> QED
    BY <1>2, <2>1, SMTT(30) DEF Inv, TypeOK, puback, memory, settled, history
<1>6. NothingDropped'
  BY <1>2, <1>3, <1>4 DEF Inv, NothingDropped, Taken, puback, history
<1>7. Reached'
  <2>1. SUFFICES ASSUME NEW i \in 1..(inflight - 1) PROVE session'[i] \in Taken
    BY <1>3, Zenon DEF Reached, puback
  <2>2. i + 1 \in 1..inflight /\ i \in 1..Len(session')
    BY <1>1, <1>2, LenProperties
  <2> QED
    BY <1>2, <2>2 DEF Inv, Reached
<1>8. ReadAheadHeld' /\ StopsCounted' /\ HandlingHolds' /\ LossIsBounded'
  BY DEF Inv, puback, ReadAheadHeld, StopsCounted, HandlingHolds, LossIsBounded, memory, history
<1> QED
  BY <1>5, <1>6, <1>7, <1>8 DEF Inv

(* A reconnection forgets what was delivered, not the readings. *)
LEMMA ReconnectStep == ASSUME Inv, reconnect PROVE Inv'
<1>1. Taken' = Taken /\ InMemory' = InMemory /\ Settled' = Settled
  BY DEF reconnect, Taken, InMemory, Settled, memory, settled
<1>2. faults' \in 0..MaxFaults /\ faults \in Nat /\ faults' = faults + 1 /\ stops \in Nat
  BY Constants DEF Inv, TypeOK, reconnect
<1>3. TypeOK'
  <2>1. inflight' \in 0..Len(session')
    BY LenProperties DEF Inv, TypeOK, reconnect
  <2> QED
    BY <1>2, <2>1 DEF Inv, TypeOK, reconnect, memory, settled
<1>4. NothingDropped' /\ Reached'
  BY <1>1 DEF Inv, NothingDropped, Reached, reconnect
<1>5. StopsCounted'
  BY <1>2 DEF Inv, StopsCounted, reconnect
<1>6. ReadAheadHeld' /\ HandlingHolds' /\ LossIsBounded'
  BY DEF Inv, reconnect, ReadAheadHeld, HandlingHolds, LossIsBounded, memory
<1> QED
  BY <1>3, <1>4, <1>5, <1>6 DEF Inv

(* poll hands one packet over. *)
LEMMA PollStep == ASSUME Inv, poll PROVE Inv'
<1>1. /\ Head(events) \in Readings /\ events' \in Seq(Readings)
      /\ Len(events') = Len(events) - 1 /\ Len(events) \in Nat
      /\ Range(events) = {held'} \cup Range(events')
  BY TailSet, LenProperties DEF Inv, TypeOK, poll
<1>2. InMemory' = InMemory
  BY <1>1 DEF poll, InMemory
<1>3. Taken' = Taken
  BY <1>2 DEF Taken, Settled, poll, settled, history
<1>4. TypeOK'
  BY <1>1, SMTT(30) DEF Inv, TypeOK, poll, mqtt, settled, history
<1>5. ReadAheadHeld'
  BY <1>1, Constants DEF Inv, ReadAheadHeld, poll, Readings
<1>6. StopsCounted' /\ HandlingHolds' /\ LossIsBounded'
  BY DEF Inv, StopsCounted, HandlingHolds, LossIsBounded, poll, history
<1>7. NothingDropped' /\ Reached'
  BY <1>3, SameTaken DEF poll
<1> QED
  BY <1>4, <1>5, <1>6, <1>7 DEF Inv

(* send waits for room. *)
LEMMA SendStep == ASSUME Inv, send PROVE Inv'
<1>1. held \in Readings /\ channel \in Seq(Readings) /\ Len(channel) \in Nat
  BY LenProperties DEF Inv, TypeOK, send
<1>2. /\ channel' \in Seq(Readings) /\ Len(channel') = Len(channel) + 1
      /\ Range(channel') = Range(channel) \cup {held}
  BY <1>1, AppendSet DEF send
<1>3. InMemory' = InMemory
  BY <1>2 DEF send, InMemory
<1>4. Taken' = Taken
  BY <1>3 DEF Taken, Settled, send, settled, history
<1>5. TypeOK'
  <2>1. Len(channel') <= ChannelSize
    BY <1>1, <1>2, Constants DEF send
  <2> QED
    BY <1>2, <2>1, SMTT(30) DEF Inv, TypeOK, send, mqtt, settled, history
<1>6. ReadAheadHeld'
  <2>1. Len(events) \in Nat
    BY LenProperties DEF Inv, TypeOK
  <2> QED
    BY <2>1, Constants DEF Inv, ReadAheadHeld, send
<1>7. StopsCounted' /\ HandlingHolds' /\ LossIsBounded'
  BY DEF Inv, StopsCounted, HandlingHolds, LossIsBounded, send, history
<1>8. NothingDropped' /\ Reached'
  BY <1>4, SameTaken DEF send
<1> QED
  BY <1>5, <1>6, <1>7, <1>8 DEF Inv

(* recv moves the first reading of the channel to the loop. *)
LEMMA RecvStep == ASSUME Inv, recv PROVE Inv'
<1>1. /\ taken' \in Readings /\ channel' \in Seq(Readings)
      /\ Len(channel') = Len(channel) - 1 /\ Len(channel) \in Nat
      /\ Range(channel) = {taken'} \cup Range(channel')
  BY TailSet, LenProperties DEF Inv, TypeOK, recv
<1>2. taken = 0 /\ taken' # 0
  BY <1>1 DEF Inv, HandlingHolds, recv, Readings
<1>3. InMemory' = InMemory
  BY <1>1, <1>2 DEF recv, InMemory
<1>4. Taken' = Taken
  BY <1>3 DEF Taken, Settled, recv, settled, history
<1>5. TypeOK'
  <2>1. Len(channel') <= ChannelSize
    BY <1>1, Constants DEF Inv, TypeOK
  <2> QED
    BY <1>1, <2>1, SMTT(30) DEF Inv, TypeOK, recv, mqtt, settled, history
<1>6. ReadAheadHeld' /\ StopsCounted' /\ HandlingHolds' /\ LossIsBounded'
  BY <1>2 DEF Inv, ReadAheadHeld, StopsCounted, HandlingHolds, LossIsBounded, recv, history
<1>7. NothingDropped' /\ Reached'
  BY <1>4, SameTaken DEF recv
<1> QED
  BY <1>5, <1>6, <1>7 DEF Inv

(* The reading the loop holds is spooled or logged as refused. *)
LEMMA AcceptStep == ASSUME Inv, accept \/ enqueue_fails PROVE Inv'
<1> PICK r : r = taken
  OBVIOUS
<1>1. r \in Readings /\ r # 0
  BY DEF Inv, TypeOK, HandlingHolds, accept, enqueue_fails
<1>2. r \in InMemory /\ r \in 1..sent
  BY <1>1, MemoryIsPublished DEF InMemory
<1>3. /\ UNCHANGED <<mqtt, events, held, channel, online, delivered, lost, stops>>
      /\ main = "accept" /\ main' = "select" /\ taken' = 0
      /\ spool' \cup refused' = (spool \cup refused) \cup {r}
      /\ spool' \subseteq spool \cup {r} /\ refused' \subseteq refused \cup {r}
  BY DEF accept, enqueue_fails, history
<1>4. faults' \in 0..MaxFaults /\ faults' >= faults /\ faults \in Nat /\ stops \in Nat
  BY Constants, SMTT(30) DEF Inv, TypeOK, accept, enqueue_fails, history
<1>5. InMemory' \cup {r} = InMemory
  BY <1>1, <1>3 DEF InMemory
<1>6. Settled' = Settled \cup {r} /\ lost' = lost
  BY <1>3 DEF Settled
<1>7. Taken' = Taken
  BY <1>5, <1>6 DEF Taken
<1>8. TypeOK'
  <2>1. sent' = sent /\ \A S \in {spool', delivered', refused', lost'} : S \subseteq 1..sent
    BY <1>2, <1>3, SMTT(30) DEF Inv, TypeOK, mqtt
  <2> QED
    BY <1>3, <1>4, <2>1, SMTT(30) DEF Inv, TypeOK, mqtt
<1>9. ReadAheadHeld' /\ HandlingHolds' /\ LossIsBounded'
  BY <1>3 DEF Inv, ReadAheadHeld, HandlingHolds, LossIsBounded
<1>10. StopsCounted'
  BY <1>3, <1>4 DEF Inv, StopsCounted
<1>11. NothingDropped' /\ Reached'
  BY <1>3, <1>7, SameTaken
<1> QED
  BY <1>8, <1>9, <1>10, <1>11 DEF Inv

(* A drain moves readings from the spool to the bus, or leaves them. *)
LEMMA DrainedKeeps ==
    ASSUME Inv, Drained, UNCHANGED <<sent, refused>>
    PROVE  Settled' = Settled /\ spool' \subseteq 1..sent /\ delivered' \subseteq 1..sent
BY SMTT(30) DEF Inv, TypeOK, Drained, Settled

(* The steps of the loop that only move it on. *)
LEMMA LoopStep ==
    ASSUME Inv, link_changes \/ flush_tick \/ shutdown \/ drain \/ start
    PROVE  Inv'
<1>1. /\ UNCHANGED <<mqtt, memory, refused, lost, stops>> /\ Settled' = Settled
      /\ spool' \subseteq 1..sent /\ delivered' \subseteq 1..sent
  <2>1. CASE drain
    BY <2>1, DrainedKeeps DEF drain, history, mqtt
  <2>2. CASE link_changes \/ flush_tick \/ shutdown \/ start
    BY <2>2, SMTT(30) DEF Inv, TypeOK, link_changes, flush_tick, shutdown, start, Settled, settled, history
  <2> QED
    BY <2>1, <2>2
<1>2. Taken' = Taken
  BY <1>1 DEF Taken, InMemory, memory
<1>3. /\ faults' \in 0..MaxFaults /\ StopsCounted'
      /\ main' \in {"select", "accept", "drain", "stopping", "down"} /\ online' \in BOOLEAN
  <2>1. faults \in Nat /\ stops \in Nat /\ MaxFaults \in Nat
    BY Constants DEF Inv, TypeOK
  <2>2. CASE shutdown
    BY <2>1, <2>2 DEF Inv, TypeOK, StopsCounted, shutdown
  <2>3. CASE link_changes
    BY <2>3 DEF Inv, TypeOK, StopsCounted, link_changes, history
  <2>4. CASE flush_tick \/ drain \/ start
    BY <2>4, SMTT(30) DEF Inv, TypeOK, StopsCounted, flush_tick, drain, start, history
  <2> QED
    BY <2>2, <2>3, <2>4
<1>4. TypeOK'
  BY <1>1, <1>3, SMTT(30) DEF Inv, TypeOK, mqtt, memory
<1>5. ReadAheadHeld' /\ LossIsBounded'
  BY <1>1 DEF Inv, ReadAheadHeld, LossIsBounded, memory
<1>7. HandlingHolds'
  <2>1. (main' = "accept") = (main = "accept")
    BY DEF link_changes, flush_tick, shutdown, drain, start
  <2> QED
    BY <1>1, <2>1 DEF Inv, HandlingHolds, memory
<1>6. NothingDropped' /\ Reached'
  BY <1>1, <1>2, SameTaken
<1> QED
  BY <1>3, <1>4, <1>5, <1>6, <1>7 DEF Inv

(* A place for one reading holds at most one. *)
LEMMA PlaceSize ==
    ASSUME NEW r
    PROVE  /\ IsFiniteSet({r} \ {0}) /\ Cardinality({r} \ {0}) \in Nat
           /\ Cardinality({r} \ {0}) = IF r = 0 THEN 0 ELSE 1
<1>1. CASE r = 0
  <2>1. {r} \ {0} = {}
    BY <1>1
  <2> QED
    BY <1>1, <2>1, FS_EmptySet
<1>2. CASE r # 0
  <2>1. {r} \ {0} = {r}
    BY <1>2
  <2>2. IsFiniteSet({r}) /\ Cardinality({r}) = 1
    BY FS_Singleton, Zenon
  <2> QED
    BY <1>2, <2>1, <2>2
<1> QED
  BY <1>1, <1>2

(* What is in memory fits in the channel, in what is read at once, and in  *)
(* the place of the reading the loop handles.                              *)
LEMMA MemorySize ==
    ASSUME Inv
    PROVE  IsFiniteSet(InMemory) /\ Cardinality(InMemory) \in Nat
               /\ Cardinality(InMemory) <= ChannelSize + ReadAhead + 1
<1> DEFINE E == Range(events)
           C == Range(channel)
           H == {held} \ {0}
           T == {taken} \ {0}
<1>1. /\ IsFiniteSet(E) /\ Cardinality(E) \in Nat /\ Cardinality(E) <= Len(events)
      /\ IsFiniteSet(C) /\ Cardinality(C) \in Nat /\ Cardinality(C) <= Len(channel)
  BY SetSize DEF Inv, TypeOK
<1>2. /\ IsFiniteSet(H) /\ Cardinality(H) \in Nat
      /\ Cardinality(H) = IF held = 0 THEN 0 ELSE 1
      /\ IsFiniteSet(T) /\ Cardinality(T) \in Nat /\ Cardinality(T) <= 1
  <2>1. /\ IsFiniteSet(H) /\ Cardinality(H) \in Nat
        /\ Cardinality(H) = IF held = 0 THEN 0 ELSE 1
    BY PlaceSize, Zenon
  <2>2. /\ IsFiniteSet(T) /\ Cardinality(T) \in Nat
        /\ Cardinality(T) = IF taken = 0 THEN 0 ELSE 1
    BY PlaceSize, Zenon
  <2> HIDE DEF H, T
  <2> QED
    BY <2>1, <2>2
<1>3. /\ 0 \notin E /\ 0 \notin C
  <2>1. ASSUME NEW s \in Seq(Readings) PROVE 0 \notin Range(s)
    <3>1. \A i \in DOMAIN s : s[i] \in Readings
      BY LenProperties
    <3>2. 0 \notin Readings
      BY DEF Readings
    <3> QED
      BY <3>1, <3>2 DEF Range
  <2> QED
    BY <2>1 DEF Inv, TypeOK
<1>4. InMemory = (E \cup C) \cup (H \cup T)
  BY <1>3 DEF InMemory
<1> HIDE DEF E, C, H, T
<1>5. /\ IsFiniteSet(E \cup C) /\ Cardinality(E \cup C) \in Nat
      /\ Cardinality(E \cup C) <= Cardinality(E) + Cardinality(C)
  BY <1>1, UnionSize
<1>6. /\ IsFiniteSet(H \cup T) /\ Cardinality(H \cup T) \in Nat
      /\ Cardinality(H \cup T) <= Cardinality(H) + Cardinality(T)
  BY <1>2, UnionSize
<1>7. /\ IsFiniteSet(InMemory) /\ Cardinality(InMemory) \in Nat
      /\ Cardinality(InMemory) <= Cardinality(E \cup C) + Cardinality(H \cup T)
  BY <1>4, <1>5, <1>6, UnionSize
<1>8. Len(events) \in Nat /\ Len(channel) \in Nat /\ Len(channel) <= ChannelSize
  BY LenProperties DEF Inv, TypeOK
<1>9. Len(events) + Cardinality(H) <= ReadAhead
  BY <1>2 DEF Inv, ReadAheadHeld
<1> QED
  <2>1. Cardinality(H \cup T) <= Cardinality(H) + 1
    BY ONLY <1>2, <1>6
  <2>2. Cardinality(E \cup C) <= Len(events) + ChannelSize
    BY ONLY <1>1, <1>5, <1>8, Constants
  <2> QED
    BY ONLY <2>1, <2>2, <1>2, <1>5, <1>6, <1>7, <1>8, <1>9, Constants, SMTT(30)

(* The end of a process: what it alone had is counted as lost. *)
LEMMA EndsStep ==
    ASSUME Inv, Ends, Settled' = Settled,
           spool' \subseteq 1..sent, delivered' \subseteq 1..sent,
           faults' \in 0..MaxFaults, stops' <= faults'
    PROVE  Inv'
<1> DEFINE gone == InMemory \ (Range(session) \cup Settled)
<1>1. Range(<<>>) = {} /\ <<>> \in Seq(Readings) /\ Len(<<>>) = 0
  BY EmptySeq DEF Range
<1>2. InMemory' = {}
  BY <1>1 DEF Ends, InMemory
<1>3. stops \in Nat /\ stops' = stops + 1
  BY Constants DEF Inv, TypeOK, Ends
<1>4. gone \subseteq 1..sent /\ lost' = lost \cup gone
  BY MemoryIsPublished DEF Ends
<1>5. TypeOK'
  <2>1. stops' \in 0..MaxFaults
    BY <1>3, Constants
  <2>2. inflight' \in 0..Len(session')
    BY LenProperties DEF Inv, TypeOK, Ends
  <2>3. Len(channel') <= ChannelSize
    BY <1>1, Constants DEF Ends
  <2>4. \A S \in {spool', delivered', refused', lost'} : S \subseteq 1..sent'
    BY <1>4, SMTT(30) DEF Inv, TypeOK, Ends
  <2> QED
    BY <1>1, <2>1, <2>2, <2>3, <2>4, SMTT(30) DEF Inv, TypeOK, Ends
<1>6. NothingDropped'
  BY <1>2, <1>4 DEF Inv, NothingDropped, Ends
<1>7. Reached'
  BY DEF Reached, Ends
<1>8. ReadAheadHeld'
  BY <1>1, Constants DEF ReadAheadHeld, Ends
<1>9. StopsCounted' /\ HandlingHolds'
  BY <1>3 DEF StopsCounted, HandlingHolds, Ends
<1>10. LossIsBounded'
  <2>1. IsFiniteSet(InMemory) /\ Cardinality(InMemory) \in Nat
            /\ Cardinality(InMemory) <= ChannelSize + ReadAhead + 1
    BY MemorySize
  <2>2. IsFiniteSet(gone) /\ Cardinality(gone) \in Nat
            /\ Cardinality(gone) <= Cardinality(InMemory)
    BY <2>1, FS_Subset, FS_CardinalityType
  <2>3. IsFiniteSet(lost) /\ Cardinality(lost) \in Nat
    <3>1. IsFiniteSet(1..sent)
      BY FS_Interval DEF Inv, TypeOK
    <3>2. lost \subseteq 1..sent
      BY DEF Inv, TypeOK
    <3> QED
      BY <3>1, <3>2, FS_Subset, FS_CardinalityType, Zenon
  <2> HIDE DEF gone
  <2>4. Cardinality(lost \cup gone) \in Nat
            /\ Cardinality(lost \cup gone) <= Cardinality(lost) + Cardinality(gone)
    BY <2>2, <2>3, UnionSize
  <2> DEFINE k == ChannelSize + ReadAhead + 1
  <2>5. k \in Nat /\ Cardinality(lost) <= stops * k /\ Cardinality(gone) <= k
    BY <2>1, <2>2, Constants DEF Inv, LossIsBounded
  <2> HIDE DEF k
  <2>6. (stops + 1) * k = stops * k + k /\ stops * k \in Nat
    BY <1>3, <2>5
  <2>7. Cardinality(lost') <= stops' * k
    BY <1>3, <1>4, <2>2, <2>3, <2>4, <2>5, <2>6
  <2> QED
    BY <2>7 DEF LossIsBounded, k
<1> QED
  BY <1>5, <1>6, <1>7, <1>8, <1>9, <1>10 DEF Inv

(* The end of an orderly stop. *)
LEMMA ExitStep == ASSUME Inv, exit PROVE Inv'
<1>1. Settled' = Settled /\ spool' \subseteq 1..sent /\ delivered' \subseteq 1..sent
  BY DrainedKeeps DEF exit, Ends
<1>2. faults' \in 0..MaxFaults /\ stops' <= faults'
  BY DEF Inv, TypeOK, StopsCounted, exit, Ends
<1> QED
  BY <1>1, <1>2, EndsStep DEF exit

(* A crash at any moment. *)
LEMMA CrashStep == ASSUME Inv, crash PROVE Inv'
<1>1. Settled' = Settled /\ spool' \subseteq 1..sent /\ delivered' \subseteq 1..sent
  BY DEF Inv, TypeOK, crash, Ends, Settled
<1>2. faults \in Nat /\ stops \in Nat /\ stops <= faults
  BY Constants DEF Inv, TypeOK, StopsCounted
<1>3. faults' \in 0..MaxFaults /\ stops' <= faults'
  BY <1>2, Constants DEF crash, Ends
<1> QED
  BY <1>1, <1>3, EndsStep DEF crash

-----------------------------------------------------------------------------
(* Every step of the broker, the agent and whoever stops it keeps Inv. *)
LEMMA NextInv == ASSUME Inv, [Next]_vars PROVE Inv'
<1>1. CASE UNCHANGED vars
  BY <1>1, SMTT(30) DEF Inv, TypeOK, NothingDropped, Reached, Taken, InMemory, Settled,
        ReadAheadHeld, StopsCounted, HandlingHolds, LossIsBounded,
        vars, mqtt, memory, settled, history
<1>2. CASE publish \/ puback \/ reconnect
  BY <1>2, PublishStep, PubackStep, ReconnectStep
<1>3. CASE read \/ poll \/ send \/ recv \/ accept \/ enqueue_fails
  BY <1>3, ReadStep, PollStep, SendStep, RecvStep, AcceptStep
<1>4. CASE link_changes \/ flush_tick \/ shutdown \/ drain \/ start
  BY <1>4, LoopStep
<1>5. CASE exit \/ crash
  BY <1>5, ExitStep, CrashStep
<1> QED
  BY <1>1, <1>2, <1>3, <1>4, <1>5 DEF Next, Agent

(* The agent keeps the inductive invariant (main.rs: read_broker, the      *)
(* select! loop and the end of the process).                               *)
THEOREM AgentInvariant == Spec => []Inv
BY InitInv, NextInv, PTL DEF Spec

(* The agent's state keeps its type: the channel never exceeds its size,   *)
(* and a process ends no more often than faults occur.                     *)
THEOREM AgentTypes == Spec => []TypeOK
<1>1. Inv => TypeOK
  BY DEF Inv
<1> QED
  BY <1>1, AgentInvariant, PTL

(* "A full channel blocks this task rather than dropping the reading": as  *)
(* long as the process runs, every reading published is with the broker,   *)
(* in memory or settled, or was lost with an earlier process.              *)
THEOREM NoReadingDropped == Spec => []NothingDropped
<1>1. Inv => NothingDropped
  BY DEF Inv
<1> QED
  BY <1>1, AgentInvariant, PTL

(* The end of a process, orderly or not, costs at most what the channel    *)
(* and one read of the connection hold and the reading being handled.      *)
THEOREM LossHasABound == Spec => []LossIsBounded
<1>1. Inv => LossIsBounded
  BY DEF Inv
<1> QED
  BY <1>1, AgentInvariant, PTL
=============================================================================
