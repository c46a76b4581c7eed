---------------------- MODULE PublishStatistics_proofs ----------------------
(* Safety of PublishStatistics for every queue length. Samples are taken of two    *)
(* counters that only grow, so along the path from the queue's end to the last      *)
(* report they are ordered; and each was plausible when it was taken.               *)
EXTENDS PublishStatistics, TLAPS

\* Sample a was taken no later than sample b.
NoLater(a, b) == a[1] <= b[1] /\ a[2] <= b[2]

Plausible(a) == a[2] <= a[1] + 1

\* A message that can follow the reports made so far.
Follows(m) == m # NoSample => NoLater(reported, m) /\ NoLater(m, Sample) /\ Plausible(m)

InHand ==
    /\ Follows(msg)
    /\ \A i \in 1..Len(publishQueue) :
          (msg # NoSample /\ publishQueue[i] # NoSample) => NoLater(msg, publishQueue[i])

Queued ==
    /\ \A i \in 1..Len(publishQueue) : Follows(publishQueue[i])
    /\ \A i, j \in 1..Len(publishQueue) :
          (i < j /\ publishQueue[i] # NoSample /\ publishQueue[j] # NoSample)
              => NoLater(publishQueue[i], publishQueue[j])

Reported == NoLater(reported, Sample) /\ Plausible(reported)

IInv == TypeOK /\ SuccessesCovered /\ InHand /\ Queued /\ Reported

-----------------------------------------------------------------------------
LEMMA MessageIsSample == \A m \in Messages : m # NoSample => m \in Samples
  BY DEF Messages

LEMMA OneMore ==
  ASSUME NEW s \in Nat, NEW u \in Nat, NEW v \in Nat, NEW a \in Nat, s + u <= a, v <= u + 1
  PROVE  s + v <= a + 1
  OBVIOUS

LEMMA NoLaterTransitive ==
  ASSUME NEW a \in Samples, NEW b \in Samples, NEW c \in Samples, NoLater(a, b), NoLater(b, c)
  PROVE  NoLater(a, c)
  BY DEF Samples, NoLater

LEMMA AppendFacts ==
  ASSUME NEW S, NEW q \in Seq(S), NEW e \in S
  PROVE  /\ Append(q, e) \in Seq(S)
         /\ Len(q) \in Nat /\ Len(Append(q, e)) = Len(q) + 1
         /\ \A i \in 1..Len(q) : Append(q, e)[i] = q[i]
         /\ Append(q, e)[Len(q) + 1] = e
  OBVIOUS

LEMMA HeadTailFacts ==
  ASSUME NEW S, NEW q \in Seq(S), q # <<>>
  PROVE  /\ Tail(q) \in Seq(S) /\ Head(q) = q[1] /\ q[1] \in S
         /\ Len(q) \in Nat /\ Len(q) >= 1 /\ Len(Tail(q)) = Len(q) - 1
         /\ \A i \in 1..(Len(q) - 1) : Tail(q)[i] = q[i + 1] /\ i + 1 \in 1..Len(q)
  OBVIOUS

(* The counters as they are make a plausible sample, later than all others.        *)
LEMMA CountersPlausible == ASSUME TypeOK, SuccessesCovered PROVE Sample \in Samples /\ Plausible(Sample)
<1>1. publishAttempts \in Nat /\ publishSuccesses \in Nat /\ unacked \in Nat
  BY DEF TypeOK
<1>2. publishSuccesses <= publishAttempts + 1
  BY <1>1 DEF SuccessesCovered
<1>3. QED BY <1>1, <1>2 DEF Sample, Samples, Plausible

LEMMA InitInvariant == Init => IInv
  BY StatisticsAssumption DEF Init, IInv, TypeOK, SuccessesCovered, InHand, Queued, Reported,
     Follows, NoLater, Plausible, Sample, Samples, Messages, NoSample

(* A growing counter leaves every sample where it is.                              *)
LEMMA CounterInvariant ==
  ASSUME IInv, TypeOK', SuccessesCovered', NoLater(Sample, Sample'),
         UNCHANGED <<publishQueue, reported>>, msg' = msg \/ msg' = NoSample
  PROVE  IInv'
<1>1. /\ Sample \in Samples /\ Sample' \in Samples /\ reported \in Samples
      /\ msg \in Messages /\ publishQueue \in Seq(Messages) /\ Len(publishQueue) \in Nat
  BY DEF IInv, TypeOK, Sample, Samples
<1>2. ASSUME NEW m \in Messages, Follows(m) PROVE m # NoSample => NoLater(m, Sample')
  BY <1>1, <1>2, MessageIsSample, NoLaterTransitive DEF Follows
<1>3. Queued'
  <2>1. \A i \in 1..Len(publishQueue) : publishQueue[i] \in Messages
    BY <1>1
  <2>2. QED BY <1>2, <2>1 DEF IInv, Queued, Follows
<1>4. InHand'
  BY <1>1, <1>2 DEF IInv, InHand, Follows
<1>5. Reported'
  BY <1>1, NoLaterTransitive DEF IInv, Reported
<1>6. QED BY <1>3, <1>4, <1>5 DEF IInv

(* What an interrupt appends is no sample or the newest one.                       *)
LEMMA SendInvariant ==
  ASSUME IInv, NEW m \in {Sample, NoSample}, SendFromISR(m)
  PROVE  IInv'
<1>1. /\ Sample \in Samples /\ Plausible(Sample) /\ m \in Messages
      /\ publishQueue \in Seq(Messages) /\ Len(publishQueue) \in Nat
      /\ UNCHANGED <<publishAttempts, publishSuccesses, publisher, msg, unacked, reported>>
      /\ Sample' = Sample
  BY CountersPlausible DEF IInv, TypeOK, Messages, SendFromISR, Sample
<1>2. CASE publishQueue' = publishQueue
  BY <1>1, <1>2 DEF IInv, TypeOK, SuccessesCovered, InHand, Queued, Reported, Follows
<1>3. CASE publishQueue' = Append(publishQueue, m) /\ Len(publishQueue) < QueueLength
  <2>1. /\ publishQueue' \in Seq(Messages) /\ Len(publishQueue') = Len(publishQueue) + 1
        /\ \A i \in 1..Len(publishQueue) : publishQueue'[i] = publishQueue[i]
        /\ publishQueue'[Len(publishQueue) + 1] = m
    BY <1>1, <1>3, AppendFacts
  <2>2. \A i \in 1..Len(publishQueue') : i \in 1..Len(publishQueue) \/ i = Len(publishQueue) + 1
    BY <1>1, <2>1
  <2>3. TypeOK' /\ SuccessesCovered'
    BY <1>1, <1>3, <2>1, StatisticsAssumption DEF IInv, TypeOK, SuccessesCovered
  <2>4. m # NoSample => m = Sample
    OBVIOUS
  <2>5. NoLater(Sample, Sample) /\ NoLater(reported, Sample)
    BY <1>1 DEF IInv, Reported, NoLater, Samples
  <2>6. InHand'
    BY <1>1, <2>1, <2>2, <2>4 DEF IInv, InHand, Follows
  <2>7. \A i \in 1..Len(publishQueue') : Follows(publishQueue[i])'
    BY <1>1, <2>1, <2>2, <2>4, <2>5 DEF IInv, Queued, Follows
  <2>8. ASSUME NEW i \in 1..Len(publishQueue'), NEW j \in 1..Len(publishQueue'), i < j,
               publishQueue'[i] # NoSample, publishQueue'[j] # NoSample
        PROVE  NoLater(publishQueue'[i], publishQueue'[j])
    <3>1. i \in 1..Len(publishQueue) /\ publishQueue'[i] = publishQueue[i]
      BY <1>1, <2>1, <2>8
    <3>2. CASE j \in 1..Len(publishQueue)
      BY <2>1, <2>8, <3>1, <3>2 DEF IInv, Queued
    <3>3. CASE j = Len(publishQueue) + 1
      BY <2>1, <2>4, <2>8, <3>1, <3>3 DEF IInv, Queued, Follows
    <3>4. QED BY <2>2, <3>2, <3>3
  <2>9. Queued'
    BY <2>7, <2>8 DEF Queued
  <2>10. QED BY <1>1, <2>3, <2>6, <2>9 DEF IInv, Reported
<1>4. QED BY <1>2, <1>3 DEF SendFromISR

(* The head of the queue precedes the rest of it.                                  *)
LEMMA ReceiveInvariant == ASSUME IInv, Receive PROVE IInv'
<1>1. /\ publishQueue \in Seq(Messages) /\ publishQueue # <<>> /\ publisher = "receive"
      /\ msg' = Head(publishQueue) /\ publishQueue' = Tail(publishQueue)
      /\ publisher' = "publish" /\ Sample' = Sample
      /\ UNCHANGED <<publishAttempts, publishSuccesses, unacked, reported>>
  BY DEF IInv, TypeOK, Receive, Sample
<1>2. /\ publishQueue' \in Seq(Messages) /\ msg' = publishQueue[1] /\ msg' \in Messages
      /\ Len(publishQueue) \in Nat /\ Len(publishQueue) >= 1
      /\ Len(publishQueue') = Len(publishQueue) - 1
      /\ \A i \in 1..Len(publishQueue') :
            publishQueue'[i] = publishQueue[i + 1] /\ i + 1 \in 1..Len(publishQueue)
  BY <1>1, HeadTailFacts
<1>3. TypeOK' /\ SuccessesCovered'
  BY <1>1, <1>2, StatisticsAssumption DEF IInv, TypeOK, SuccessesCovered
<1>4. Queued'
  <2>1. \A i \in 1..Len(publishQueue') : Follows(publishQueue[i])'
    BY <1>1, <1>2 DEF IInv, Queued, Follows
  <2>2. \A i, j \in 1..Len(publishQueue') : i < j => i + 1 < j + 1
    BY <1>2
  <2>3. QED BY <1>2, <2>1, <2>2 DEF IInv, Queued
<1>5. InHand'
  <2>1. 1 \in 1..Len(publishQueue) /\ \A i \in 1..Len(publishQueue') : 1 < i + 1
    BY <1>2
  <2>2. QED BY <1>1, <1>2, <2>1 DEF IInv, Queued, InHand, Follows
<1>6. QED BY <1>1, <1>3, <1>4, <1>5 DEF IInv, Reported

(* The message in hand becomes the last report.                                    *)
LEMMA PublishInvariant == ASSUME IInv, NEW sentOut \in BOOLEAN, Publish(sentOut) PROVE IInv'
<1>1. /\ publisher = "publish" /\ publisher' = "count" /\ Sample' = Sample
      /\ UNCHANGED <<publishAttempts, publishSuccesses, publishQueue, msg>>
      /\ unacked \in Nat /\ unacked' \in {unacked, unacked + 1}
      /\ publishAttempts \in Nat /\ publishSuccesses \in Nat
      /\ reported' = IF msg # NoSample THEN msg ELSE reported
      /\ msg \in Messages /\ reported \in Samples /\ Sample \in Samples
  BY DEF IInv, TypeOK, Publish, Sample, Samples
<1>2. publishSuccesses + unacked <= publishAttempts
  BY <1>1 DEF IInv, SuccessesCovered
<1>3. unacked' \in Nat /\ SuccessesCovered'
  <2>1. unacked' \in Nat /\ unacked' <= unacked + 1
    BY <1>1
  <2>2. /\ publishSuccesses' = publishSuccesses /\ publishAttempts' = publishAttempts
        /\ publishSuccesses \in Nat /\ publishAttempts \in Nat /\ unacked \in Nat
    BY <1>1
  <2>3. publishSuccesses + unacked' <= publishAttempts + 1
    BY <1>2, <2>1, <2>2, OneMore
  <2>4. publisher' = "count"
    BY <1>1
  <2>5. QED BY <2>1, <2>2, <2>3, <2>4 DEF SuccessesCovered
<1>4. CASE msg = NoSample
  <2>1. TypeOK' /\ SuccessesCovered'
    BY <1>1, <1>4, <1>3 DEF IInv, TypeOK
  <2>2. QED BY <1>1, <1>4, <2>1 DEF IInv, InHand, Queued, Reported, Follows
<1>5. CASE msg # NoSample
  <2>1. msg \in Samples /\ reported' = msg
    BY <1>1, <1>5, MessageIsSample
  <2>2. TypeOK' /\ SuccessesCovered'
    BY <1>1, <1>3, <2>1 DEF IInv, TypeOK
  <2>3. NoLater(msg, msg)
    BY <2>1 DEF NoLater, Samples
  <2>4. InHand' /\ Queued' /\ Reported'
    BY <1>1, <1>5, <2>1, <2>3 DEF IInv, InHand, Queued, Reported, Follows
  <2>5. QED BY <2>2, <2>4 DEF IInv
<1>6. QED BY <1>4, <1>5

LEMMA InductiveStep == IInv /\ [Next]_vars => IInv'
<1> SUFFICES ASSUME IInv, [Next]_vars PROVE IInv'
  OBVIOUS
<1>1. /\ publishAttempts \in Nat /\ publishSuccesses \in Nat /\ unacked \in Nat
  BY DEF IInv, TypeOK
<1>2. CASE Receive
  BY <1>2, ReceiveInvariant
<1>3. CASE \E sentOut \in BOOLEAN : Publish(sentOut)
  BY <1>3, PublishInvariant
<1>4. CASE incrementPublishAttempts
  <2>1. TypeOK' /\ SuccessesCovered'
    BY <1>1, <1>4 DEF IInv, TypeOK, SuccessesCovered, incrementPublishAttempts, Messages
  <2>2. NoLater(Sample, Sample')
    BY <1>1, <1>4 DEF NoLater, Sample, incrementPublishAttempts
  <2>3. QED BY <1>4, <2>1, <2>2, CounterInvariant DEF incrementPublishAttempts
<1>5. CASE PubAck
  <2>1. TypeOK' /\ SuccessesCovered'
    BY <1>1, <1>5 DEF IInv, TypeOK, SuccessesCovered, PubAck
  <2>2. NoLater(Sample, Sample')
    BY <1>1, <1>5 DEF NoLater, Sample, PubAck
  <2>3. QED BY <1>5, <2>1, <2>2, CounterInvariant DEF PubAck
<1>6. CASE statisticsTimerCallback
  BY <1>6, SendInvariant DEF statisticsTimerCallback
<1>7. CASE OtherMessage
  BY <1>7, SendInvariant DEF OtherMessage
<1>8. CASE UNCHANGED vars
  BY <1>8 DEF vars, IInv, TypeOK, SuccessesCovered, InHand, Queued, Reported, Follows, Sample
<1>9. QED BY <1>2, <1>3, <1>4, <1>5, <1>6, <1>7, <1>8 DEF Next

LEMMA Invariance == Spec => []IInv
  BY InitInvariant, InductiveStep, PTL DEF Spec

-----------------------------------------------------------------------------
(* Counters, queue and reports keep their types and the queue its length.          *)
THEOREM TypeCorrect == Spec => []TypeOK
  BY Invariance, PTL DEF IInv

(* No interleaving of publications, acknowledgements and counts loses the balance.  *)
THEOREM Covered == Spec => []SuccessesCovered
  BY Invariance, PTL DEF IInv

(* Nor does sampling in an interrupt and publishing later.                          *)
THEOREM Plausibility == Spec => []ReportPlausible
<1>1. IInv => ReportPlausible
  BY DEF IInv, Reported, Plausible, ReportPlausible
<1>2. QED BY <1>1, Invariance, PTL

(* Each report is at least as new as the one before it.                             *)
THEOREM ReportsOrdered == Spec => ReportsNeverDecrease
<1>1. IInv /\ [Next]_vars
        => [reported'[1] >= reported[1] /\ reported'[2] >= reported[2]]_vars
  <2> SUFFICES ASSUME IInv, Next
               PROVE  reported'[1] >= reported[1] /\ reported'[2] >= reported[2]
    OBVIOUS
  <2>1. reported \in Samples
    BY DEF IInv, TypeOK
  <2>2. CASE UNCHANGED reported
    BY <2>1, <2>2 DEF Samples
  <2>3. CASE \E sentOut \in BOOLEAN : Publish(sentOut)
    <3>1. (reported' = msg /\ msg # NoSample) \/ reported' = reported
      BY <2>3 DEF Publish
    <3>2. CASE reported' = msg /\ msg # NoSample
      <4>1. msg \in Samples /\ NoLater(reported, msg)
        BY <3>2, MessageIsSample DEF IInv, TypeOK, InHand, Follows
      <4>2. QED BY <2>1, <3>2, <4>1 DEF NoLater, Samples
    <3>3. QED BY <2>2, <3>1, <3>2
  <2>4. QED
    BY <2>2, <2>3 DEF Next, Receive, incrementPublishAttempts, PubAck,
       statisticsTimerCallback, OtherMessage, SendFromISR
<1>2. QED BY <1>1, Invariance, PTL DEF Spec, ReportsNeverDecrease
=============================================================================
