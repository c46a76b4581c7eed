----------------------- MODULE MessagePipeline_proofs -----------------------
(* Safety of MessagePipeline for queues of every length and any number of        *)
(* statuses. The numbers of the statuses make the argument: behind the newest    *)
(* accepted one, each thread's hand and each queue holds the next lower numbers, *)
(* down to the last one handed over; only publishQueue has other messages mixed  *)
(* in, so there the statuses are increasing and complete rather than contiguous. *)
EXTENDS MessagePipeline, FiniteSetTheorems, TLAPS

-----------------------------------------------------------------------------
(* The inductive invariant.                                                      *)

\* The last status to have left publishQueue, mainQueue's end and mainQueue's front.
Taken    == Len(handed) + (IF IsStatus(publisherMsg) THEN 1 ELSE 0)
Enqueued == accepted - (IF rx = "send" THEN 1 ELSE 0)
Passed   == Enqueued - Len(mainQueue) - (IF main = "send" THEN 1 ELSE 0)

HandedInOrder == \A n \in 1..Len(handed) : handed[n] = n

PublisherHand ==
    IF publisher = "publish"
    THEN publisherMsg \in {Statistics, General, Len(handed) + 1}
    ELSE publisherMsg = NoMsg

RxHand == rxStatus = IF rx = "send" THEN accepted ELSE NoMsg

MainHand == mainStatus = IF main = "send" THEN Passed + 1 ELSE NoMsg

MainQueueContiguous ==
    \A i \in 1..Len(mainQueue) : mainQueue[i] = Enqueued - Len(mainQueue) + i

PublishQueueRange ==
    \A i \in 1..Len(publishQueue) :
        publishQueue[i] \in {Statistics, General} \/ publishQueue[i] \in (Taken + 1)..Passed

PublishQueueIncreasing ==
    \A i, j \in 1..Len(publishQueue) :
        (i < j /\ IsStatus(publishQueue[i]) /\ IsStatus(publishQueue[j]))
            => publishQueue[i] < publishQueue[j]

PublishQueueComplete ==
    \A n \in (Taken + 1)..Passed : \E i \in 1..Len(publishQueue) : publishQueue[i] = n

Counting == Taken <= Passed /\ (rx = "send" => accepted >= 1)

\* A session or a status needs a publisher that has got as far as connecting.
Drained ==
    (session # "none" \/ accepted > 0) => publisher \in {"subscribe", "receive", "publish"}

\* Threads exist only after the one that creates them has.
Creation ==
    /\ main \in {"boot", "connectAP", "startMqtt"} => publisher = "none"
    /\ publisher \in {"none", "start", "createRx"} => rx = "none"

IInv ==
    /\ TypeOK
    /\ HandedInOrder
    /\ PublisherHand
    /\ RxHand
    /\ MainHand
    /\ MainQueueContiguous
    /\ PublishQueueRange
    /\ PublishQueueIncreasing
    /\ PublishQueueComplete
    /\ Counting
    /\ Drained
    /\ Creation

-----------------------------------------------------------------------------
(* Facts about sequences used as queues.                                         *)

LEMMA AppendFacts ==
  ASSUME NEW S, NEW q \in Seq(S), NEW e \in S
  PROVE  /\ Append(q, e) \in Seq(S)
         /\ Len(Append(q, e)) = Len(q) + 1
         /\ \A i \in 1..Len(q) : Append(q, e)[i] = q[i]
         /\ Append(q, e)[Len(q) + 1] = e
  OBVIOUS

LEMMA HeadTailFacts ==
  ASSUME NEW S, NEW q \in Seq(S), q # <<>>
  PROVE  /\ Tail(q) \in Seq(S)
         /\ Len(q) >= 1
         /\ Head(q) = q[1]
         /\ Len(Tail(q)) = Len(q) - 1
         /\ \A i \in 1..(Len(q) - 1) : Tail(q)[i] = q[i + 1]
  OBVIOUS

-----------------------------------------------------------------------------
LEMMA InitInvariant == Init => IInv
  BY QueueLengthAssumption DEF Init, IInv, TypeOK, HandedInOrder, PublisherHand, RxHand,
     MainHand, MainQueueContiguous, PublishQueueRange, PublishQueueIncreasing,
     PublishQueueComplete, Counting, Drained, Creation, Taken, Enqueued, Passed, NoMsg, IsStatus

(* Steps that touch no message.                                                  *)
LEMMA QuietInvariant ==
  ASSUME IInv, UNCHANGED <<mainStatus, publisherMsg, rxStatus, mainQueue, publishQueue, history>>,
         main = "send" <=> main' = "send", rx # "send" <=> rx' # "send",
         publisher = "publish" <=> publisher' = "publish",
         TypeOK', Drained', Creation'
  PROVE  IInv'
<1>1. Taken' = Taken /\ Enqueued' = Enqueued /\ Passed' = Passed
  BY DEF Taken, Enqueued, Passed, history
<1>2. HandedInOrder' /\ PublisherHand' /\ RxHand' /\ MainHand'
  BY <1>1 DEF IInv, HandedInOrder, PublisherHand, RxHand, MainHand, history, TypeOK
<1>3. MainQueueContiguous' /\ PublishQueueRange' /\ PublishQueueIncreasing' /\ PublishQueueComplete'
  BY <1>1 DEF IInv, MainQueueContiguous, PublishQueueRange, PublishQueueIncreasing,
     PublishQueueComplete
<1>4. Counting'
  BY <1>1 DEF IInv, Counting, history
<1>5. QED BY <1>2, <1>3, <1>4 DEF IInv

(* The main task takes the oldest status out of mainQueue.                       *)
LEMMA MainReceiveInvariant == ASSUME IInv, MainReceive PROVE IInv'
<1> USE DEF IInv, MainReceive, history, rxVars, publisherVars, network
<1>1. /\ mainQueue \in Seq(Nat) /\ accepted \in Nat /\ mainQueue # <<>>
      /\ mainQueue' = Tail(mainQueue) /\ mainStatus' = mainQueue[1]
  BY HeadTailFacts DEF TypeOK
<1>2. /\ mainQueue' \in Seq(Nat) /\ Len(mainQueue) >= 1 /\ Len(mainQueue) \in Nat
      /\ Len(mainQueue') = Len(mainQueue) - 1
      /\ \A i \in 1..Len(mainQueue') : mainQueue'[i] = mainQueue[i + 1]
  BY <1>1, HeadTailFacts
<1>3. mainQueue[1] \in Nat
  BY <1>1, <1>2
<1>4. TypeOK'
  BY <1>1, <1>2, <1>3, QueueLengthAssumption DEF TypeOK
<1>5. Enqueued \in Int /\ Enqueued' = Enqueued
  BY <1>1 DEF Enqueued
<1>6. Taken' = Taken /\ Passed' = Passed
  BY <1>1, <1>2, <1>5 DEF Taken, Passed
<1>7. HandedInOrder' /\ PublisherHand' /\ RxHand' /\ Counting' /\ Drained' /\ Creation'
  BY <1>6 DEF HandedInOrder, PublisherHand, RxHand, Counting, Drained, Creation
<1>8. MainHand'
  BY <1>1, <1>2, <1>5, <1>6 DEF MainHand, MainQueueContiguous, Passed
<1>9. MainQueueContiguous'
  BY <1>2, <1>5 DEF MainQueueContiguous
<1>10. PublishQueueRange' /\ PublishQueueIncreasing' /\ PublishQueueComplete'
  BY <1>6 DEF PublishQueueRange, PublishQueueIncreasing, PublishQueueComplete
<1>11. QED BY <1>4, <1>7, <1>8, <1>9, <1>10

(* The main task puts it at the end of publishQueue.                             *)
LEMMA MainSendInvariant == ASSUME IInv, MainSend PROVE IInv'
<1> USE DEF IInv, MainSend, history, rxVars, publisherVars, network
<1>1. /\ publishQueue \in Seq(Int) /\ mainStatus \in Nat /\ accepted \in Nat
      /\ Len(publishQueue) \in Nat /\ Len(mainQueue) \in Nat /\ Len(handed) \in Nat
  BY DEF TypeOK
<1>2. /\ publishQueue' \in Seq(Int)
      /\ Len(publishQueue') = Len(publishQueue) + 1
      /\ \A i \in 1..Len(publishQueue) : publishQueue'[i] = publishQueue[i]
      /\ publishQueue'[Len(publishQueue) + 1] = mainStatus
  BY <1>1, AppendFacts
<1>3. TypeOK'
  BY <1>1, <1>2, QueueLengthAssumption DEF TypeOK, NoMsg
<1>4. Taken' = Taken /\ Taken \in Nat /\ Enqueued' = Enqueued /\ Passed \in Int
  BY <1>1 DEF Taken, Enqueued, Passed
<1>5. Passed' = Passed + 1 /\ mainStatus = Passed + 1
  BY <1>1, <1>4 DEF Enqueued, Passed, MainHand
<1>6. HandedInOrder' /\ PublisherHand' /\ RxHand' /\ Drained' /\ Creation'
  BY DEF HandedInOrder, PublisherHand, RxHand, Drained, Creation
<1>7. MainHand' /\ MainQueueContiguous'
  BY <1>4 DEF MainHand, MainQueueContiguous
<1>8. Counting'
  BY <1>4, <1>5 DEF Counting
<1>9. PublishQueueRange'
  BY <1>1, <1>2, <1>4, <1>5 DEF PublishQueueRange, Counting
<1>10. PublishQueueIncreasing'
  <2> SUFFICES ASSUME NEW i \in 1..Len(publishQueue'), NEW j \in 1..Len(publishQueue'),
                      i < j, IsStatus(publishQueue'[i]), IsStatus(publishQueue'[j])
               PROVE  publishQueue'[i] < publishQueue'[j]
    BY DEF PublishQueueIncreasing
  <2>1. CASE j \in 1..Len(publishQueue)
    BY <1>1, <1>2, <2>1 DEF PublishQueueIncreasing
  <2>2. CASE j = Len(publishQueue) + 1
    <3>1. i \in 1..Len(publishQueue) /\ publishQueue'[i] = publishQueue[i]
      BY <1>1, <1>2, <2>2
    <3>2. publishQueue[i] \in (Taken + 1)..Passed
      BY <3>1 DEF PublishQueueRange, IsStatus, Statistics, General, NoMsg
    <3>3. publishQueue'[j] = Passed + 1
      BY <1>2, <1>5, <2>2
    <3>4. QED BY <1>4, <3>1, <3>2, <3>3
  <2>3. j \in 1..Len(publishQueue) \/ j = Len(publishQueue) + 1
    BY <1>1, <1>2
  <2>4. QED BY <2>1, <2>2, <2>3
<1>11. PublishQueueComplete'
  BY <1>1, <1>2, <1>4, <1>5 DEF PublishQueueComplete
<1>12. QED BY <1>3, <1>6, <1>7, <1>8, <1>9, <1>10, <1>11

(* A timer's message joins publishQueue or is dropped; the statuses stay.        *)
LEMMA TimerInterruptInvariant ==
  ASSUME IInv, NEW msg \in {Statistics, General}, TimerInterrupt(msg) PROVE IInv'
<1> USE DEF IInv, history, rxVars, publisherVars, mainVars, network
<1>1. CASE UNCHANGED publishQueue
  BY <1>1, QuietInvariant DEF TimerInterrupt, TypeOK, Drained, Creation
<1>2. CASE publishQueue' = Append(publishQueue, msg) /\ Len(publishQueue) < QueueLength
  <2>1. publishQueue \in Seq(Int) /\ msg \in Int /\ ~IsStatus(msg)
    BY DEF TypeOK, Statistics, General, IsStatus, NoMsg
  <2>2. /\ publishQueue' \in Seq(Int) /\ Len(publishQueue) \in Nat
        /\ Len(publishQueue') = Len(publishQueue) + 1
        /\ \A i \in 1..Len(publishQueue) : publishQueue'[i] = publishQueue[i]
        /\ publishQueue'[Len(publishQueue) + 1] = msg
    BY <1>2, <2>1, AppendFacts
  <2>3. TypeOK'
    BY <1>2, <2>2, QueueLengthAssumption DEF TypeOK, TimerInterrupt
  <2>4. Taken' = Taken /\ Enqueued' = Enqueued /\ Passed' = Passed
    BY DEF Taken, Enqueued, Passed, TimerInterrupt
  <2>5. HandedInOrder' /\ PublisherHand' /\ RxHand' /\ MainHand' /\ Drained' /\ Creation'
    BY <2>4 DEF HandedInOrder, PublisherHand, RxHand, MainHand, Drained, Creation, TimerInterrupt
  <2>6. MainQueueContiguous' /\ Counting'
    BY <2>4 DEF MainQueueContiguous, Counting, TimerInterrupt
  <2>7. PublishQueueRange'
    BY <2>2, <2>4 DEF PublishQueueRange
  <2>8. PublishQueueIncreasing'
    <3> SUFFICES ASSUME NEW i \in 1..Len(publishQueue'), NEW j \in 1..Len(publishQueue'),
                        i < j, IsStatus(publishQueue'[i]), IsStatus(publishQueue'[j])
                 PROVE  publishQueue'[i] < publishQueue'[j]
      BY DEF PublishQueueIncreasing
    <3>1. i # Len(publishQueue) + 1 /\ j # Len(publishQueue) + 1
      BY <2>1, <2>2
    <3>2. i \in 1..Len(publishQueue) /\ j \in 1..Len(publishQueue)
      BY <2>2, <3>1
    <3>3. QED BY <2>2, <3>2 DEF PublishQueueIncreasing
  <2>9. PublishQueueComplete'
    BY <2>2, <2>4 DEF PublishQueueComplete
  <2>10. QED BY <2>3, <2>5, <2>6, <2>7, <2>8, <2>9
<1>3. QED BY <1>1, <1>2 DEF TimerInterrupt

(* The callback accepts a status into its hand.                                  *)
LEMMA AcceptStatusInvariant == ASSUME IInv, AcceptStatus PROVE IInv'
<1> USE DEF IInv, AcceptStatus, mainVars, publisherVars, network
<1>1. /\ accepted \in Nat /\ accepted' = accepted + 1
      /\ Len(handed) \in Nat /\ Len(mainQueue) \in Nat
  BY DEF TypeOK
<1>2. TypeOK'
  BY <1>1 DEF TypeOK
<1>3. Taken' = Taken /\ Enqueued' = Enqueued /\ Passed' = Passed
  BY <1>1 DEF Taken, Enqueued, Passed
<1>4. HandedInOrder' /\ PublisherHand' /\ RxHand' /\ MainHand' /\ Drained' /\ Creation'
  BY <1>3 DEF HandedInOrder, PublisherHand, RxHand, MainHand, Drained, Creation
<1>5. MainQueueContiguous' /\ PublishQueueRange' /\ PublishQueueIncreasing' /\ PublishQueueComplete'
  BY <1>3 DEF MainQueueContiguous, PublishQueueRange, PublishQueueIncreasing, PublishQueueComplete
<1>6. Counting'
  BY <1>1, <1>3 DEF Counting
<1>7. QED BY <1>2, <1>4, <1>5, <1>6

(* updateStatus puts it at the end of mainQueue.                                 *)
LEMMA UpdateStatusInvariant == ASSUME IInv, UpdateStatus PROVE IInv'
<1> USE DEF IInv, UpdateStatus, mainVars, publisherVars, network, history
<1>1. /\ mainQueue \in Seq(Nat) /\ rxStatus \in Nat /\ accepted \in Nat
      /\ Len(mainQueue) \in Nat /\ Len(handed) \in Nat
  BY DEF TypeOK
<1>2. /\ mainQueue' \in Seq(Nat)
      /\ Len(mainQueue') = Len(mainQueue) + 1
      /\ \A i \in 1..Len(mainQueue) : mainQueue'[i] = mainQueue[i]
      /\ mainQueue'[Len(mainQueue) + 1] = rxStatus
  BY <1>1, AppendFacts
<1>3. TypeOK'
  BY <1>1, <1>2, QueueLengthAssumption DEF TypeOK, NoMsg
<1>4. /\ Enqueued \in Int /\ Enqueued' = Enqueued + 1 /\ rxStatus = Enqueued + 1
      /\ Taken' = Taken /\ Passed' = Passed
  BY <1>1, <1>2 DEF Taken, Enqueued, Passed, RxHand
<1>5. HandedInOrder' /\ PublisherHand' /\ RxHand' /\ MainHand' /\ Counting' /\ Drained' /\ Creation'
  BY <1>4 DEF HandedInOrder, PublisherHand, RxHand, MainHand, Counting, Drained, Creation
<1>6. MainQueueContiguous'
  BY <1>1, <1>2, <1>4 DEF MainQueueContiguous
<1>7. PublishQueueRange' /\ PublishQueueIncreasing' /\ PublishQueueComplete'
  BY <1>4 DEF PublishQueueRange, PublishQueueIncreasing, PublishQueueComplete
<1>8. QED BY <1>3, <1>5, <1>6, <1>7

(* The status at the head of publishQueue is the next one to hand over.          *)
LEMMA HeadIsNext ==
  ASSUME IInv, publishQueue # <<>>, publisher # "publish", IsStatus(publishQueue[1])
  PROVE  publishQueue[1] = Len(handed) + 1
<1> USE DEF IInv
<1>1. /\ publishQueue \in Seq(Int) /\ Len(publishQueue) \in Nat /\ Len(publishQueue) >= 1
      /\ Len(handed) \in Nat /\ Passed \in Int
  BY DEF TypeOK, Passed, Enqueued
<1>2. Taken = Len(handed)
  BY <1>1 DEF PublisherHand, Taken, IsStatus, NoMsg
<1>3. publishQueue[1] \in (Taken + 1)..Passed
  BY <1>1 DEF PublishQueueRange, IsStatus, Statistics, General, NoMsg
<1>4. PICK i \in 1..Len(publishQueue) : publishQueue[i] = Taken + 1
  BY <1>1, <1>2, <1>3 DEF PublishQueueComplete
<1>5. i > 1 => publishQueue[1] < publishQueue[i]
  BY <1>1, <1>2, <1>4 DEF PublishQueueIncreasing, IsStatus, NoMsg
<1>6. QED BY <1>1, <1>2, <1>3, <1>4, <1>5

(* The publisher takes the message at the head of publishQueue.                  *)
LEMMA PublisherReceiveInvariant == ASSUME IInv, PublisherReceive PROVE IInv'
<1> USE DEF IInv, mainVars, rxVars, network, history
<1>1. /\ publishQueue \in Seq(Int) /\ publishQueue # <<>> /\ Len(handed) \in Nat
      /\ publisher = "receive" /\ publisher' = "publish" /\ publisherMsg = NoMsg
      /\ publisherMsg' = Head(publishQueue) /\ publishQueue' = Tail(publishQueue)
      /\ UNCHANGED <<main, mainStatus, rx, rxStatus, ap, session, mainQueue, accepted, handed>>
  BY DEF TypeOK, PublisherReceive, PublisherStep, PublisherHand
<1>2. /\ publishQueue' \in Seq(Int) /\ Len(publishQueue) \in Nat /\ Len(publishQueue) >= 1
      /\ publisherMsg' = publishQueue[1] /\ publishQueue[1] \in Int
      /\ Len(publishQueue') = Len(publishQueue) - 1
      /\ \A i \in 1..Len(publishQueue') : publishQueue'[i] = publishQueue[i + 1]
  BY <1>1, HeadTailFacts
<1>3. TypeOK'
  BY <1>1, <1>2, QueueLengthAssumption DEF TypeOK
<1>4. Enqueued' = Enqueued /\ Passed' = Passed /\ Taken = Len(handed)
  BY <1>1 DEF Enqueued, Passed, Taken, IsStatus, NoMsg
<1>5. Taken' = IF IsStatus(publishQueue[1]) THEN Taken + 1 ELSE Taken
  BY <1>1, <1>2, <1>4 DEF Taken
<1>6. IsStatus(publishQueue[1]) => publishQueue[1] = Taken + 1
  BY <1>1, <1>4, HeadIsNext
<1>7. HandedInOrder' /\ RxHand' /\ MainHand' /\ MainQueueContiguous' /\ Drained' /\ Creation'
  BY <1>1, <1>4 DEF HandedInOrder, RxHand, MainHand, MainQueueContiguous, Drained, Creation
<1>8. publishQueue[1] \in {Statistics, General} \/ publishQueue[1] \in (Taken + 1)..Passed
  BY <1>2 DEF PublishQueueRange
<1>9. Passed \in Int /\ Taken \in Nat
  BY <1>1, <1>4 DEF Passed, Enqueued, TypeOK
<1>10. PublisherHand'
  BY <1>1, <1>2, <1>4, <1>6, <1>8, <1>9 DEF PublisherHand, IsStatus, NoMsg
<1>11. Counting'
  BY <1>1, <1>4, <1>5, <1>6, <1>8, <1>9 DEF Counting, IsStatus, NoMsg, Statistics, General
<1>12. PublishQueueRange'
  <2> SUFFICES ASSUME NEW i \in 1..Len(publishQueue')
               PROVE  \/ publishQueue'[i] \in {Statistics, General}
                      \/ publishQueue'[i] \in (Taken' + 1)..Passed'
    BY DEF PublishQueueRange
  <2>1. i + 1 \in 1..Len(publishQueue) /\ publishQueue'[i] = publishQueue[i + 1] /\ 1 < i + 1
    BY <1>2
  <2>2. CASE publishQueue[i + 1] \in {Statistics, General}
    BY <2>1, <2>2
  <2>3. CASE publishQueue[i + 1] \in (Taken + 1)..Passed
    <3>1. IsStatus(publishQueue[i + 1])
      BY <1>9, <2>3 DEF IsStatus, NoMsg
    <3>2. IsStatus(publishQueue[1]) => publishQueue[1] < publishQueue[i + 1]
      BY <1>2, <2>1, <3>1 DEF PublishQueueIncreasing
    <3>3. QED BY <1>4, <1>5, <1>6, <1>9, <2>1, <2>3, <3>2
  <2>4. QED BY <2>1, <2>2, <2>3 DEF PublishQueueRange
<1>13. PublishQueueIncreasing'
  <2> SUFFICES ASSUME NEW i \in 1..Len(publishQueue'), NEW j \in 1..Len(publishQueue'),
                      i < j, IsStatus(publishQueue'[i]), IsStatus(publishQueue'[j])
               PROVE  publishQueue'[i] < publishQueue'[j]
    BY DEF PublishQueueIncreasing
  <2>1. /\ i + 1 \in 1..Len(publishQueue) /\ publishQueue'[i] = publishQueue[i + 1]
        /\ j + 1 \in 1..Len(publishQueue) /\ publishQueue'[j] = publishQueue[j + 1]
        /\ i + 1 < j + 1
    BY <1>2
  <2>2. QED BY <2>1 DEF PublishQueueIncreasing
<1>14. PublishQueueComplete'
  <2> SUFFICES ASSUME NEW n \in (Taken' + 1)..Passed'
               PROVE  \E i \in 1..Len(publishQueue') : publishQueue'[i] = n
    BY DEF PublishQueueComplete
  <2>1. n \in (Taken + 1)..Passed /\ publishQueue[1] # n
    BY <1>4, <1>5, <1>6, <1>8, <1>9 DEF IsStatus, NoMsg, Statistics, General
  <2>2. PICK i \in 1..Len(publishQueue) : publishQueue[i] = n
    BY <2>1 DEF PublishQueueComplete
  <2>3. i - 1 \in 1..Len(publishQueue') /\ publishQueue'[i - 1] = n
    BY <1>2, <2>1, <2>2
  <2>4. QED BY <2>3
<1>15. QED BY <1>3, <1>7, <1>10, <1>11, <1>12, <1>13, <1>14

(* The publisher hands its message over.                                         *)
LEMMA PublishInvariant == ASSUME IInv, Publish PROVE IInv'
<1> USE DEF IInv, mainVars, rxVars, network
<1>1. /\ publisher = "publish" /\ publisher' = "receive" /\ publisherMsg' = NoMsg
      /\ publisherMsg \in {Statistics, General, Len(handed) + 1}
      /\ handed \in Seq(Nat) /\ Len(handed) \in Nat
      /\ UNCHANGED <<main, mainStatus, rx, rxStatus, ap, session, mainQueue, publishQueue, accepted>>
  BY DEF TypeOK, Publish, PublisherStep, PublisherHand
<1>2. Enqueued' = Enqueued /\ Passed' = Passed
  BY <1>1 DEF Enqueued, Passed
<1>3. /\ handed' \in Seq(Nat) /\ HandedInOrder' /\ Taken' = Taken
  <2>1. CASE IsStatus(publisherMsg)
    <3>1. publisherMsg = Len(handed) + 1 /\ handed' = Append(handed, publisherMsg)
      BY <1>1, <2>1 DEF Publish, IsStatus, Statistics, General, NoMsg
    <3>2. /\ handed' \in Seq(Nat) /\ Len(handed') = Len(handed) + 1
          /\ \A i \in 1..Len(handed) : handed'[i] = handed[i]
          /\ handed'[Len(handed) + 1] = Len(handed) + 1
      BY <1>1, <3>1, AppendFacts
    <3>3. QED BY <1>1, <2>1, <3>2 DEF HandedInOrder, Taken, IsStatus, NoMsg
  <2>2. CASE ~IsStatus(publisherMsg)
    <3>1. handed' = handed
      BY <2>2 DEF Publish
    <3>2. QED BY <1>1, <2>2, <3>1 DEF HandedInOrder, Taken, IsStatus, NoMsg
  <2>3. QED BY <2>1, <2>2
<1>4. TypeOK'
  BY <1>1, <1>3 DEF TypeOK, NoMsg
<1>5. PublisherHand' /\ RxHand' /\ MainHand' /\ MainQueueContiguous' /\ Counting' /\ Drained' /\ Creation'
  BY <1>1, <1>2, <1>3 DEF PublisherHand, RxHand, MainHand, MainQueueContiguous, Counting, Drained, Creation
<1>6. PublishQueueRange' /\ PublishQueueIncreasing' /\ PublishQueueComplete'
  BY <1>1, <1>2, <1>3 DEF PublishQueueRange, PublishQueueIncreasing, PublishQueueComplete
<1>7. QED BY <1>3, <1>4, <1>5, <1>6

LEMMA InductiveStep == IInv /\ [Next]_vars => IInv'
<1> SUFFICES ASSUME IInv, [Next]_vars PROVE IInv'
  OBVIOUS
<1> USE DEF mainVars, publisherVars, rxVars, network, history, PublisherStep
<1>1. TypeOK /\ Drained /\ Creation
  BY DEF IInv
<1>2. CASE InitMsgQueues
  BY <1>1, <1>2, QuietInvariant DEF InitMsgQueues, TypeOK, Drained, Creation
<1>3. CASE \E result \in {"up", "down"} : ConnectAP(result)
  BY <1>1, <1>3, QuietInvariant DEF ConnectAP, TypeOK, Drained, Creation
<1>4. CASE \E created \in BOOLEAN : MqttStart(created)
  <2>1. PICK created \in BOOLEAN : MqttStart(created)
    BY <1>4
  <2>2. publisher # "publish"
    BY <1>1, <2>1 DEF MqttStart, Creation
  <2>3. QED BY <1>1, <2>1, <2>2, QuietInvariant DEF MqttStart, TypeOK, Drained, Creation
<1>5. CASE MainReceive
  BY <1>5, MainReceiveInvariant
<1>6. CASE MainSend
  BY <1>6, MainSendInvariant
<1>7. CASE PublisherStart
  <2>1. PICK ok \in BOOLEAN : CreateClient(ok) \/ CreateRxThread(ok)
                             \/ ConnectBroker(ok) \/ Subscribe(ok)
    BY <1>7 DEF PublisherStart
  <2>2. CASE CreateClient(ok)
    BY <1>1, <2>2, QuietInvariant DEF CreateClient, TypeOK, Drained, Creation
  <2>3. CASE CreateRxThread(ok)
    BY <1>1, <2>3, QuietInvariant DEF CreateRxThread, TypeOK, Drained, Creation
  <2>4. CASE ConnectBroker(ok)
    BY <1>1, <2>4, QuietInvariant DEF ConnectBroker, TypeOK, Drained, Creation
  <2>5. CASE Subscribe(ok)
    BY <1>1, <2>5, QuietInvariant DEF Subscribe, TypeOK, Drained, Creation
  <2>6. QED BY <2>1, <2>2, <2>3, <2>4, <2>5
<1>8. CASE PublisherReceive
  BY <1>8, PublisherReceiveInvariant
<1>9. CASE Publish
  BY <1>9, PublishInvariant
<1>10. CASE AcceptStatus
  BY <1>10, AcceptStatusInvariant
<1>11. CASE UpdateStatus
  BY <1>11, UpdateStatusInvariant
<1>12. CASE \E msg \in {Statistics, General} : TimerInterrupt(msg)
  BY <1>12, TimerInterruptInvariant
<1>13. CASE SessionLost
  BY <1>1, <1>13, QuietInvariant DEF SessionLost, TypeOK, Drained, Creation
<1>14. CASE UNCHANGED vars
  BY <1>1, <1>14, QuietInvariant DEF vars, TypeOK, Drained, Creation
<1>15. QED
  BY <1>2, <1>3, <1>4, <1>5, <1>6, <1>7, <1>8, <1>9, <1>10, <1>11, <1>12, <1>13, <1>14
     DEF Next, MainTask, Publisher, ReceiveThread

LEMMA Invariance == Spec => []IInv
  BY InitInvariant, InductiveStep, PTL DEF Spec

-----------------------------------------------------------------------------
(* What the inductive invariant says of statuses.                                *)

(* Each status beyond the last one handed over is in a hand or a queue.           *)
LEMMA StatusesHeld == IInv => NothingLost
<1> SUFFICES ASSUME IInv PROVE NothingLost
  OBVIOUS
<1> USE DEF IInv
<1>1. /\ handed \in Seq(Nat) /\ Len(handed) \in Nat /\ accepted \in Nat
      /\ Len(mainQueue) \in Nat
  BY DEF TypeOK
<1>2. handed = [n \in 1..Len(handed) |-> n]
  BY <1>1 DEF HandedInOrder
<1>3. ASSUME NEW n \in (Len(handed) + 1)..accepted
      PROVE  n \in InTransit
  <2>1. Taken \in Nat /\ Enqueued \in Int /\ Passed \in Int
    BY <1>1 DEF Taken, Enqueued, Passed
  <2>2. CASE n <= Taken
    <3>1. IsStatus(publisherMsg) /\ n = Len(handed) + 1
      BY <1>1, <2>2 DEF Taken
    <3>2. publisherMsg = n
      BY <3>1 DEF PublisherHand, IsStatus, NoMsg, Statistics, General
    <3>3. QED BY <3>2 DEF InTransit
  <2>3. CASE n \in (Taken + 1)..Passed
    BY <2>3 DEF PublishQueueComplete, InTransit, Entries
  <2>4. CASE n > Passed /\ n <= Enqueued - Len(mainQueue)
    <3>1. main = "send" /\ n = Passed + 1
      BY <1>1, <2>1, <2>4 DEF Passed
    <3>2. QED BY <3>1 DEF MainHand, InTransit
  <2>5. CASE n > Enqueued - Len(mainQueue) /\ n <= Enqueued
    <3> DEFINE i == n - (Enqueued - Len(mainQueue))
    <3>1. i \in 1..Len(mainQueue) /\ mainQueue[i] = n
      BY <1>1, <2>1, <2>5 DEF MainQueueContiguous
    <3>2. QED BY <3>1 DEF InTransit, Entries
  <2>6. CASE n > Enqueued
    <3>1. rx = "send" /\ n = accepted
      BY <1>1, <2>1, <2>6 DEF Enqueued
    <3>2. QED BY <3>1 DEF RxHand, InTransit
  <2>7. QED BY <1>1, <2>1, <2>2, <2>3, <2>4, <2>5, <2>6
<1>4. QED BY <1>2, <1>3 DEF NothingLost

LEMMA PublisherStays == IInv => SomeoneDrains
  BY DEF IInv, Drained, SomeoneDrains, PublisherAlive

(* How far apart the reference points of the path are.                           *)
LEMMA Distances ==
  ASSUME IInv
  PROVE  /\ accepted \in Nat /\ Len(handed) \in Nat
         /\ Len(publishQueue) \in 0..QueueLength /\ Len(mainQueue) \in 0..QueueLength
         /\ Taken \in Nat /\ Enqueued \in Int /\ Passed \in Int /\ Taken <= Passed
         /\ Taken <= Len(handed) + 1
         /\ Passed >= Enqueued - Len(mainQueue) - 1
         /\ Enqueued >= accepted - 1 /\ (rx # "send" => Enqueued = accepted)
<1>1. /\ accepted \in Nat /\ Len(handed) \in Nat
      /\ Len(publishQueue) \in 0..QueueLength /\ Len(mainQueue) \in 0..QueueLength
  BY QueueLengthAssumption DEF IInv, TypeOK
<1>2. Taken \in Nat /\ Taken <= Len(handed) + 1
  BY <1>1 DEF Taken
<1>3. Enqueued \in Int /\ Enqueued >= accepted - 1 /\ (rx # "send" => Enqueued = accepted)
  BY <1>1 DEF Enqueued
<1>4. Passed \in Int /\ Passed >= Enqueued - Len(mainQueue) - 1
  BY <1>1, <1>3, QueueLengthAssumption DEF Passed
<1>5. Taken <= Passed
  BY DEF IInv, Counting
<1>6. QED BY <1>1, <1>2, <1>3, <1>4, <1>5

(* Distinct statuses lie at distinct places of publishQueue, so that it holds no  *)
(* more of them than its length.                                                 *)
LEMMA PublishQueueHolds == ASSUME IInv PROVE Passed - Taken <= Len(publishQueue)
<1> USE DEF IInv
<1> DEFINE S == (Taken + 1)..Passed
           T == 1..Len(publishQueue)
           place == [n \in S |-> CHOOSE i \in T : publishQueue[i] = n]
<1>1. Taken \in Nat /\ Passed \in Int /\ Taken <= Passed /\ Len(publishQueue) \in Nat
  BY Distances, QueueLengthAssumption
<1>2. \A n \in S : place[n] \in T /\ publishQueue[place[n]] = n
  BY DEF PublishQueueComplete
<1>3. place \in Injection(S, T)
  BY <1>2 DEF Injection, IsInjective
<1>4. /\ IsFiniteSet(S) /\ IsFiniteSet(T)
      /\ Cardinality(S) = Passed - Taken /\ Cardinality(T) = Len(publishQueue)
  <2>1. Taken + 1 \in Int /\ Passed \in Int /\ 1 \in Int /\ Len(publishQueue) \in Int
    BY <1>1
  <2>2. /\ IsFiniteSet(S)
        /\ Cardinality(S) = IF Taken + 1 > Passed THEN 0 ELSE Passed - (Taken + 1) + 1
    BY <2>1, FS_Interval
  <2>3. /\ IsFiniteSet(T)
        /\ Cardinality(T) = IF 1 > Len(publishQueue) THEN 0 ELSE Len(publishQueue) - 1 + 1
    BY <2>1, FS_Interval
  <2> HIDE DEF S, T
  <2>4. QED BY <1>1, <2>2, <2>3
<1> HIDE DEF S, T, place
<1>5. Cardinality(S) <= Cardinality(T)
  BY <1>3, <1>4, FS_Injection
<1>6. QED BY <1>4, <1>5

LEMMA BacklogFits == IInv => BacklogBounded
<1> SUFFICES ASSUME IInv PROVE BacklogBounded
  OBVIOUS
<1>1. Passed - Taken <= Len(publishQueue)
  BY PublishQueueHolds
<1>2. QED BY <1>1, Distances, QueueLengthAssumption DEF BacklogBounded, Capacity

-----------------------------------------------------------------------------
(* The theorems.                                                                 *)

(* Every variable keeps its type and both queues their length, whatever the       *)
(* length and however many statuses arrive.                                      *)
THEOREM TypeCorrect == Spec => []TypeOK
  BY Invariance, PTL DEF IInv

(* An accepted status is always either handed over, in its turn, or still held by *)
(* a thread or a queue.                                                          *)
THEOREM StatusesSurvive == Spec => []NothingLost
  BY StatusesHeld, Invariance, PTL

(* No failure of the boot sequence leaves an accepted status without a publisher. *)
THEOREM AlwaysDrained == Spec => []SomeoneDrains
  BY PublisherStays, Invariance, PTL

(* The callback accepts no further status while both queues are full and every   *)
(* thread has one in hand.                                                       *)
THEOREM BacklogIsBounded == Spec => []BacklogBounded
  BY BacklogFits, Invariance, PTL

(* The threads implement the safety part of StatusChannel: each step accepts the  *)
(* next status while there is room on the way, hands over the next one, or is      *)
(* invisible.                                                                    *)
THEOREM ImplementsChannelSafety ==
    Spec => Channel!ChannelInit /\ [][Channel!ChannelNext]_(Channel!channelVars)
<1>1. Init => Channel!ChannelInit
  BY DEF Init, Channel!ChannelInit
<1>2. IInv /\ IInv' /\ [Next]_vars => [Channel!ChannelNext]_(Channel!channelVars)
  <2> SUFFICES ASSUME IInv, IInv', [Next]_vars
               PROVE  Channel!ChannelNext \/ UNCHANGED <<accepted, handed>>
    BY DEF Channel!channelVars
  <2>1. CASE AcceptStatus
    <3>1. accepted' = accepted + 1 /\ handed' = handed /\ rx = "run"
      BY <2>1 DEF AcceptStatus
    <3>2. Passed - Taken <= Len(publishQueue)
      BY PublishQueueHolds
    <3>3. accepted - Len(handed) < Capacity
      BY <3>1, <3>2, Distances, QueueLengthAssumption DEF Capacity
    <3>4. QED BY <3>1, <3>3 DEF Channel!ChannelNext, Channel!Accept
  <2>2. CASE Publish
    <3>1. /\ publisherMsg \in {Statistics, General, Len(handed) + 1}
          /\ accepted' = accepted /\ accepted \in Nat /\ Len(handed) \in Nat
          /\ handed' = IF IsStatus(publisherMsg) THEN Append(handed, publisherMsg) ELSE handed
      BY <2>2 DEF Publish, PublisherStep, IInv, PublisherHand, TypeOK
    <3>2. CASE IsStatus(publisherMsg)
      <4>1. publisherMsg = Len(handed) + 1
        BY <3>1, <3>2 DEF IsStatus, NoMsg, Statistics, General
      <4>2. Len(handed) < accepted
        BY <3>1, <3>2 DEF IInv, Counting, Taken, Passed, Enqueued, TypeOK
      <4>3. QED BY <3>1, <3>2, <4>1, <4>2 DEF Channel!ChannelNext, Channel!Deliver
    <3>3. QED BY <3>1, <3>2
  <2>3. CASE UNCHANGED <<accepted, handed>>
    BY <2>3
  <2>4. QED
    BY <2>1, <2>2, <2>3 DEF Next, MainTask, Publisher, PublisherStart, ReceiveThread,
       InitMsgQueues, ConnectAP, MqttStart, MainReceive, MainSend, CreateClient,
       CreateRxThread, ConnectBroker, Subscribe, PublisherReceive, UpdateStatus,
       TimerInterrupt, SessionLost, vars, history
<1>3. QED BY <1>1, <1>2, Invariance, PTL DEF Spec

-----------------------------------------------------------------------------
(* Deadlock and livelock: what ReceiveThreadReturns and AcceptedIsHanded need    *)
(* besides fair scheduling.                                                      *)

\* A thread is not waiting, or what it waits for has come.
ThreadCanGo ==
    \/ publisher = "subscribe"
    \/ publisher = "receive" /\ publishQueue # <<>>
    \/ publisher = "publish" /\ PublishReturns
    \/ main = "receive" /\ mainQueue # <<>>
    \/ main = "send" /\ Len(publishQueue) < QueueLength
    \/ rx = "send" /\ Len(mainQueue) < QueueLength

LEMMA SomeoneGoes ==
  ASSUME IInv, accepted > Len(handed)
  PROVE  ThreadCanGo
<1> DEFINE n == Len(handed) + 1
<1>1. /\ accepted \in Nat /\ Len(handed) \in Nat /\ QueueLength \in Nat /\ QueueLength > 0
      /\ mainQueue \in Seq(Nat) /\ publishQueue \in Seq(Int)
      /\ main \in {"boot", "connectAP", "startMqtt", "receive", "send"}
      /\ rx \in {"none", "run", "send"}
  BY QueueLengthAssumption DEF IInv, TypeOK
<1>2. n \in (Len(handed) + 1)..accepted /\ n # NoMsg
  BY <1>1 DEF NoMsg
<1>3. n \in InTransit
  BY <1>2, StatusesHeld DEF NothingLost
<1>4. publisher \in {"subscribe", "receive", "publish"}
  BY <1>1 DEF IInv, Drained
<1>5. main \in {"receive", "send"}
  BY <1>1, <1>4 DEF IInv, Creation
<1>6. publisher = "publish" => ThreadCanGo
  BY DEF ThreadCanGo, PublishReturns, blockingSend
<1>7. ASSUME publisher = "receive", publishQueue = <<>>, main = "receive", mainQueue = <<>>
      PROVE  rx = "send"
  <2>1. publisherMsg = NoMsg /\ mainStatus = NoMsg
    BY <1>7 DEF IInv, PublisherHand, MainHand
  <2>2. Entries(mainQueue) = {} /\ Entries(publishQueue) = {}
    BY <1>7 DEF Entries
  <2>3. rxStatus # NoMsg
    BY <1>2, <1>3, <2>1, <2>2 DEF InTransit
  <2>4. QED BY <2>3 DEF IInv, RxHand
<1>8. Len(<<>>) < QueueLength
  BY <1>1
<1>9. QED BY <1>4, <1>5, <1>6, <1>7, <1>8 DEF ThreadCanGo

(* However the two queues are filled, and whatever the interrupts put between the  *)
(* statuses: while an accepted status is still on its way, the receive thread, the   *)
(* main task and the publisher are not all waiting for one another.                  *)
THEOREM NoCircularWait == Spec => [](accepted > Len(handed) => ThreadCanGo)
<1>1. IInv => (accepted > Len(handed) => ThreadCanGo)
  BY SomeoneGoes
<1>2. QED BY <1>1, Invariance, PTL

\* Steps that the threads can still take with what there is.
MainWork ==
    IF main = "boot" THEN 7 ELSE IF main = "connectAP" THEN 6
    ELSE IF main = "startMqtt" THEN 5 ELSE IF main = "send" THEN 3 ELSE 0
PublisherWork ==
    IF publisher = "start" THEN 4 ELSE IF publisher = "createRx" THEN 3
    ELSE IF publisher = "connect" THEN 2 ELSE IF publisher \in {"subscribe", "publish"} THEN 1
    ELSE 0
RxWork == IF rx = "send" THEN 5 ELSE 0
Work == MainWork + PublisherWork + RxWork + 4 * Len(mainQueue) + 2 * Len(publishQueue)

ThreadStep == MainTask \/ Publisher \/ UpdateStatus

LEMMA WorkIsNatural == ASSUME TypeOK PROVE Work \in Nat
<1>1. MainWork \in Nat /\ PublisherWork \in Nat /\ RxWork \in Nat
  BY DEF MainWork, PublisherWork, RxWork
<1>2. Len(mainQueue) \in Nat /\ Len(publishQueue) \in Nat
  BY DEF TypeOK
<1> HIDE DEF MainWork, PublisherWork, RxWork
<1>3. QED BY <1>1, <1>2 DEF Work

LEMMA WorkStaysNatural == ASSUME TypeOK' PROVE Work' \in Nat
<1>1. MainWork' \in Nat /\ PublisherWork' \in Nat /\ RxWork' \in Nat
  BY DEF MainWork, PublisherWork, RxWork
<1>2. Len(mainQueue') \in Nat /\ Len(publishQueue') \in Nat
  BY DEF TypeOK
<1> HIDE DEF MainWork, PublisherWork, RxWork
<1>3. QED BY <1>1, <1>2 DEF Work

LEMMA QueueLengths ==
  ASSUME TypeOK
  PROVE  /\ Len(mainQueue) \in Nat /\ Len(publishQueue) \in Nat
         /\ \A e \in Nat : Len(Append(mainQueue, e)) = Len(mainQueue) + 1
         /\ \A e \in Int : Len(Append(publishQueue, e)) = Len(publishQueue) + 1
         /\ mainQueue # <<>> => Len(Tail(mainQueue)) = Len(mainQueue) - 1
         /\ publishQueue # <<>> => Len(Tail(publishQueue)) = Len(publishQueue) - 1
  BY AppendFacts, HeadTailFacts DEF TypeOK

LEMMA LessWork ==
  ASSUME NEW m \in Nat, NEW p \in Nat, NEW r \in Nat, NEW rest \in Nat,
         NEW m2 \in Nat, NEW p2 \in Nat, NEW r2 \in Nat,
         m2 + p2 < m + p, r2 <= r
  PROVE  m2 + p2 + r2 + rest < m + p + r + rest
OBVIOUS

LEMMA LessPair ==
  ASSUME NEW m \in Nat, NEW p \in Nat, NEW m2 \in Nat, NEW p2 \in Nat,
         (m = 5 /\ m2 = 0 /\ p2 <= 4) \/ (m2 = m /\ p2 < p)
  PROVE  m2 + p2 < m + p
OBVIOUS

LEMMA ThreadStepLowersWork ==
  ASSUME TypeOK, ThreadStep
  PROVE  Work' < Work
<1>1. /\ Len(mainQueue) \in Nat /\ Len(publishQueue) \in Nat
      /\ \A e \in Nat : Len(Append(mainQueue, e)) = Len(mainQueue) + 1
      /\ \A e \in Int : Len(Append(publishQueue, e)) = Len(publishQueue) + 1
      /\ mainQueue # <<>> => Len(Tail(mainQueue)) = Len(mainQueue) - 1
      /\ publishQueue # <<>> => Len(Tail(publishQueue)) = Len(publishQueue) - 1
  BY QueueLengths
<1> DEFINE a == Len(mainQueue)
           b == Len(publishQueue)
           c == Len(mainQueue')
           d == Len(publishQueue')
<1>2. MainWork \in Nat /\ PublisherWork \in Nat /\ RxWork \in Nat
  BY DEF MainWork, PublisherWork, RxWork
<1>3. Work = MainWork + PublisherWork + RxWork + 4 * a + 2 * b
  BY DEF Work
<1>4. Work' = MainWork' + PublisherWork' + RxWork' + 4 * c + 2 * d
  BY DEF Work
<1>5. a \in Nat /\ b \in Nat
  BY <1>1
<1> HIDE DEF a, b, c, d
<1>6. CASE InitMsgQueues \/ \E result \in {"up", "down"} : ConnectAP(result)
  <2>1. MainWork' = MainWork - 1 /\ PublisherWork' = PublisherWork /\ RxWork' = RxWork
    BY <1>6 DEF InitMsgQueues, ConnectAP, MainWork, PublisherWork, RxWork, publisherVars, rxVars
  <2>2. c = a /\ d = b
    BY <1>6 DEF InitMsgQueues, ConnectAP, a, b, c, d
  <2>3. QED BY <1>2, <1>3, <1>4, <1>5, <2>1, <2>2
<1>7. CASE \E created \in BOOLEAN : MqttStart(created)
  <2>1. /\ MainWork' = 0 /\ MainWork = 5 /\ RxWork' = RxWork
        /\ PublisherWork' \in Nat /\ PublisherWork' <= 4
    BY <1>7 DEF MqttStart, MainWork, PublisherWork, RxWork, rxVars
  <2>2. c = a /\ d = b
    BY <1>7 DEF MqttStart, a, b, c, d
  <2>3. MainWork' \in Nat /\ PublisherWork' \in Nat /\ RxWork' \in Nat
    BY <1>2, <2>1
  <2>4. MainWork' + PublisherWork' < MainWork + PublisherWork
    BY <1>2, <2>1, <2>3, LessPair
  <2>5. RxWork' <= RxWork
    BY <1>2, <2>1, <2>3
  <2>6. Work = MainWork + PublisherWork + RxWork + (4 * a + 2 * b)
    BY <1>2, <1>3, <1>5
  <2>7. Work' = MainWork' + PublisherWork' + RxWork' + (4 * a + 2 * b)
    BY <1>2, <1>4, <1>5, <2>1, <2>2, <2>3
  <2> DEFINE k == 4 * a + 2 * b
  <2>8. k \in Nat
    BY <1>5
  <2>9. /\ Work = MainWork + PublisherWork + RxWork + k
        /\ Work' = MainWork' + PublisherWork' + RxWork' + k
    BY <2>6, <2>7
  <2> HIDE DEF k
  <2>10. QED BY <1>2, <2>3, <2>4, <2>5, <2>8, <2>9, LessWork
<1>8. CASE MainReceive
  <2>1. MainWork = 0 /\ MainWork' = 3 /\ PublisherWork' = PublisherWork /\ RxWork' = RxWork
    BY <1>8 DEF MainReceive, MainWork, PublisherWork, RxWork, publisherVars, rxVars
  <2>2. c = a - 1 /\ d = b
    BY <1>1, <1>8 DEF MainReceive, a, b, c, d
  <2>3. QED BY <1>2, <1>3, <1>4, <1>5, <2>1, <2>2
<1>9. CASE MainSend
  <2>1. MainWork = 3 /\ MainWork' = 0 /\ PublisherWork' = PublisherWork /\ RxWork' = RxWork
    BY <1>9 DEF MainSend, MainWork, PublisherWork, RxWork, publisherVars, rxVars
  <2>2. c = a /\ d = b + 1
    BY <1>1, <1>9 DEF MainSend, TypeOK, a, b, c, d
  <2>3. QED BY <1>2, <1>3, <1>4, <1>5, <2>1, <2>2
<1>10. CASE PublisherStart
  <2>1. /\ MainWork' = MainWork /\ PublisherWork' < PublisherWork /\ PublisherWork' \in Nat
        /\ RxWork' \in Nat /\ RxWork' <= RxWork
    BY <1>10 DEF PublisherStart, CreateClient, CreateRxThread, ConnectBroker, Subscribe,
       PublisherStep, MainWork, PublisherWork, RxWork, mainVars, rxVars
  <2>2. c = a /\ d = b
    BY <1>10 DEF PublisherStart, CreateClient, CreateRxThread, ConnectBroker, Subscribe, a, b, c, d
  <2>3. MainWork' \in Nat /\ PublisherWork' \in Nat /\ RxWork' \in Nat
    BY <1>2, <2>1
  <2>4. MainWork' + PublisherWork' < MainWork + PublisherWork
    BY <1>2, <2>1, <2>3, LessPair
  <2>5. RxWork' <= RxWork
    BY <1>2, <2>1, <2>3
  <2>6. Work = MainWork + PublisherWork + RxWork + (4 * a + 2 * b)
    BY <1>2, <1>3, <1>5
  <2>7. Work' = MainWork' + PublisherWork' + RxWork' + (4 * a + 2 * b)
    BY <1>2, <1>4, <1>5, <2>1, <2>2, <2>3
  <2> DEFINE k == 4 * a + 2 * b
  <2>8. k \in Nat
    BY <1>5
  <2>9. /\ Work = MainWork + PublisherWork + RxWork + k
        /\ Work' = MainWork' + PublisherWork' + RxWork' + k
    BY <2>6, <2>7
  <2> HIDE DEF k
  <2>10. QED BY <1>2, <2>3, <2>4, <2>5, <2>8, <2>9, LessWork
<1>11. CASE PublisherReceive
  <2>1. MainWork' = MainWork /\ PublisherWork = 0 /\ PublisherWork' = 1 /\ RxWork' = RxWork
    BY <1>11 DEF PublisherReceive, PublisherStep, MainWork, PublisherWork, RxWork, mainVars, rxVars
  <2>2. c = a /\ d = b - 1
    BY <1>1, <1>11 DEF PublisherReceive, a, b, c, d
  <2>3. QED BY <1>2, <1>3, <1>4, <1>5, <2>1, <2>2
<1>12. CASE Publish
  <2>1. MainWork' = MainWork /\ PublisherWork = 1 /\ PublisherWork' = 0 /\ RxWork' = RxWork
    BY <1>12 DEF Publish, PublisherStep, MainWork, PublisherWork, RxWork, mainVars, rxVars
  <2>2. c = a /\ d = b
    BY <1>12 DEF Publish, a, b, c, d
  <2>3. QED BY <1>2, <1>3, <1>4, <1>5, <2>1, <2>2
<1>13. CASE UpdateStatus
  <2>1. MainWork' = MainWork /\ PublisherWork' = PublisherWork /\ RxWork = 5 /\ RxWork' = 0
    BY <1>13 DEF UpdateStatus, MainWork, PublisherWork, RxWork, mainVars, publisherVars
  <2>2. c = a + 1 /\ d = b
    BY <1>1, <1>13 DEF UpdateStatus, TypeOK, a, b, c, d
  <2>3. QED BY <1>2, <1>3, <1>4, <1>5, <2>1, <2>2
<1>14. QED
  BY <1>6, <1>7, <1>8, <1>9, <1>10, <1>11, <1>12, <1>13 DEF ThreadStep, MainTask, Publisher

LEMMA OtherStepsAddWork ==
  ASSUME TypeOK,
         AcceptStatus \/ SessionLost \/ \E msg \in {Statistics, General} : TimerInterrupt(msg)
  PROVE  /\ Work' <= Work + 5
         /\ AcceptStatus \/ Work' <= Work + 2
<1>1. /\ Len(mainQueue) \in Nat /\ Len(publishQueue) \in Nat
      /\ \A e \in Int : Len(Append(publishQueue, e)) = Len(publishQueue) + 1
  BY QueueLengths
<1> DEFINE a == Len(mainQueue)
           b == Len(publishQueue)
           d == Len(publishQueue')
<1>2. MainWork \in Nat /\ PublisherWork \in Nat /\ RxWork \in Nat
  BY DEF MainWork, PublisherWork, RxWork
<1>3. Work = MainWork + PublisherWork + RxWork + 4 * a + 2 * b
  BY DEF Work
<1>4. MainWork' = MainWork /\ PublisherWork' = PublisherWork /\ mainQueue' = mainQueue
  BY DEF AcceptStatus, SessionLost, TimerInterrupt, MainWork, PublisherWork, mainVars,
     publisherVars
<1>5. Work' = MainWork + PublisherWork + RxWork' + 4 * a + 2 * d
  BY <1>4 DEF Work
<1>6. a \in Nat /\ b \in Nat
  BY <1>1
<1> HIDE DEF a, b, d
<1>7. CASE AcceptStatus
  <2>1. RxWork = 0 /\ RxWork' = 5 /\ d = b
    BY <1>7 DEF AcceptStatus, RxWork, b, d
  <2>2. QED BY <1>2, <1>3, <1>5, <1>6, <1>7, <2>1
<1>8. CASE SessionLost
  <2>1. RxWork' = RxWork /\ d = b
    BY <1>8 DEF SessionLost, RxWork, rxVars, b, d
  <2>2. QED BY <1>2, <1>3, <1>5, <1>6, <2>1
<1>9. CASE \E msg \in {Statistics, General} : TimerInterrupt(msg)
  <2>1. RxWork' = RxWork
    BY <1>9 DEF TimerInterrupt, RxWork, rxVars
  <2>2. d = b \/ d = b + 1
    BY <1>1, <1>9 DEF TimerInterrupt, Statistics, General, b, d
  <2>3. QED BY <1>2, <1>3, <1>5, <1>6, <2>1, <2>2
<1>10. QED BY <1>7, <1>8, <1>9

(* Threads never work for ever on the same messages: each of their steps leaves less  *)
(* to do, a status gives them at most five steps and a timer interrupt at most two.    *)
(* With NoCircularWait: only unfair scheduling, or interrupts that outrun the threads   *)
(* for ever, can keep an accepted status from being handed over.                        *)
THEOREM WorkIsFinite ==
    Spec => [][/\ Work \in Nat /\ Work' \in Nat
               /\ ThreadStep => Work' < Work
               /\ Work' <= Work + (IF AcceptStatus THEN 5 ELSE 2)]_vars
<1>1. IInv /\ IInv' /\ [Next]_vars
          => [/\ Work \in Nat /\ Work' \in Nat
              /\ ThreadStep => Work' < Work
              /\ Work' <= Work + (IF AcceptStatus THEN 5 ELSE 2)]_vars
  <2> SUFFICES ASSUME IInv, IInv', Next
               PROVE  /\ Work \in Nat /\ Work' \in Nat
                      /\ ThreadStep => Work' < Work
                      /\ Work' <= Work + (IF AcceptStatus THEN 5 ELSE 2)
    OBVIOUS
  <2>1. Work \in Nat
    BY WorkIsNatural DEF IInv
  <2>2. Work' \in Nat
    BY WorkStaysNatural DEF IInv
  <2>3. CASE ThreadStep
    BY <2>1, <2>2, <2>3, ThreadStepLowersWork DEF IInv
  <2>4. CASE ~ThreadStep
    <3>1. AcceptStatus \/ SessionLost \/ \E msg \in {Statistics, General} : TimerInterrupt(msg)
      BY <2>4 DEF Next, ThreadStep, ReceiveThread
    <3>2. QED BY <2>1, <2>2, <2>4, <3>1, OtherStepsAddWork DEF IInv
  <2>5. QED BY <2>3, <2>4
<1>2. QED BY <1>1, Invariance, PTL DEF Spec
=============================================================================
