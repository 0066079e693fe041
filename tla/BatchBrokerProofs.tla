-------------------------- MODULE BatchBrokerProofs --------------------------
(***************************************************************************)
(* Proofs about Broker and BatchBroker, for every capacity, every set of   *)
(* values and batches, spans of any size and any number of calls.          *)
(***************************************************************************)
EXTENDS BatchBroker, SequenceTheorems, FiniteSetTheorems, WellFoundedInduction, TLAPS

\* The counters the invariant speaks of are there, and are different.
LEMMA Counters ==
  /\ {"published", "consumed", "publish_failed_full", "consume_failed_empty",
      "publish_failed_invalid", "consume_failed_invalid"} = Counter
  /\ Counted \subseteq Counter
BY DEF Counter, StoreOf, Counted

\* Every counter has a store of reset() of its own.
LEMMA StorePlaces ==
  /\ \A c \in Counter : StoreOf[c] \in 1 .. Stores
  /\ \A c, d \in Counter : StoreOf[c] = StoreOf[d] => c = d
BY DEF Counter, StoreOf, Stores

\* What an increment does to the counters.
LEMMA CountEffect ==
  ASSUME counters \in [Counter -> Nat], NEW c \in Counter, Count(c)
  PROVE  /\ counters' \in [Counter -> Nat]
         /\ \A d \in Counter : counters'[d] = IF d = c THEN counters[d] + 1 ELSE counters[d]
BY DEF Count

\* The numbers the invariant speaks of.
LEMMA Numbers ==
  ASSUME BatchInv
  PROVE  /\ got \in Nat /\ empties \in Nat
         /\ Len(sent) \in Nat /\ Len(queue) \in Nat /\ Len(calls) \in Nat
<1>1. sent \in Seq(Value) /\ queue \in Seq(Value) /\ calls \in Seq(Call)
  BY Zenon DEF BatchInv, BatchTypeOK, FifoTypeOK
<1>2. QED
  BY <1>1, LenProperties, Zenon DEF BatchInv, BatchTypeOK

\* The initial state satisfies the invariant.
LEMMA InitBatchInv == Init => BatchInv
<1> SUFFICES ASSUME Init PROVE BatchInv
  BY Zenon
<1>1. <<>> \in Seq(Value) /\ <<>> \in Seq(Call) /\ Len(<<>>) = 0
  BY EmptySeq, Zenon
<1>2. FifoTypeOK
  BY <1>1, BatchAssumption DEF Init, FifoInit, FifoTypeOK
<1>3. QED
  BY <1>1, <1>2 DEF Init, FifoInit, BatchInv, BatchTypeOK, Stores

(***************************************************************************)
(* One lemma per kind of step: it preserves the invariant.                 *)
(***************************************************************************)
\* A call on a broker with an invalid configuration.
LEMMA InvalidInv == BatchInv /\ (PublishInvalid \/ ConsumeInvalid) => BatchInv'
<1> SUFFICES ASSUME BatchInv, PublishInvalid \/ ConsumeInvalid PROVE BatchInv'
  BY Zenon
<1>1. PICK c \in {"publish_failed_invalid", "consume_failed_invalid"} :
        /\ Count(c)
        /\ UNCHANGED <<fifoVars, producerVars, consumerVars, resetVars>>
  BY Zenon DEF PublishInvalid, ConsumeInvalid
<1>2. counters' \in [Counter -> Nat]
  BY <1>1, Counters, CountEffect, Zenon DEF BatchInv, BatchTypeOK
<1>3. /\ UNCHANGED <<queue, hidden, pending, out, ppc, messages, published, sent, calls>>
      /\ UNCHANGED <<cpc, room, consumed, got, empties, stores, wasReset, before, after>>
  BY <1>1, Zenon DEF fifoVars, producerVars, consumerVars, resetVars
<1>4. FifoTypeOK'
  BY <1>3, Zenon DEF BatchInv, BatchTypeOK, FifoTypeOK
<1>5. QED
  BY <1>2, <1>3, <1>4, Zenon DEF BatchInv, BatchTypeOK

\* The start of a call.
LEMMA PublishBatchInv ==
  \A m : m \in Seq(Value) /\ BatchInv /\ PublishBatch(m) => BatchInv'
<1> SUFFICES ASSUME NEW m, m \in Seq(Value), BatchInv, PublishBatch(m) PROVE BatchInv'
  BY Zenon
<1>1. Len(m) \in Nat
  BY LenProperties, Zenon
<1>2. /\ ppc = "idle" /\ ppc' = "try" /\ messages' = m /\ published' = 0
      /\ UNCHANGED <<queue, hidden, pending, out, sent, calls, counters>>
      /\ UNCHANGED <<cpc, room, consumed, got, empties, stores, wasReset, before, after>>
  BY Zenon DEF PublishBatch, fifoVars, consumerVars, resetVars
<1>3. FifoTypeOK'
  BY <1>2, Zenon DEF BatchInv, BatchTypeOK, FifoTypeOK
<1>4. QED
  BY <1>1, <1>2, <1>3 DEF BatchInv, BatchTypeOK

\* The start of a consume_batch with a span of n messages.
LEMMA ConsumeBatchInv == \A n \in Nat : BatchInv /\ ConsumeBatch(n) => BatchInv'
<1> SUFFICES ASSUME NEW n \in Nat, BatchInv, ConsumeBatch(n) PROVE BatchInv'
  BY Zenon
<1>1. /\ cpc = "idle" /\ cpc' = "try" /\ room' = n /\ consumed' = 0
      /\ UNCHANGED <<queue, hidden, pending, out, ppc, messages, published, sent, calls>>
      /\ UNCHANGED <<got, empties, counters, stores, wasReset, before, after>>
  BY Zenon DEF ConsumeBatch, fifoVars, producerVars, resetVars
<1>2. FifoTypeOK'
  BY <1>1, Zenon DEF BatchInv, BatchTypeOK, FifoTypeOK
<1>3. QED
  BY <1>1, <1>2 DEF BatchInv, BatchTypeOK

\* The look at the other side's progress.
LEMMA TryInv == BatchInv /\ (TryPush \/ TryPop) => BatchInv'
<1> SUFFICES ASSUME BatchInv, TryPush \/ TryPop PROVE BatchInv'
  BY Zenon
<1>1. FifoTypeOK'
  <2>1. CASE TryPush
    BY <2>1, BatchAssumption DEF TryPush, ProducerObserve, BatchInv, BatchTypeOK, FifoTypeOK
  <2>2. CASE TryPop
    BY <2>2, BatchAssumption DEF TryPop, ConsumerObserve, BatchInv, BatchTypeOK, FifoTypeOK
  <2>3. QED
    BY <2>1, <2>2, Zenon
<1>2. /\ UNCHANGED <<queue, out, messages, published, sent, calls, counters>>
      /\ UNCHANGED <<room, consumed, got, empties, stores, wasReset, before, after>>
  BY Zenon DEF TryPush, TryPop, ProducerObserve, ConsumerObserve, producerVars, consumerVars, resetVars
<1>3. \/ /\ ppc = "try" /\ published < Len(messages) /\ ppc' \in {"full", "store"}
         /\ cpc' = cpc
      \/ /\ cpc = "try" /\ consumed < room /\ cpc' \in {"move", "empty"}
         /\ ppc' = ppc
  BY Zenon DEF TryPush, TryPop, producerVars, consumerVars
<1>4. QED
  BY <1>1, <1>2, <1>3, Zenon DEF BatchInv, BatchTypeOK

\* The message is in the queue and not counted yet.
LEMMA StoreMessageInv == BatchInv /\ StoreMessage => BatchInv' /\ Len(sent') = Len(sent) + 1
<1> SUFFICES ASSUME BatchInv, StoreMessage PROVE BatchInv' /\ Len(sent') = Len(sent) + 1
  BY Zenon
<1> DEFINE v == messages[published + 1]
<1>1. /\ queue' = Append(queue, v) /\ sent' = Append(sent, v)
      /\ queue \in Seq(Value) /\ sent \in Seq(Value) /\ messages \in Seq(Value)
      /\ published + 1 \in 1 .. Len(messages)
  BY DEF StoreMessage, Push, BatchInv, BatchTypeOK, FifoTypeOK
<1>2. v \in Value
  BY <1>1, ElementOfSeq, Zenon
<1> HIDE DEF v
<1>3. /\ queue' \in Seq(Value) /\ Len(queue') = Len(queue) + 1 /\ Len(queue) \in Nat
      /\ sent' \in Seq(Value) /\ Len(sent') = Len(sent) + 1 /\ Len(sent) \in Nat
  BY <1>1, <1>2, AppendProperties, LenProperties, Zenon
<1>4. /\ ppc = "store" /\ ppc' = "count" /\ Len(queue) + hidden < Capacity
      /\ pending' = pending + 1
      /\ UNCHANGED <<hidden, out, messages, published, calls, counters>>
      /\ UNCHANGED <<cpc, room, consumed, got, empties, stores, wasReset, before, after>>
  BY Zenon DEF StoreMessage, Push, consumerVars, resetVars
<1>5. FifoTypeOK'
  BY <1>3, <1>4, BatchAssumption DEF BatchInv, BatchTypeOK, FifoTypeOK
<1>6. BatchTypeOK'
  BY <1>3, <1>4, <1>5, Zenon DEF BatchInv, BatchTypeOK
<1>7. Len(sent') = got' + Len(queue')
  <2>1. Len(sent) = got + Len(queue) /\ got' = got /\ got \in Nat
    BY <1>4, Numbers, Zenon DEF BatchInv
  <2>2. QED
    BY <1>3, <2>1
<1>8. QED
  BY <1>3, <1>4, <1>6, <1>7, Zenon DEF BatchInv

\* The message is out of the queue and not counted yet.
LEMMA MoveMessageInv == BatchInv /\ MoveMessage => BatchInv'
<1> SUFFICES ASSUME BatchInv, MoveMessage PROVE BatchInv'
  BY Zenon
<1>1. /\ cpc = "move" /\ cpc' = "count" /\ got' = got + 1
      /\ pending < Len(queue) /\ queue' = Tail(queue) /\ out' = Head(queue)
      /\ hidden' = hidden + 1 /\ pending' = pending
      /\ UNCHANGED <<room, consumed, empties, counters, stores, wasReset, before, after>>
      /\ UNCHANGED <<ppc, messages, published, sent, calls>>
  BY Zenon DEF MoveMessage, Pop, producerVars, resetVars
<1>2. queue \in Seq(Value) /\ Len(queue) \in Nat /\ pending \in Nat
  BY LenProperties DEF BatchInv, BatchTypeOK, FifoTypeOK
<1>3. queue # <<>>
  BY <1>1, <1>2, EmptySeq
<1>4. queue' \in Seq(Value) /\ Len(queue') = Len(queue) - 1 /\ out' \in Value
  BY <1>1, <1>2, <1>3, HeadTailProperties, Zenon
<1>5. FifoTypeOK'
  BY <1>1, <1>2, <1>4 DEF BatchInv, BatchTypeOK, FifoTypeOK
<1>6. BatchTypeOK'
  BY <1>1, <1>2, <1>4, <1>5 DEF BatchInv, BatchTypeOK
<1>7. Len(sent') = got' + Len(queue')
  <2>1. Len(sent) = got + Len(queue) /\ sent' = sent /\ got \in Nat
    BY <1>1, Numbers, Zenon DEF BatchInv
  <2>2. QED
    BY <1>1, <1>2, <1>4, <2>1
<1>8. QED
  BY <1>1, <1>6, <1>7, Zenon DEF BatchInv

\* The event in progress is counted.
LEMMA CountInv == BatchInv /\ (CountPublished \/ CountConsumed) => BatchInv'
<1> SUFFICES ASSUME BatchInv, CountPublished \/ CountConsumed PROVE BatchInv'
  BY Zenon
<1>1. FifoTypeOK'
  BY Zenon DEF BatchInv, BatchTypeOK, FifoTypeOK, fifoVars, CountPublished, CountConsumed
<1>2. counters' \in [Counter -> Nat]
  <2>1. Count("published") \/ Count("consumed")
    BY Zenon DEF CountPublished, CountConsumed
  <2>2. QED
    BY <2>1, Counters, CountEffect, Zenon DEF BatchInv, BatchTypeOK
<1>3. CASE CountPublished
  <2>1. /\ ppc = "count" /\ ppc' = "try" /\ published' = published + 1
        /\ UNCHANGED <<queue, messages, sent, calls, stores, wasReset, before, after>>
        /\ UNCHANGED <<cpc, room, consumed, got, empties>>
    BY <1>3, Zenon DEF CountPublished, fifoVars, consumerVars, resetVars
  <2>2. BatchTypeOK'
    BY <1>1, <1>2, <2>1 DEF BatchInv, BatchTypeOK
  <2>3. QED
    BY <2>1, <2>2, Zenon DEF BatchInv
<1>4. CASE CountConsumed
  <2>1. /\ cpc = "count" /\ cpc' = "try" /\ consumed' = consumed + 1
        /\ UNCHANGED <<queue, messages, sent, calls, stores, wasReset, before, after>>
        /\ UNCHANGED <<ppc, published, room, got, empties>>
    BY <1>4, Zenon DEF CountConsumed, fifoVars, producerVars, resetVars
  <2>2. BatchTypeOK'
    BY <1>1, <1>2, <2>1 DEF BatchInv, BatchTypeOK
  <2>3. QED
    BY <2>1, <2>2, Zenon DEF BatchInv
<1>5. QED
  BY <1>3, <1>4, Zenon

\* The end of a publish call: it returns, throws, or found the queue full.
LEMMA PublishEndsInv == BatchInv /\ (CountFull \/ CopyThrows \/ PublishReturns) => BatchInv'
<1> SUFFICES ASSUME BatchInv, CountFull \/ CopyThrows \/ PublishReturns PROVE BatchInv'
  BY Zenon
<1>1. /\ ppc \in {"full", "store", "try"} /\ ppc' = "idle" /\ messages' = <<>>
      /\ published' = 0
      /\ UNCHANGED <<queue, hidden, pending, out, sent, stores, wasReset, before, after>>
      /\ UNCHANGED <<cpc, room, consumed, got, empties>>
  BY Zenon DEF CountFull, CopyThrows, PublishReturns, EndCall, fifoVars, consumerVars, resetVars
<1>2. calls' \in Seq(Call)
  <2>1. PICK e \in {"returned", "threw"} :
          calls' = Append(calls, [batch |-> messages, count |-> published, end |-> e])
    BY Zenon DEF CountFull, CopyThrows, PublishReturns, EndCall
  <2> DEFINE c == [batch |-> messages, count |-> published, end |-> e]
  <2>2. c \in Call /\ calls \in Seq(Call)
    BY LenProperties DEF Call, BatchInv, BatchTypeOK
  <2> HIDE DEF c
  <2>3. QED
    BY <2>1, <2>2, AppendProperties, Zenon DEF c
<1>3. counters' \in [Counter -> Nat]
  <2>1. CASE CountFull
    BY <2>1, Counters, CountEffect, Zenon DEF BatchInv, BatchTypeOK, CountFull
  <2>2. CASE CopyThrows \/ PublishReturns
    BY <2>2, Zenon DEF BatchInv, BatchTypeOK, CopyThrows, PublishReturns
  <2>3. QED
    BY <2>1, <2>2, Zenon
<1>4. <<>> \in Seq(Value) /\ Len(<<>>) = 0
  BY EmptySeq, Zenon
<1>5. FifoTypeOK'
  BY <1>1, Zenon DEF BatchInv, BatchTypeOK, FifoTypeOK
<1>6. BatchTypeOK'
  BY <1>1, <1>2, <1>3, <1>4, <1>5 DEF BatchInv, BatchTypeOK
<1>7. QED
  BY <1>1, <1>6, Zenon DEF BatchInv

\* The end of a consume call.
LEMMA ConsumeEndsInv == BatchInv /\ (MoveThrows \/ ConsumeReturns) => BatchInv'
<1> SUFFICES ASSUME BatchInv, MoveThrows \/ ConsumeReturns PROVE BatchInv'
  BY Zenon
<1>1. /\ cpc \in {"move", "try", "empty"} /\ cpc' = "idle" /\ room' = 0 /\ consumed' = 0
      /\ UNCHANGED <<queue, hidden, pending, out, got, stores, wasReset, before, after>>
      /\ UNCHANGED <<ppc, messages, published, sent, calls>>
  BY Zenon DEF MoveThrows, ConsumeReturns, EndConsume, fifoVars, producerVars, resetVars
<1>2. counters' \in [Counter -> Nat] /\ empties' \in {empties, empties + 1}
  <2>1. CASE MoveThrows \/ UNCHANGED <<counters, empties>>
    BY <2>1, Zenon DEF BatchInv, BatchTypeOK, MoveThrows
  <2>2. CASE Count("consume_failed_empty") /\ empties' = empties + 1
    BY <2>2, Counters, CountEffect, Zenon DEF BatchInv, BatchTypeOK
  <2>3. QED
    BY <2>1, <2>2, Zenon DEF ConsumeReturns
<1>3. FifoTypeOK'
  BY <1>1, Zenon DEF BatchInv, BatchTypeOK, FifoTypeOK
<1>4. BatchTypeOK'
  BY <1>1, <1>2, <1>3 DEF BatchInv, BatchTypeOK
<1>5. QED
  BY <1>1, <1>4, Zenon DEF BatchInv

\* A call that ends is cut short or not.
LEMMA CutShortAppend ==
  ASSUME NEW c \in Seq(Call), NEW r \in Call
  PROVE  /\ IsFiniteSet(CutShort(c)) /\ Cardinality(CutShort(c)) \in Nat
         /\ Cardinality(CutShort(Append(c, r))) =
              Cardinality(CutShort(c)) +
                (IF r.end = "returned" /\ r.count < Len(r.batch) THEN 1 ELSE 0)
<1> DEFINE a == Append(c, r)
           n == Len(c) + 1
           cut == r.end = "returned" /\ r.count < Len(r.batch)
<1>1. /\ Len(c) \in Nat /\ DOMAIN c = 1 .. Len(c) /\ DOMAIN a = 1 .. n
      /\ a[n] = r /\ \A i \in 1 .. Len(c) : a[i] = c[i]
  BY AppendProperties, LenProperties
<1> HIDE DEF a
<1>2. IsFiniteSet(CutShort(c)) /\ n \notin CutShort(c)
  <2>1. IsFiniteSet(1 .. Len(c))
    BY <1>1, FS_Interval
  <2>2. CutShort(c) \subseteq 1 .. Len(c)
    BY <1>1, Zenon DEF CutShort
  <2>3. IsFiniteSet(CutShort(c))
    BY <2>1, <2>2, FS_Subset, Zenon
  <2>4. QED
    BY <1>1, <2>2, <2>3
<1>3. Cardinality(CutShort(c)) \in Nat
  BY <1>2, FS_CardinalityType, Zenon
<1>4. CASE cut
  <2>1. CutShort(a) = CutShort(c) \cup {n}
    BY <1>1, <1>4 DEF CutShort
  <2>2. Cardinality(CutShort(c) \cup {n}) = Cardinality(CutShort(c)) + 1
    BY <1>2, FS_AddElement, Zenon
  <2>3. QED
    BY <1>2, <1>3, <1>4, <2>1, <2>2, Zenon DEF a
<1>5. CASE ~cut
  <2>1. CutShort(a) = CutShort(c)
    BY <1>1, <1>5 DEF CutShort
  <2>2. QED
    BY <1>2, <1>3, <1>5, <2>1 DEF a
<1>6. QED
  BY <1>4, <1>5, Zenon

\* The calls cut short are a number.
LEMMA CutShortCount == ASSUME NEW c \in Seq(Call) PROVE Cardinality(CutShort(c)) \in Nat
<1>1. [batch |-> <<>>, count |-> 0, end |-> "threw"] \in Call
  BY EmptySeq, Zenon DEF Call
<1>2. QED
  BY <1>1, CutShortAppend, Zenon

\* What each counter counts.
LEMMA HappenedIs ==
  /\ Happened("published") = Len(sent) /\ Happened("consumed") = got
  /\ Happened("publish_failed_full") = Cardinality(CutShort(calls))
  /\ Happened("consume_failed_empty") = empties
BY DEF Happened

\* The events a counter counts are a number.
LEMMA HappenedType ==
  ASSUME BatchInv, NEW c \in Counted
  PROVE  Happened(c) \in Nat /\ InProgress(c) \in {0, 1}
<1>1. /\ Happened("published") = Len(sent) /\ Happened("consumed") = got
      /\ Happened("publish_failed_full") = Cardinality(CutShort(calls))
      /\ Happened("consume_failed_empty") = empties
  BY HappenedIs, Zenon
<1>2. Cardinality(CutShort(calls)) \in Nat
  BY CutShortCount, Zenon DEF BatchInv, BatchTypeOK
<1>3. Happened(c) \in Nat
  BY <1>1, <1>2, Numbers, Zenon DEF Counted
<1>4. QED
  BY <1>3, Zenon DEF InProgress

\* reset() starts, or makes one of its stores.
LEMMA ResetInv == BatchInv /\ (ResetStart \/ \E c \in Counter : ResetNext(c)) => BatchInv'
<1> SUFFICES ASSUME BatchInv, ResetStart \/ \E c \in Counter : ResetNext(c) PROVE BatchInv'
  BY Zenon
<1>1. /\ UNCHANGED <<queue, hidden, pending, out, got, sent, calls>>
      /\ UNCHANGED <<ppc, messages, published, cpc, room, consumed, empties>>
  BY Zenon DEF ResetStart, ResetNext, fifoVars, producerVars, consumerVars
<1>2. FifoTypeOK'
  BY <1>1, Zenon DEF BatchInv, BatchTypeOK, FifoTypeOK
<1>3. /\ counters \in [Counter -> Nat] /\ before \in [Counter -> Nat]
      /\ after \in [Counted -> Nat] /\ stores \in 0 .. Stores
  BY Zenon DEF BatchInv, BatchTypeOK
<1>4. CASE ResetStart
  <2>1. counters' = counters /\ before' = counters /\ after' = after /\ stores' = 0 /\ wasReset'
    BY <1>4, Zenon DEF ResetStart
  <2>2. 0 \in 0 .. Stores
    BY DEF Stores
  <2>3. BatchTypeOK'
    BY <1>1, <1>2, <1>3, <2>1, <2>2, Zenon DEF BatchInv, BatchTypeOK
  <2>4. QED
    BY <1>1, <2>1, <2>3, Zenon DEF BatchInv
<1>5. ASSUME NEW c \in Counter, ResetNext(c) PROVE BatchInv'
  <2>1. /\ stores < Stores /\ stores' = stores + 1 /\ before' = before /\ wasReset' = wasReset
        /\ counters' = [counters EXCEPT ![c] = 0]
        /\ after' \in {after, [d \in Counted |-> Happened(d)]}
    BY <1>5, Zenon DEF ResetNext
  <2>2. counters' \in [Counter -> Nat]
    BY <1>3, <2>1
  <2>3. after' \in [Counted -> Nat]
    <3>1. \A d \in Counted : Happened(d) \in Nat
      BY HappenedType, Zenon
    <3>2. QED
      BY <1>3, <2>1, <3>1, Zenon
  <2>4. stores' \in 0 .. Stores
    BY <1>3, <2>1 DEF Stores
  <2>5. BatchTypeOK'
    BY <1>1, <1>2, <1>3, <2>1, <2>2, <2>3, <2>4, Zenon DEF BatchInv, BatchTypeOK
  <2>6. QED
    BY <1>1, <2>1, <2>5, Zenon DEF BatchInv
<1>6. QED
  BY <1>4, <1>5, Zenon

\* The invariant is inductive.
LEMMA NextBatchInv == BatchInv /\ [Next]_vars => BatchInv'
<1> SUFFICES ASSUME BatchInv, [Next]_vars PROVE BatchInv'
  BY Zenon
<1>1. ASSUME UNCHANGED vars PROVE BatchInv'
  BY <1>1, Zenon DEF vars, fifoVars, producerVars, consumerVars, resetVars, BatchInv, BatchTypeOK,
              FifoTypeOK
<1>2. CASE Producer
  <2>1. \A v \in Value : <<v>> \in Seq(Value)
    OBVIOUS
  <2>2. QED
    BY <1>2, <2>1, BatchAssumption, InvalidInv, PublishBatchInv, TryInv, StoreMessageInv,
       CountInv, PublishEndsInv, Zenon DEF Producer, TryPublish
<1>3. CASE Consumer
  <2>1. 1 \in Nat /\ \A n \in 2 .. MaxOut : n \in Nat
    BY BatchAssumption
  <2>2. QED
    BY <1>3, <2>1, InvalidInv, ConsumeBatchInv, TryInv, MoveMessageInv, CountInv,
       ConsumeEndsInv, Zenon DEF Consumer, TryConsume
<1>4. QED
  BY <1>1, <1>2, <1>3, ResetInv, Zenon DEF Next, Idle

(***************************************************************************)
(* Flattening a sequence of sequences, by induction over a set of numbers. *)
(***************************************************************************)
\* A set of natural numbers that is not empty has a least element.
LEMMA LeastElement ==
  ASSUME NEW T \in SUBSET Nat, T # {}
  PROVE  \E n \in T : \A m \in T : n <= m
<1>1. PICK x \in T : \A y \in T : ~ (<<y, x>> \in OpToRel(<, Nat))
  BY WFMin, NatLessThanWellFounded, Zenon
<1>2. \A y \in T : <<y, x>> \in OpToRel(<, Nat) <=> y < x
  BY <1>1, Zenon DEF OpToRel
<1>3. \A y \in T : ~(y < x)
  BY <1>1, <1>2, Zenon
<1>4. \A y \in T : x <= y
  BY <1>3
<1>5. QED
  BY <1>4, Zenon

\* A set that holds 0, and with every number the next one, holds all.
LEMMA SetInduction ==
  ASSUME NEW T, 0 \in T, \A n \in Nat : n \in T => n + 1 \in T
  PROVE  \A n \in Nat : n \in T
<1>1. SUFFICES ASSUME NEW k \in Nat, k \notin T PROVE FALSE
  BY Zenon
<1>2. PICK n \in Nat \ T : \A m \in Nat \ T : n <= m
  BY <1>1, LeastElement, Zenon
<1>3. n # 0 /\ n - 1 \in Nat /\ n - 1 \in T
  BY <1>2
<1>4. QED
  BY <1>2, <1>3

\* FlattenSeq joins its first element and, one after another, the others.
LEMMA FlattenEquation ==
  ASSUME NEW s, Len(s) \in Nat, Len(s) # 0
  PROVE  \E h : /\ FlattenSeq(s) = h[Len(s)]
                /\ h[1] = s[1]
                /\ \A i \in 2 .. Len(s) : h[i] = h[i - 1] \o s[i]
<1> DEFINE D == 1 .. Len(s)
           Def(g, x) == IF x = 1 THEN s[x] ELSE g[x - 1] \o s[x]
           Solves(g, k) == \A x \in D : x <= k => g[x] = Def(g, x)
           T == {k \in Nat : \E g : Solves(g, k)}
<1>1. \A g1, g2 : \A x \in D : (x # 1 => g1[x - 1] = g2[x - 1]) => Def(g1, x) = Def(g2, x)
  BY Zenon
<1>2. \A x \in D : x # 1 => x - 1 \in D
  OBVIOUS
<1>3. ASSUME NEW g, NEW k \in Nat, Solves(g, k)
      PROVE  Solves([x \in D |-> Def(g, x)], k + 1)
  <2> DEFINE gg == [x \in D |-> Def(g, x)]
  <2>1. \A x \in D : gg[x] = Def(g, x)
    <3> HIDE DEF Def, D
    <3> QED
      BY Zenon
  <2> HIDE DEF gg, Def
  <2>2. ASSUME NEW x \in D, x <= k + 1
        PROVE  gg[x] = Def(gg, x)
    <3>1. ASSUME x # 1 PROVE gg[x - 1] = g[x - 1]
      <4>1. x - 1 \in D /\ x - 1 <= k
        BY <3>1, <2>2
      <4>2. QED
        BY <4>1, <2>1, <1>3, Zenon
    <3>2. QED
      BY <3>1, <1>1, <2>1, Zenon
  <2>3. QED
    BY <2>2, Zenon DEF gg
<1>4. 0 \in T
  <2>1. \A x \in D : ~(x <= 0)
    OBVIOUS
  <2>2. Solves(0, 0)
    BY <2>1, Zenon
  <2> HIDE DEF Solves
  <2>3. QED
    BY <2>2, Zenon
<1>5. ASSUME NEW k \in Nat, k \in T PROVE k + 1 \in T
  <2> HIDE DEF Solves, Def
  <2>1. PICK g : Solves(g, k)
    BY <1>5, Zenon
  <2>2. Solves([x \in D |-> Def(g, x)], k + 1)
    BY <2>1, <1>3, Zenon
  <2>3. QED
    BY <2>2
<1>6. Len(s) \in T
  <2> HIDE DEF T
  <2> QED
    BY <1>4, <1>5, SetInduction, Zenon
<1>7. PICK g : Solves(g, Len(s))
  <2> HIDE DEF Solves
  <2> QED
    BY <1>6, Zenon
<1>8. \E h : h = [x \in D |-> Def(h, x)]
  <2> DEFINE gg == [x \in D |-> Def(g, x)]
  <2>1. \A x \in D : gg[x] = Def(g, x)
    <3> HIDE DEF Def, D
    <3> QED
      BY Zenon
  <2>2. \A x \in D : g[x] = Def(g, x)
    <3> HIDE DEF Def
    <3>1. \A x \in D : x <= Len(s)
      OBVIOUS
    <3>2. QED
      BY <1>7, <3>1, Zenon
  <2>3. \A x \in D : Def(gg, x) = Def(g, x)
    <3> HIDE DEF Def, gg, D
    <3> QED
      BY <1>1, <1>2, <2>1, <2>2
  <2>4. gg = [x \in D |-> Def(gg, x)]
    <3> HIDE DEF Def, D
    <3> QED
      BY <2>3, Zenon
  <2> HIDE DEF gg
  <2>5. QED
    BY <2>4, Zenon
<1> DEFINE f == CHOOSE h : h = [x \in D |-> Def(h, x)]
<1>9. FlattenSeq(s) = f[Len(s)]
  BY Zenon DEF FlattenSeq
<1>10. f = [x \in D |-> Def(f, x)]
  <2> HIDE DEF Def, D
  <2> QED
    BY <1>8, Zenon
<1> HIDE DEF f
<1>11. \A x \in D : f[x] = Def(f, x)
  <2> HIDE DEF Def, D
  <2> QED
    BY <1>10, Zenon
<1>12. f[1] = s[1]
  BY <1>11
<1>13. \A i \in 2 .. Len(s) : f[i] = f[i - 1] \o s[i]
  <2>1. \A i \in 2 .. Len(s) : i \in D /\ i # 1
    OBVIOUS
  <2> HIDE DEF D
  <2>2. QED
    BY <1>11, <2>1, Zenon
<1>14. QED
  BY <1>9, <1>12, <1>13, Zenon

\* Flattening one more sequence adds it at the end.
LEMMA FlattenAppend ==
  ASSUME NEW V, NEW s \in Seq(Seq(V)), NEW x \in Seq(V)
  PROVE  FlattenSeq(s) \in Seq(V) /\ FlattenSeq(Append(s, x)) = FlattenSeq(s) \o x
<1> DEFINE a == Append(s, x)
<1>1. /\ Len(s) \in Nat /\ a \in Seq(Seq(V)) /\ Len(a) = Len(s) + 1
      /\ a[Len(s) + 1] = x /\ \A i \in 1 .. Len(s) : a[i] = s[i] /\ s[i] \in Seq(V)
  BY AppendProperties, LenProperties, ElementOfSeq
<1> HIDE DEF a
<1>2. PICK h : /\ FlattenSeq(a) = h[Len(a)] /\ h[1] = a[1]
               /\ \A i \in 2 .. Len(a) : h[i] = h[i - 1] \o a[i]
  <2>1. Len(a) \in Nat /\ Len(a) # 0
    BY <1>1
  <2>2. QED
    BY <2>1, FlattenEquation, Zenon
<1>3. CASE Len(s) = 0
  <2>1. s = <<>> /\ FlattenSeq(s) = s
    BY <1>3, EmptySeq, Zenon DEF FlattenSeq
  <2>2. FlattenSeq(a) = x
    BY <1>1, <1>2, <1>3
  <2>3. <<>> \o x = x /\ <<>> \in Seq(V)
    BY ConcatEmptySeq, EmptySeq, Zenon
  <2>4. QED
    BY <2>1, <2>2, <2>3, Zenon DEF a
<1>4. CASE Len(s) # 0
  <2>1. PICK g : /\ FlattenSeq(s) = g[Len(s)] /\ g[1] = s[1]
                 /\ \A i \in 2 .. Len(s) : g[i] = g[i - 1] \o s[i]
    BY <1>1, <1>4, FlattenEquation, Zenon
  <2> DEFINE T == {k \in Nat : k + 1 \in 1 .. Len(s) => h[k + 1] = g[k + 1] /\ g[k + 1] \in Seq(V)}
  <2>2. 0 \in T
    <3>1. a[1] = s[1] /\ s[1] \in Seq(V)
      BY <1>1, <1>4
    <3>2. QED
      BY <3>1, <1>2, <2>1
  <2>3. ASSUME NEW k \in Nat, k \in T PROVE k + 1 \in T
    <3>1. SUFFICES ASSUME k + 2 \in 1 .. Len(s)
                   PROVE  h[k + 2] = g[k + 2] /\ g[k + 2] \in Seq(V)
      BY <1>1
    <3>2. /\ k + 1 \in 1 .. Len(s) /\ k + 2 \in 2 .. Len(s) /\ k + 2 \in 2 .. Len(a)
          /\ (k + 2) - 1 = k + 1
      BY <1>1, <3>1
    <3>3. h[k + 1] = g[k + 1] /\ g[k + 1] \in Seq(V)
      BY <2>3, <3>2, Zenon
    <3>4. h[k + 2] = h[k + 1] \o a[k + 2] /\ g[k + 2] = g[k + 1] \o s[k + 2]
      BY <1>2, <2>1, <3>2, Zenon
    <3>5. a[k + 2] = s[k + 2] /\ s[k + 2] \in Seq(V)
      BY <1>1, <3>1, Zenon
    <3>6. QED
      BY <3>3, <3>4, <3>5, ConcatProperties, Zenon
  <2>4. Len(s) - 1 \in Nat /\ Len(s) - 1 \in T
    <3>1. Len(s) - 1 \in Nat
      BY <1>1, <1>4
    <3> HIDE DEF T
    <3>2. QED
      BY <2>2, <2>3, <3>1, SetInduction, Zenon
  <2>5. h[Len(s)] = g[Len(s)] /\ g[Len(s)] \in Seq(V)
    <3>1. (Len(s) - 1) + 1 = Len(s) /\ Len(s) \in 1 .. Len(s)
      BY <1>1, <1>4
    <3>2. QED
      BY <2>4, <3>1, Zenon
  <2>6. h[Len(a)] = h[Len(s)] \o x
    <3>1. Len(a) \in 2 .. Len(a) /\ Len(a) - 1 = Len(s)
      BY <1>1, <1>4
    <3>2. QED
      BY <1>1, <1>2, <3>1, Zenon
  <2>7. QED
    BY <1>2, <2>1, <2>5, <2>6, Zenon DEF a
<1>5. QED
  BY <1>3, <1>4, Zenon

(***************************************************************************)
(* What the calls that ended queued, and how many a full queue cut short.  *)
(***************************************************************************)
\* Every call in c queued a prefix of its batch.
QueuedPrefixes(c) == c \in Seq(Call) /\ \A i \in DOMAIN c : c[i].count <= Len(c[i].batch)

\* A call that ends adds the prefix it queued.
LEMMA QueuedAppend ==
  ASSUME NEW c, QueuedPrefixes(c), NEW r \in Call, r.count <= Len(r.batch)
  PROVE  /\ QueuedPrefixes(Append(c, r)) /\ Queued(c) \in Seq(Value)
         /\ Queued(Append(c, r)) = Queued(c) \o SubSeq(r.batch, 1, r.count)
<1> DEFINE Of(q) == SubSeq(q.batch, 1, q.count)
           a == Append(c, r)
           s == [i \in DOMAIN c |-> Of(c[i])]
           t == [i \in DOMAIN a |-> Of(a[i])]
<1>1. /\ Len(c) \in Nat /\ DOMAIN c = 1 .. Len(c) /\ a \in Seq(Call) /\ Len(a) = Len(c) + 1
      /\ DOMAIN a = 1 .. Len(c) + 1
      /\ a[Len(c) + 1] = r /\ \A i \in 1 .. Len(c) : a[i] = c[i]
      /\ \A i \in 1 .. Len(c) : c[i] \in Call
  <2>1. c \in Seq(Call)
    BY Zenon DEF QueuedPrefixes
  <2>2. QED
    BY <2>1, AppendProperties, LenProperties, ElementOfSeq
<1>2. QueuedPrefixes(a)
  <2> HIDE DEF a
  <2>1. ASSUME NEW i \in DOMAIN a PROVE a[i].count <= Len(a[i].batch)
    <3>1. CASE i = Len(c) + 1
      BY <1>1, <3>1, Zenon
    <3>2. CASE i \in 1 .. Len(c)
      BY <1>1, <3>2, Zenon DEF QueuedPrefixes
    <3>3. QED
      BY <1>1, <2>1, <3>1, <3>2
  <2>2. QED
    BY <1>1, <2>1, Zenon DEF QueuedPrefixes
<1>3. \A q \in Call : q.count <= Len(q.batch) => Of(q) \in Seq(Value)
  <2>1. ASSUME NEW q \in Call, q.count <= Len(q.batch) PROVE Of(q) \in Seq(Value)
    <3>1. q.batch \in Seq(Value) /\ q.count \in Nat /\ Len(q.batch) \in Nat
      BY LenProperties, Zenon DEF Call
    <3>2. \A i \in 1 .. q.count : q.batch[i] \in Value
      BY <2>1, <3>1, ElementOfSeq
    <3>3. QED
      BY <2>1, <3>1, <3>2, SubSeqProperties
  <2>2. QED
    BY <2>1, Zenon
<1>4. \A i \in 1 .. Len(c) : Of(c[i]) \in Seq(Value)
  <2> HIDE DEF Of
  <2> QED
    BY <1>1, <1>3, Zenon DEF QueuedPrefixes
<1>5. Of(r) \in Seq(Value)
  BY <1>3, Zenon
<1> HIDE DEF Of, a
<1>6. s \in Seq(Seq(Value)) /\ Len(s) = Len(c) /\ \A i \in 1 .. Len(c) : s[i] = Of(c[i])
  BY <1>1, <1>4
<1>7. t = Append(s, Of(r))
  <2>1. DOMAIN t = 1 .. Len(c) + 1 /\ \A i \in 1 .. Len(c) + 1 : t[i] = Of(a[i])
    BY <1>1, Zenon
  <2>2. t = [i \in 1 .. Len(c) + 1 |-> Of(a[i])]
    BY <1>1, Zenon
  <2> HIDE DEF s, t
  <2>3. /\ Append(s, Of(r)) \in Seq(Seq(Value)) /\ Len(Append(s, Of(r))) = Len(c) + 1
        /\ Append(s, Of(r))[Len(c) + 1] = Of(r)
        /\ \A i \in 1 .. Len(c) : Append(s, Of(r))[i] = s[i]
    BY <1>5, <1>6, AppendProperties
  <2>4. t \in Seq(Seq(Value)) /\ Len(t) = Len(c) + 1
    <3>1. \A i \in 1 .. Len(c) + 1 : Of(a[i]) \in Seq(Value)
      BY <1>1, <1>4, <1>5
    <3>2. QED
      BY <1>1, <2>2, <3>1
  <2>5. \A i \in 1 .. Len(c) + 1 : t[i] = Append(s, Of(r))[i]
    BY <1>1, <1>6, <2>1, <2>3
  <2>6. QED
    BY <1>1, <2>3, <2>4, <2>5, SeqEqual, Zenon
<1>8. Queued(c) = FlattenSeq(s) /\ Queued(a) = FlattenSeq(t)
  BY Zenon DEF Queued, Of
<1> HIDE DEF s, t
<1>9. Queued(c) \in Seq(Value) /\ Queued(a) = Queued(c) \o Of(r)
  BY <1>5, <1>6, <1>7, <1>8, FlattenAppend, Zenon
<1>10. QED
  BY <1>2, <1>9, Zenon DEF Of, a

\* A prefix that grows by one message.
LEMMA PrefixGrows ==
  ASSUME NEW q \in Seq(Value), NEW m \in Seq(Value), NEW n \in Nat, n < Len(m)
  PROVE  q \o SubSeq(m, 1, n + 1) = Append(q \o SubSeq(m, 1, n), m[n + 1])
<1> DEFINE l == q \o SubSeq(m, 1, n + 1)
           p == SubSeq(m, 1, n)
           r == Append(q \o p, m[n + 1])
<1>1. Len(m) \in Nat /\ Len(q) \in Nat /\ \A i \in 1 .. n + 1 : m[i] \in Value
  BY ElementOfSeq, LenProperties
<1>2. /\ SubSeq(m, 1, n + 1) \in Seq(Value) /\ Len(SubSeq(m, 1, n + 1)) = n + 1
      /\ \A i \in 1 .. n + 1 : SubSeq(m, 1, n + 1)[i] = m[i]
      /\ p \in Seq(Value) /\ Len(p) = n
      /\ \A i \in 1 .. n : p[i] = m[i]
  BY <1>1, SubSeqProperties
<1>3. /\ l \in Seq(Value) /\ Len(l) = Len(q) + n + 1
      /\ \A i \in 1 .. Len(q) + n + 1 : l[i] = IF i <= Len(q) THEN q[i] ELSE m[i - Len(q)]
  BY <1>1, <1>2, ConcatProperties
<1>4. /\ q \o p \in Seq(Value) /\ Len(q \o p) = Len(q) + n
      /\ \A i \in 1 .. Len(q) + n : (q \o p)[i] = IF i <= Len(q) THEN q[i] ELSE m[i - Len(q)]
  BY <1>1, <1>2, ConcatProperties
<1> HIDE DEF p
<1>5. /\ r \in Seq(Value) /\ Len(r) = Len(q) + n + 1
      /\ \A i \in 1 .. Len(q) + n : r[i] = (q \o p)[i]
      /\ r[Len(q) + n + 1] = m[n + 1]
  BY <1>1, <1>4, AppendProperties
<1> HIDE DEF l, r
<1>6. \A i \in 1 .. Len(q) + n + 1 : l[i] = r[i]
  <2>1. ASSUME NEW i \in 1 .. Len(q) + n + 1 PROVE l[i] = r[i]
    <3>1. CASE i \in 1 .. Len(q) + n
      BY <1>1, <1>3, <1>4, <1>5, <3>1, Zenon
    <3>2. CASE i = Len(q) + n + 1
      <4>1. ~(i <= Len(q)) /\ i - Len(q) = n + 1
        BY <1>1, <3>2
      <4>2. QED
        BY <1>3, <1>5, <3>2, <4>1, Zenon
    <3>3. QED
      BY <1>1, <2>1, <3>1, <3>2
  <2>2. QED
    BY <2>1, Zenon
<1>7. l = r
  BY <1>1, <1>3, <1>5, <1>6, SeqEqual, Zenon
<1>8. QED
  BY <1>7, Zenon DEF l, r, p

\* Nothing of a call is queued when it starts.
LEMMA NothingYet ==
  ASSUME NEW q \in Seq(Value), NEW m
  PROVE  q \o SubSeq(m, 1, 0) = q
<1>1. SubSeq(m, 1, 0) = <<>>
  BY SubSeqProperties
<1>2. QED
  BY <1>1, ConcatEmptySeq, Zenon

\* At the start nothing was sent and no call has ended.
LEMMA InitReport == Init => SentInv
<1> SUFFICES ASSUME Init PROVE SentInv
  BY Zenon
<1>1. /\ ppc = "idle" /\ published = 0 /\ messages = <<>> /\ sent = <<>> /\ calls = <<>>
  BY Zenon DEF Init
<1>2. Queued(calls) = <<>>
  <2>1. [i \in DOMAIN calls |-> SubSeq(calls[i].batch, 1, calls[i].count)] = <<>>
    BY <1>1
  <2>2. FlattenSeq(<<>>) = <<>>
    BY Zenon DEF FlattenSeq
  <2>3. QED
    BY <2>1, <2>2, Zenon DEF Queued
<1>3. <<>> \in Seq(Value) /\ DOMAIN <<>> = {}
  BY EmptySeq
<1>4. sent = Queued(calls) \o SubSeq(messages, 1, 0)
  BY <1>1, <1>2, <1>3, NothingYet, Zenon
<1>5. QED
  BY <1>1, <1>3, <1>4, Zenon DEF SentInv

\* What the proofs below need of the sequences.
LEMMA CallFacts ==
  ASSUME BatchInv, SentInv
  PROVE  /\ QueuedPrefixes(calls) /\ calls \in Seq(Call)
         /\ messages \in Seq(Value) /\ Len(messages) \in Nat
         /\ published \in Nat /\ published <= Len(messages)
<1>1. calls \in Seq(Call) /\ messages \in Seq(Value) /\ published \in 0 .. Len(messages)
  BY Zenon DEF BatchInv, BatchTypeOK
<1>2. Len(messages) \in Nat
  BY <1>1, LenProperties, Zenon
<1>3. QED
  BY <1>1, <1>2 DEF SentInv, QueuedPrefixes

\* The values queued by the calls that ended.
LEMMA QueuedType == ASSUME BatchInv, SentInv PROVE Queued(calls) \in Seq(Value)
<1>1. QueuedPrefixes(calls)
  BY CallFacts, Zenon
<1>2. [batch |-> <<>>, count |-> 0, end |-> "threw"] \in Call /\ Len(<<>>) = 0
  BY EmptySeq, Zenon DEF Call
<1>3. QED
  BY <1>1, <1>2, QueuedAppend

(***************************************************************************)
(* The second invariant: what was sent, and which calls failed.            *)
(***************************************************************************)
\* The steps of a publish call that leave the ended calls alone.
LEMMA PublishSteps ==
  ASSUME BatchInv, SentInv,
         \/ \E m \in Seq(Value) : PublishBatch(m)
         \/ StoreMessage \/ CountPublished \/ TryPush
  PROVE  SentInv'
<1>1. Queued(calls) \in Seq(Value) /\ published \in Nat /\ messages \in Seq(Value)
  BY QueuedType, CallFacts, Zenon
<1>2. calls' = calls /\ ppc' # "idle" /\ Queued(calls') = Queued(calls)
  BY Zenon DEF PublishBatch, StoreMessage, CountPublished, TryPush
<1>3. \A i \in DOMAIN calls' : calls'[i].count <= Len(calls'[i].batch)
  BY <1>2, Zenon DEF SentInv
<1> DEFINE goal == sent' = Queued(calls) \o
                      SubSeq(messages', 1, IF ppc' = "count" THEN published' + 1 ELSE published')
<1> SUFFICES goal
  BY <1>2, <1>3, Zenon DEF SentInv
<1>4. CASE \E m \in Seq(Value) : PublishBatch(m)
  <2>1. PICK m \in Seq(Value) : PublishBatch(m)
    BY <1>4, Zenon
  <2>2. ppc = "idle" /\ sent' = sent /\ ppc' = "try" /\ published' = 0
    BY <2>1, Zenon DEF PublishBatch
  <2>3. sent = Queued(calls) \o SubSeq(messages, 1, 0)
    BY <2>2, Zenon DEF SentInv
  <2>4. sent' = Queued(calls) \o SubSeq(messages', 1, 0)
    BY <1>1, <2>2, <2>3, NothingYet, Zenon
  <2>5. QED
    BY <2>2, <2>4, Zenon
<1>5. CASE StoreMessage
  <2>1. /\ ppc = "store" /\ ppc' = "count" /\ sent' = Append(sent, messages[published + 1])
        /\ messages' = messages /\ published' = published
    BY <1>5, Zenon DEF StoreMessage
  <2>2. sent = Queued(calls) \o SubSeq(messages, 1, published)
    BY <2>1, Zenon DEF SentInv
  <2>3. published < Len(messages)
    BY <2>1, <1>1, Zenon DEF BatchInv, BatchTypeOK
  <2>4. sent' = Queued(calls) \o SubSeq(messages, 1, published + 1)
    BY <1>1, <2>1, <2>2, <2>3, PrefixGrows, Zenon
  <2>5. QED
    BY <2>1, <2>4, Zenon
<1>6. CASE CountPublished
  <2>1. /\ ppc = "count" /\ ppc' = "try" /\ sent' = sent
        /\ messages' = messages /\ published' = published + 1
    BY <1>6, Zenon DEF CountPublished
  <2>2. QED
    BY <2>1, Zenon DEF SentInv
<1>7. CASE TryPush
  <2>1. /\ ppc = "try" /\ ppc' # "count" /\ sent' = sent
        /\ messages' = messages /\ published' = published
    BY <1>7, Zenon DEF TryPush
  <2>2. QED
    BY <2>1, Zenon DEF SentInv
<1>8. QED
  BY <1>4, <1>5, <1>6, <1>7, Zenon

\* What the end of a publish call remembers of it.
LEMMA EndedCall ==
  ASSUME BatchInv, SentInv, CountFull \/ CopyThrows \/ PublishReturns
  PROVE  \E r \in Call : /\ calls' = Append(calls, r) /\ r.count = published /\ r.batch = messages
                         /\ r.count <= Len(r.batch)
                         /\ CountFull <=> r.end = "returned" /\ r.count < Len(r.batch)
<1>1. messages \in Seq(Value) /\ published \in Nat /\ Len(messages) \in Nat /\ published <= Len(messages)
  BY CallFacts, Zenon
<1> DEFINE of(e) == [batch |-> messages, count |-> published, end |-> e]
<1>2. \A e \in {"returned", "threw"} :
        /\ of(e) \in Call /\ of(e).batch = messages /\ of(e).count = published /\ of(e).end = e
  BY <1>1, Zenon DEF Call
<1>3. CASE CountFull
  <2>1. calls' = Append(calls, of("returned")) /\ ppc = "full"
    BY <1>3, Zenon DEF CountFull, EndCall
  <2>2. published < Len(messages)
    BY <2>1, Zenon DEF BatchInv, BatchTypeOK
  <2> HIDE DEF of
  <2>3. QED
    BY <1>1, <1>2, <1>3, <2>1, <2>2, Zenon
<1>4. CASE CopyThrows
  <2>1. calls' = Append(calls, of("threw")) /\ ~CountFull
    BY <1>4, Zenon DEF CopyThrows, CountFull, EndCall
  <2> HIDE DEF of
  <2>2. QED
    BY <1>1, <1>2, <2>1, Zenon
<1>5. CASE PublishReturns
  <2>1. calls' = Append(calls, of("returned")) /\ published = Len(messages) /\ ~CountFull
    BY <1>5, Zenon DEF PublishReturns, CountFull, EndCall
  <2> HIDE DEF of
  <2>2. QED
    BY <1>1, <1>2, <2>1
<1>6. QED
  BY <1>3, <1>4, <1>5, Zenon

\* The end of a publish call.
LEMMA PublishEnds ==
  ASSUME BatchInv, SentInv, CountFull \/ CopyThrows \/ PublishReturns
  PROVE  SentInv'
<1>1. PICK r \in Call : /\ calls' = Append(calls, r) /\ r.count = published /\ r.batch = messages
                        /\ r.count <= Len(r.batch)
  BY EndedCall, Zenon
<1>2. /\ ppc \in {"full", "store", "try"} /\ ppc' = "idle" /\ published' = 0 /\ sent' = sent
  BY Zenon DEF CountFull, CopyThrows, PublishReturns, EndCall
<1>3. /\ QueuedPrefixes(calls') /\ Queued(calls) \in Seq(Value)
      /\ Queued(calls') = Queued(calls) \o SubSeq(messages, 1, published)
  BY <1>1, CallFacts, QueuedAppend, Zenon
<1>4. sent = Queued(calls')
  BY <1>2, <1>3, Zenon DEF SentInv
<1>5. Queued(calls') \in Seq(Value)
  <2>1. messages \in Seq(Value) /\ published \in Nat /\ Len(messages) \in Nat /\ published <= Len(messages)
    BY CallFacts, Zenon
  <2>2. SubSeq(messages, 1, published) \in Seq(Value)
    BY <2>1, ElementOfSeq, SubSeqProperties
  <2>3. QED
    BY <1>3, <2>2, ConcatProperties, Zenon
<1>6. sent' = Queued(calls') \o SubSeq(messages', 1, 0)
  BY <1>2, <1>4, <1>5, NothingYet, Zenon
<1>7. QED
  BY <1>2, <1>3, <1>6, Zenon DEF SentInv, QueuedPrefixes

\* The steps that are none of the producer's leave its calls alone.
LEMMA SentKept ==
  ASSUME SentInv, UNCHANGED <<ppc, messages, published, sent, calls>>
  PROVE  SentInv'
<1>1. Queued(calls') = Queued(calls)
  BY Zenon
<1>2. QED
  BY <1>1, Zenon DEF SentInv

\* No step disturbs what is known of the values sent.
LEMMA NextSent == BatchInv /\ SentInv /\ [Next]_vars => SentInv'
<1> SUFFICES ASSUME BatchInv, SentInv, [Next]_vars PROVE SentInv'
  BY Zenon
<1>1. ASSUME UNCHANGED producerVars PROVE SentInv'
  BY <1>1, SentKept, Zenon DEF producerVars
<1>2. CASE UNCHANGED vars
  BY <1>1, <1>2, Zenon DEF vars
<1>3. CASE Consumer
  <2>1. UNCHANGED producerVars
    BY <1>3, Zenon DEF Consumer, ConsumeInvalid, TryConsume, ConsumeBatch, TryPop, MoveMessage, MoveThrows,
                CountConsumed, ConsumeReturns
  <2>2. QED
    BY <1>1, <2>1, Zenon
<1>4. CASE ResetStart \/ (\E c \in Counter : ResetNext(c)) \/ Idle
  <2>1. UNCHANGED producerVars
    BY <1>4, Zenon DEF ResetStart, ResetNext, Idle, vars
  <2>2. QED
    BY <1>1, <2>1, Zenon
<1>5. CASE Producer
  <2>1. CASE PublishInvalid
    BY <1>1, <2>1, Zenon DEF PublishInvalid
  <2>2. ASSUME NEW v \in Value, TryPublish(v) PROVE SentInv'
    <3>1. <<v>> \in Seq(Value)
      OBVIOUS
    <3>2. \E m \in Seq(Value) : PublishBatch(m)
      BY <2>2, <3>1, Zenon DEF TryPublish
    <3>3. QED
      BY <3>2, PublishSteps, Zenon
  <2>3. ASSUME NEW b \in Batch, PublishBatch(b) PROVE SentInv'
    BY <2>3, BatchAssumption, PublishSteps, Zenon
  <2>4. QED
    BY <1>5, <2>1, <2>2, <2>3, PublishSteps, PublishEnds, Zenon DEF Producer
<1>6. QED
  BY <1>2, <1>3, <1>4, <1>5, Zenon DEF Next

(***************************************************************************)
(* What each counter lacks.                                                *)
(***************************************************************************)
\* What the four counters lack, before and after a step.
LEMMA MissingIs ==
  /\ Missing("published") = Len(sent) - (IF ppc = "count" THEN 1 ELSE 0) - counters["published"]
  /\ Missing("consumed") = got - (IF cpc = "count" THEN 1 ELSE 0) - counters["consumed"]
  /\ Missing("publish_failed_full") =
       Cardinality(CutShort(calls)) - 0 - counters["publish_failed_full"]
  /\ Missing("consume_failed_empty") = empties - 0 - counters["consume_failed_empty"]
  /\ Missing("published")' =
       Len(sent') - (IF ppc' = "count" THEN 1 ELSE 0) - counters'["published"]
  /\ Missing("consumed")' = got' - (IF cpc' = "count" THEN 1 ELSE 0) - counters'["consumed"]
  /\ Missing("publish_failed_full")' =
       Cardinality(CutShort(calls')) - 0 - counters'["publish_failed_full"]
  /\ Missing("consume_failed_empty")' = empties' - 0 - counters'["consume_failed_empty"]
BY DEF Missing, Happened, InProgress

\* What the counters count, and the counters, are numbers.
LEMMA LedgerNumbers ==
  ASSUME BatchInv
  PROVE  /\ Len(sent) \in Nat /\ got \in Nat /\ empties \in Nat
         /\ Cardinality(CutShort(calls)) \in Nat
         /\ counters["published"] \in Nat /\ counters["consumed"] \in Nat
         /\ counters["publish_failed_full"] \in Nat /\ counters["consume_failed_empty"] \in Nat
<1>1. counters \in [Counter -> Nat] /\ calls \in Seq(Call)
  BY Zenon DEF BatchInv, BatchTypeOK
<1>2. \A c \in Counter : counters[c] \in Nat
  BY <1>1, Zenon
<1>3. QED
  BY <1>1, <1>2, Counters, CutShortCount, Numbers, Zenon

\* A step that only counts what has happened, or what happens with it.
SameMissing(c) == Missing(c)' = Missing(c) /\ counters'[c] >= counters[c]

\* A step that neither counts nor does anything that is counted.
LEMMA KeptMissing ==
  ASSUME BatchInv, UNCHANGED <<counters, sent, got, calls, empties>>,
         ppc = "count" <=> ppc' = "count", cpc = "count" <=> cpc' = "count"
  PROVE  \A d \in Counted : SameMissing(d)
<1>1. \A d \in Counted : Missing(d)' = Missing(d)
  BY MissingIs, Zenon DEF Counted
<1>2. \A d \in Counted : counters[d] \in Nat
  BY LedgerNumbers, Zenon DEF Counted
<1>3. QED
  BY <1>1, <1>2 DEF SameMissing

\* A call on a broker that is invalid counts something else.
LEMMA InvalidMissing ==
  ASSUME BatchInv, PublishInvalid \/ ConsumeInvalid PROVE \A d \in Counted : SameMissing(d)
<1>1. PICK c \in {"publish_failed_invalid", "consume_failed_invalid"} :
        /\ Count(c)
        /\ UNCHANGED <<producerVars, consumerVars>>
  BY Zenon DEF PublishInvalid, ConsumeInvalid
<1>2. UNCHANGED <<ppc, cpc, sent, got, calls, empties>>
  BY <1>1, Zenon DEF producerVars, consumerVars
<1>3. \A d \in Counter : counters'[d] = IF d = c THEN counters[d] + 1 ELSE counters[d]
  BY <1>1, Counters, CountEffect, Zenon DEF BatchInv, BatchTypeOK
<1>4. \A d \in Counted : d # c /\ d \in Counter
  BY Counters, Zenon DEF Counted
<1>5. \A d \in Counted : counters'[d] = counters[d] /\ counters[d] \in Nat
  BY <1>3, <1>4, LedgerNumbers, Zenon DEF Counted
<1>6. \A d \in Counted : Missing(d)' = Missing(d)
  BY <1>2, <1>5, MissingIs, Zenon DEF Counted
<1>7. QED
  BY <1>5, <1>6 DEF SameMissing

\* A value is queued or taken, and not counted yet.
LEMMA MovedMissing ==
  ASSUME BatchInv, StoreMessage \/ MoveMessage PROVE \A d \in Counted : SameMissing(d)
<1>1. counters' = counters /\ calls' = calls /\ empties' = empties
  BY Zenon DEF StoreMessage, MoveMessage, producerVars, consumerVars
<1>2. \A d \in Counted : counters'[d] >= counters[d]
  <2>1. \A d \in Counted : counters[d] \in Nat
    BY LedgerNumbers, Zenon DEF Counted
  <2>2. QED
    BY <1>1, <2>1
<1>3. Missing("published")' = Missing("published") /\ Missing("consumed")' = Missing("consumed")
  <2>1. CASE StoreMessage
    <3>1. /\ Len(sent') = Len(sent) + 1 /\ ppc = "store" /\ ppc' = "count"
          /\ got' = got /\ cpc' = cpc
      BY <2>1, StoreMessageInv, Zenon DEF StoreMessage, consumerVars
    <3>2. /\ Missing("published")' = (Len(sent) + 1) - 1 - counters["published"]
          /\ Missing("published") = Len(sent) - 0 - counters["published"]
          /\ Missing("consumed")' = Missing("consumed")
      BY <1>1, <3>1, MissingIs, Zenon
    <3>3. QED
      BY <3>2, LedgerNumbers
  <2>2. CASE MoveMessage
    <3>1. /\ got' = got + 1 /\ cpc = "move" /\ cpc' = "count" /\ sent' = sent /\ ppc' = ppc
      BY <2>2, Zenon DEF MoveMessage, producerVars
    <3>2. /\ Missing("consumed")' = (got + 1) - 1 - counters["consumed"]
          /\ Missing("consumed") = got - 0 - counters["consumed"]
          /\ Missing("published")' = Missing("published")
      BY <1>1, <3>1, MissingIs, Zenon
    <3>3. QED
      BY <3>2, LedgerNumbers
  <2>3. QED
    BY <2>1, <2>2, Zenon
<1>4. QED
  BY <1>1, <1>2, <1>3, MissingIs, Zenon DEF Counted, SameMissing

\* The value is counted.
LEMMA CountedMissing ==
  ASSUME BatchInv, CountPublished \/ CountConsumed PROVE \A d \in Counted : SameMissing(d)
<1>1. /\ sent' = sent /\ got' = got /\ calls' = calls /\ empties' = empties
  BY Zenon DEF CountPublished, CountConsumed, producerVars, consumerVars
<1>2. PICK c \in {"published", "consumed"} :
        /\ Count(c)
        /\ c = "published" => ppc = "count" /\ ppc' = "try" /\ cpc' = cpc
        /\ c = "consumed" => cpc = "count" /\ cpc' = "try" /\ ppc' = ppc
  BY Zenon DEF CountPublished, CountConsumed, producerVars, consumerVars
<1>3. \A d \in Counter : counters'[d] = IF d = c THEN counters[d] + 1 ELSE counters[d]
  BY <1>2, Counters, CountEffect, Zenon DEF BatchInv, BatchTypeOK
<1>4. /\ counters'["published"] =
           IF c = "published" THEN counters["published"] + 1 ELSE counters["published"]
      /\ counters'["consumed"] =
           IF c = "consumed" THEN counters["consumed"] + 1 ELSE counters["consumed"]
      /\ counters'["publish_failed_full"] = counters["publish_failed_full"]
      /\ counters'["consume_failed_empty"] = counters["consume_failed_empty"]
  BY <1>2, <1>3, Counters, Zenon
<1>5. /\ Missing("published")' = Missing("published")
      /\ Missing("consumed")' = Missing("consumed")
  <2>1. CASE c = "published"
    <3>1. /\ counters'["published"] = counters["published"] + 1
          /\ counters'["consumed"] = counters["consumed"]
          /\ ppc = "count" /\ ppc' = "try" /\ cpc' = cpc
      BY <1>2, <1>4, <2>1, Zenon
    <3>2. Missing("published")' = Missing("published")
      <4>1. /\ Missing("published")' = Len(sent) - 0 - (counters["published"] + 1)
            /\ Missing("published") = Len(sent) - 1 - counters["published"]
        BY <1>1, <3>1, MissingIs, Zenon
      <4>2. QED
        BY <4>1, LedgerNumbers
    <3>3. QED
      BY <1>1, <3>1, <3>2, MissingIs, Zenon
  <2>2. CASE c = "consumed"
    <3>1. /\ counters'["consumed"] = counters["consumed"] + 1
          /\ counters'["published"] = counters["published"]
          /\ cpc = "count" /\ cpc' = "try" /\ ppc' = ppc
      BY <1>2, <1>4, <2>2, Zenon
    <3>2. Missing("consumed")' = Missing("consumed")
      <4>1. /\ Missing("consumed")' = got - 0 - (counters["consumed"] + 1)
            /\ Missing("consumed") = got - 1 - counters["consumed"]
        BY <1>1, <3>1, MissingIs, Zenon
      <4>2. QED
        BY <4>1, LedgerNumbers
    <3>3. QED
      BY <1>1, <3>1, <3>2, MissingIs, Zenon
  <2>3. QED
    BY <2>1, <2>2, Zenon
<1>6. /\ Missing("publish_failed_full")' = Missing("publish_failed_full")
      /\ Missing("consume_failed_empty")' = Missing("consume_failed_empty")
  BY <1>1, <1>4, MissingIs, Zenon
<1>7. /\ counters'["published"] >= counters["published"]
      /\ counters'["consumed"] >= counters["consumed"]
      /\ counters'["publish_failed_full"] >= counters["publish_failed_full"]
      /\ counters'["consume_failed_empty"] >= counters["consume_failed_empty"]
  BY <1>4, LedgerNumbers
<1>8. QED
  BY <1>5, <1>6, <1>7, Zenon DEF Counted, SameMissing

\* A publish call ends; if the queue was full, that is counted.
LEMMA PublishEndMissing ==
  ASSUME BatchInv, SentInv, CountFull \/ CopyThrows \/ PublishReturns
  PROVE  \A d \in Counted : SameMissing(d)
<1>1. PICK r \in Call : /\ calls' = Append(calls, r)
                        /\ CountFull <=> r.end = "returned" /\ r.count < Len(r.batch)
  BY EndedCall, Zenon
<1>2. /\ sent' = sent /\ got' = got /\ empties' = empties /\ cpc' = cpc
      /\ ppc' = "idle" /\ ppc # "count"
  BY Zenon DEF CountFull, CopyThrows, PublishReturns, EndCall, consumerVars
<1>3. /\ Cardinality(CutShort(calls)) \in Nat
      /\ Cardinality(CutShort(calls')) =
           Cardinality(CutShort(calls)) +
             (IF r.end = "returned" /\ r.count < Len(r.batch) THEN 1 ELSE 0)
  BY <1>1, CutShortAppend, Zenon DEF BatchInv, BatchTypeOK
<1>4. Cardinality(CutShort(calls')) = Cardinality(CutShort(calls)) + (IF CountFull THEN 1 ELSE 0)
  BY <1>1, <1>3, Zenon
<1>5. /\ counters'["publish_failed_full"] = counters["publish_failed_full"] + (IF CountFull THEN 1 ELSE 0)
      /\ counters'["published"] = counters["published"]
      /\ counters'["consumed"] = counters["consumed"]
      /\ counters'["consume_failed_empty"] = counters["consume_failed_empty"]
  <2>1. CASE CountFull
    <3>1. \A d \in Counter :
            counters'[d] = IF d = "publish_failed_full" THEN counters[d] + 1 ELSE counters[d]
      BY <2>1, Counters, CountEffect, Zenon DEF CountFull, BatchInv, BatchTypeOK
    <3>2. QED
      BY <2>1, <3>1, Counters, Zenon
  <2>2. CASE ~CountFull
    <3>1. counters' = counters
      BY <2>2, Zenon DEF CopyThrows, PublishReturns
    <3>2. counters["publish_failed_full"] + 0 = counters["publish_failed_full"]
      BY LedgerNumbers
    <3>3. QED
      BY <2>2, <3>1, <3>2, Zenon
  <2>3. QED
    BY <2>1, <2>2, Zenon
<1> DEFINE n == IF CountFull THEN 1 ELSE 0
<1>6. n \in Nat
  OBVIOUS
<1>7. /\ Cardinality(CutShort(calls')) = Cardinality(CutShort(calls)) + n
      /\ counters'["publish_failed_full"] = counters["publish_failed_full"] + n
  BY <1>4, <1>5, Zenon
<1> HIDE DEF n
<1>8. Missing("publish_failed_full")' = Missing("publish_failed_full")
  <2>1. /\ Missing("publish_failed_full")' =
             (Cardinality(CutShort(calls)) + n) - 0 - (counters["publish_failed_full"] + n)
        /\ Missing("publish_failed_full") =
             Cardinality(CutShort(calls)) - 0 - counters["publish_failed_full"]
    BY <1>7, MissingIs, Zenon
  <2>2. QED
    BY <1>6, <2>1, LedgerNumbers
<1>9. /\ Missing("published")' = Missing("published")
      /\ Missing("consumed")' = Missing("consumed")
      /\ Missing("consume_failed_empty")' = Missing("consume_failed_empty")
  BY <1>2, <1>5, MissingIs, Zenon
<1>10. /\ counters'["published"] >= counters["published"]
       /\ counters'["consumed"] >= counters["consumed"]
       /\ counters'["publish_failed_full"] >= counters["publish_failed_full"]
       /\ counters'["consume_failed_empty"] >= counters["consume_failed_empty"]
  BY <1>5, <1>6, <1>7, LedgerNumbers
<1>11. QED
  BY <1>8, <1>9, <1>10, Zenon DEF Counted, SameMissing

\* A consume call returns; if it consumed nothing, that is counted.
LEMMA ConsumeEndMissing ==
  ASSUME BatchInv, ConsumeReturns PROVE \A d \in Counted : SameMissing(d)
<1>1. /\ sent' = sent /\ got' = got /\ calls' = calls /\ ppc' = ppc
      /\ cpc' = "idle" /\ cpc # "count"
  BY Zenon DEF ConsumeReturns, EndConsume, producerVars
<1>2. CASE consumed = 0
  <2>1. \A d \in Counter :
          counters'[d] = IF d = "consume_failed_empty" THEN counters[d] + 1 ELSE counters[d]
    BY <1>2, Counters, CountEffect, Zenon DEF ConsumeReturns, BatchInv, BatchTypeOK
  <2>2. /\ counters'["consume_failed_empty"] = counters["consume_failed_empty"] + 1
        /\ counters'["published"] = counters["published"]
        /\ counters'["consumed"] = counters["consumed"]
        /\ counters'["publish_failed_full"] = counters["publish_failed_full"]
    BY <2>1, Counters, Zenon
  <2>3. empties' = empties + 1
    BY <1>2, Zenon DEF ConsumeReturns
  <2>4. Missing("consume_failed_empty")' = Missing("consume_failed_empty")
    <3>1. /\ Missing("consume_failed_empty")' =
               (empties + 1) - 0 - (counters["consume_failed_empty"] + 1)
          /\ Missing("consume_failed_empty") = empties - 0 - counters["consume_failed_empty"]
      BY <2>2, <2>3, MissingIs, Zenon
    <3>2. QED
      BY <3>1, LedgerNumbers
  <2>5. /\ Missing("published")' = Missing("published")
        /\ Missing("consumed")' = Missing("consumed")
        /\ Missing("publish_failed_full")' = Missing("publish_failed_full")
    BY <1>1, <2>2, MissingIs, Zenon
  <2>6. /\ counters'["published"] >= counters["published"]
        /\ counters'["consumed"] >= counters["consumed"]
        /\ counters'["publish_failed_full"] >= counters["publish_failed_full"]
        /\ counters'["consume_failed_empty"] >= counters["consume_failed_empty"]
    BY <2>2, LedgerNumbers
  <2>7. QED
    BY <2>4, <2>5, <2>6, Zenon DEF Counted, SameMissing
<1>3. CASE consumed # 0
  BY <1>1, <1>3, KeptMissing, Zenon DEF ConsumeReturns
<1>4. QED
  BY <1>2, <1>3, Zenon

\* No step of the two threads changes what a counter lacks.
LEMMA SteadyMissing ==
  ASSUME BatchInv, SentInv, Producer \/ Consumer \/ Idle \/ UNCHANGED vars
  PROVE  \A d \in Counted : SameMissing(d)
<1>1. CASE TryPush \/ TryPop \/ MoveThrows
  <2>1. /\ UNCHANGED <<counters, sent, got, calls, empties>>
        /\ ppc = "count" <=> ppc' = "count"
        /\ cpc = "count" <=> cpc' = "count"
    BY <1>1, Zenon DEF TryPush, TryPop, MoveThrows, EndConsume, producerVars, consumerVars
  <2>2. QED
    BY <2>1, KeptMissing, Zenon
<1>2. ASSUME NEW m, PublishBatch(m) \/ ConsumeBatch(m) PROVE \A d \in Counted : SameMissing(d)
  <2>1. /\ UNCHANGED <<counters, sent, got, calls, empties>>
        /\ ppc = "count" <=> ppc' = "count"
        /\ cpc = "count" <=> cpc' = "count"
    BY <1>2, Zenon DEF PublishBatch, ConsumeBatch, producerVars, consumerVars
  <2>2. QED
    BY <2>1, KeptMissing, Zenon
<1>3. CASE Idle \/ UNCHANGED vars
  BY <1>3, KeptMissing, Zenon DEF Idle, vars, producerVars, consumerVars
<1>4. CASE Producer
  BY <1>1, <1>2, <1>4, InvalidMissing, MovedMissing, CountedMissing, PublishEndMissing, Zenon
     DEF Producer, TryPublish
<1>5. CASE Consumer
  BY <1>1, <1>2, <1>5, InvalidMissing, MovedMissing, CountedMissing, ConsumeEndMissing, Zenon
     DEF Consumer, TryConsume
<1>6. QED
  BY <1>3, <1>4, <1>5, Zenon

\* The terms of the ledger are numbers.
LEMMA LedgerTypes ==
  ASSUME BatchInv, NEW d \in Counted
  PROVE  /\ counters[d] \in Nat /\ before[d] \in Nat /\ after[d] \in Nat
         /\ Happened(d) \in Nat /\ InProgress(d) \in {0, 1}
         /\ StoreOf[d] \in 1 .. Stores /\ stores \in 0 .. Stores /\ Missing(d) \in Int
<1>1. /\ counters \in [Counter -> Nat] /\ before \in [Counter -> Nat]
      /\ after \in [Counted -> Nat] /\ stores \in 0 .. Stores /\ d \in Counter
  BY Counters, Zenon DEF BatchInv, BatchTypeOK
<1>2. /\ counters[d] \in Nat /\ before[d] \in Nat /\ after[d] \in Nat
      /\ Happened(d) \in Nat /\ InProgress(d) \in {0, 1}
      /\ StoreOf[d] \in 1 .. Stores
  BY <1>1, HappenedType, StorePlaces, Zenon
<1>3. Missing(d) \in Int
  BY <1>2 DEF Missing
<1>4. QED
  BY <1>1, <1>2, <1>3, Zenon

\* The initial state satisfies the ledger.
LEMMA InitLedger == Init => LedgerInv
<1> SUFFICES ASSUME Init, NEW d \in Counted PROVE Missing(d) = 0 /\ ~wasReset
  BY DEF LedgerInv
<1>1. /\ ppc = "idle" /\ cpc = "idle" /\ sent = <<>> /\ calls = <<>> /\ got = 0 /\ empties = 0
      /\ counters = [c \in Counter |-> 0] /\ ~wasReset
  BY Zenon DEF Init
<1>2. CutShort(calls) = {} /\ Len(sent) = 0
  BY <1>1, EmptySeq DEF CutShort
<1>3. Cardinality(CutShort(calls)) = 0
  BY <1>2, FS_EmptySet, Zenon
<1>4. /\ counters["published"] = 0 /\ counters["consumed"] = 0
      /\ counters["publish_failed_full"] = 0 /\ counters["consume_failed_empty"] = 0
  BY <1>1, Counters, Zenon
<1>5. 0 - 0 - 0 = 0
  OBVIOUS
<1>6. QED
  BY <1>1, <1>2, <1>3, <1>4, <1>5, MissingIs, Zenon DEF Counted

\* The threads' steps keep it: what is missing stays, the counters grow.
LEMMA SteadyLedger ==
  ASSUME BatchInv, BatchInv', SentInv, LedgerInv, Producer \/ Consumer \/ Idle \/ UNCHANGED vars
  PROVE  LedgerInv'
<1>1. UNCHANGED <<stores, wasReset, before, after>>
  <2>1. UNCHANGED resetVars
    BY Zenon DEF Producer, Consumer, Idle, vars, PublishInvalid, TryPublish, PublishBatch, TryPush,
       StoreMessage, CopyThrows, CountPublished, CountFull, PublishReturns, ConsumeInvalid,
       TryConsume, ConsumeBatch, TryPop, MoveMessage, MoveThrows, CountConsumed, ConsumeReturns
  <2>2. QED
    BY <2>1, Zenon DEF resetVars
<1>2. ASSUME NEW d \in Counted
      PROVE  /\ ~wasReset \/ stores < StoreOf[d] => Missing(d)' = 0
             /\ wasReset => before[d] <= (IF stores < StoreOf[d] THEN counters'[d] ELSE Missing(d)')
             /\ wasReset /\ stores = Stores => Missing(d)' <= after[d]
  <2>1. Missing(d)' = Missing(d) /\ counters'[d] >= counters[d]
    BY SteadyMissing, Zenon DEF SameMissing
  <2>2. /\ ~wasReset \/ stores < StoreOf[d] => Missing(d) = 0
        /\ wasReset => before[d] <= (IF stores < StoreOf[d] THEN counters[d] ELSE Missing(d))
        /\ wasReset /\ stores = Stores => Missing(d) <= after[d]
    BY Zenon DEF LedgerInv
  <2>3. counters[d] \in Nat /\ before[d] \in Nat /\ counters'[d] \in Nat
    <3>1. counters' \in [Counter -> Nat]
      BY Zenon DEF BatchInv, BatchTypeOK
    <3>2. QED
      BY <3>1, LedgerTypes, Counters, Zenon
  <2>4. QED
    BY <2>1, <2>2, <2>3
<1>3. QED
  BY <1>1, <1>2, Zenon DEF LedgerInv

\* The call of reset() remembers what the counters had counted.
LEMMA StartLedger ==
  ASSUME BatchInv, LedgerInv, ResetStart PROVE LedgerInv'
<1>1. /\ ~wasReset /\ wasReset' /\ stores' = 0 /\ before' = counters
      /\ UNCHANGED <<counters, sent, got, calls, empties, ppc, cpc>>
  BY Zenon DEF ResetStart, producerVars, consumerVars
<1>2. ASSUME NEW d \in Counted
      PROVE  Missing(d)' = 0 /\ before'[d] <= counters'[d] /\ stores' < StoreOf[d] /\ stores' # Stores
  <2>1. Missing(d)' = Missing(d) /\ Missing(d) = 0
    BY <1>1, KeptMissing, Zenon DEF SameMissing, LedgerInv
  <2>2. StoreOf[d] \in 1 .. Stores /\ counters[d] \in Nat
    BY LedgerTypes, Zenon
  <2>3. QED
    BY <1>1, <2>1, <2>2 DEF Stores
<1>3. QED
  BY <1>1, <1>2, Zenon DEF LedgerInv

\* A store of reset() forgets one counter, which then lacks all it had counted.
LEMMA StoreLedger ==
  ASSUME BatchInv, LedgerInv, NEW c \in Counter, ResetNext(c) PROVE LedgerInv'
<1>1. /\ stores < Stores /\ StoreOf[c] = stores + 1 /\ stores' = stores + 1
      /\ counters' = [counters EXCEPT ![c] = 0]
      /\ after' = IF stores' = Stores THEN [d \in Counted |-> Happened(d)] ELSE after
      /\ UNCHANGED <<wasReset, before, sent, got, calls, empties, ppc, cpc>>
  BY Zenon DEF ResetNext, producerVars, consumerVars
<1>2. wasReset
  BY <1>1, Zenon DEF BatchInv
<1>3. ASSUME NEW d \in Counted
      PROVE  /\ stores' < StoreOf[d] => Missing(d)' = 0
             /\ before[d] <= (IF stores' < StoreOf[d] THEN counters'[d] ELSE Missing(d)')
             /\ stores' = Stores => Missing(d)' <= after'[d]
  <2>1. /\ counters[d] \in Nat /\ before[d] \in Nat /\ Happened(d) \in Nat
        /\ InProgress(d) \in {0, 1} /\ StoreOf[d] \in 1 .. Stores /\ stores \in 0 .. Stores
    BY LedgerTypes, Zenon
  <2>2. d \in Counter /\ counters \in [Counter -> Nat]
    BY Counters, Zenon DEF BatchInv, BatchTypeOK
  <2>3. counters'[d] = IF d = c THEN 0 ELSE counters[d]
    BY <1>1, <2>2, Zenon
  <2>4. Happened(d)' = Happened(d) /\ InProgress(d)' = InProgress(d)
    BY <1>1, Zenon DEF Happened, InProgress
  <2>5. /\ stores < StoreOf[d] => Happened(d) - InProgress(d) - counters[d] = 0
        /\ before[d] <= (IF stores < StoreOf[d] THEN counters[d]
                         ELSE Happened(d) - InProgress(d) - counters[d])
    BY <1>2, Zenon DEF LedgerInv, Missing
  <2>6. Missing(d)' = Happened(d) - InProgress(d) - counters'[d]
    BY <2>4, Zenon DEF Missing
  <2>7. d # c => StoreOf[d] # stores + 1
    BY <1>1, <2>2, StorePlaces, Zenon
  <2>8. stores' = Stores => after'[d] = Happened(d)
    BY <1>1, Zenon
  <2>9. CASE d = c
    BY <1>1, <2>1, <2>3, <2>5, <2>6, <2>8, <2>9 DEF Stores
  <2>10. CASE d # c
    BY <1>1, <2>1, <2>3, <2>5, <2>6, <2>7, <2>8, <2>10 DEF Stores
  <2>11. QED
    BY <2>9, <2>10, Zenon
<1>4. QED
  BY <1>1, <1>2, <1>3, Zenon DEF LedgerInv

\* The ledger is inductive.
LEMMA NextLedger == BatchInv /\ SentInv /\ LedgerInv /\ [Next]_vars => LedgerInv'
<1> SUFFICES ASSUME BatchInv, SentInv, LedgerInv, [Next]_vars PROVE LedgerInv'
  BY Zenon
<1>1. BatchInv'
  BY NextBatchInv, Zenon
<1>2. QED
  BY <1>1, SteadyLedger, StartLedger, StoreLedger, Zenon DEF Next

\* The three invariants hold in every reachable state.
LEMMA ReportInvariance == Spec => [](BatchInv /\ SentInv /\ LedgerInv)
<1>1. Init => BatchInv /\ SentInv /\ LedgerInv
  BY InitBatchInv, InitReport, InitLedger, Zenon
<1>2. BatchInv /\ SentInv /\ LedgerInv /\ [Next]_vars => (BatchInv /\ SentInv /\ LedgerInv)'
  BY NextBatchInv, NextSent, NextLedger, Zenon
<1>3. QED
  BY <1>1, <1>2, PTL DEF Spec

-----------------------------------------------------------------------------
\* Before a reset() the counters lack nothing but the event in progress.
LEMMA NothingMissing ==
  ASSUME BatchInv, LedgerInv, ~wasReset
  PROVE  /\ counters["published"] + (IF ppc = "count" THEN 1 ELSE 0) = Len(sent)
         /\ counters["consumed"] + (IF cpc = "count" THEN 1 ELSE 0) = got
         /\ counters["publish_failed_full"] = Cardinality(CutShort(calls))
         /\ counters["consume_failed_empty"] = empties
<1>1. \A c \in Counted : Missing(c) = 0
  BY Zenon DEF LedgerInv
<1>2. /\ Missing("published") = 0 /\ Missing("consumed") = 0
      /\ Missing("publish_failed_full") = 0 /\ Missing("consume_failed_empty") = 0
  BY <1>1, Zenon DEF Counted
<1> DEFINE p == IF ppc = "count" THEN 1 ELSE 0
           c == IF cpc = "count" THEN 1 ELSE 0
<1>3. p \in Nat /\ c \in Nat
  OBVIOUS
<1>4. /\ Len(sent) - p - counters["published"] = 0
      /\ got - c - counters["consumed"] = 0
      /\ Cardinality(CutShort(calls)) - 0 - counters["publish_failed_full"] = 0
      /\ empties - 0 - counters["consume_failed_empty"] = 0
  <2>1. /\ Missing("published") = Len(sent) - p - counters["published"]
        /\ Missing("consumed") = got - c - counters["consumed"]
    BY MissingIs, Zenon
  <2> HIDE DEF p, c
  <2>2. QED
    BY <1>2, <2>1, MissingIs, Zenon
<1> HIDE DEF p, c
<1>5. /\ counters["published"] + p = Len(sent) /\ counters["consumed"] + c = got
      /\ counters["publish_failed_full"] = Cardinality(CutShort(calls))
      /\ counters["consume_failed_empty"] = empties
  <2>1. counters["published"] + p = Len(sent)
    <3>1. /\ Len(sent) - p - counters["published"] = 0
          /\ p \in Nat /\ Len(sent) \in Nat /\ counters["published"] \in Nat
      BY <1>3, <1>4, LedgerNumbers, Zenon
    <3>2. QED
      BY <3>1
  <2>2. counters["consumed"] + c = got
    <3>1. /\ got - c - counters["consumed"] = 0
          /\ c \in Nat /\ got \in Nat /\ counters["consumed"] \in Nat
      BY <1>3, <1>4, LedgerNumbers, Zenon
    <3>2. QED
      BY <3>1
  <2>3. \A x, y \in Nat : x - 0 - y = 0 => y = x
    OBVIOUS
  <2>4. /\ counters["publish_failed_full"] = Cardinality(CutShort(calls))
        /\ counters["consume_failed_empty"] = empties
    BY <1>4, <2>3, LedgerNumbers, Zenon
  <2>5. QED
    BY <2>1, <2>2, <2>4, Zenon
<1>6. QED
  BY <1>5, Zenon DEF p, c

(***************************************************************************)
(* Before a reset_metrics(), consumed is never more than one ahead of      *)
(* published, and published never more than Capacity + 1 ahead of          *)
(* consumed, whatever the steps of the two threads.                        *)
(***************************************************************************)
THEOREM CountersStayClose == Spec => []CountersClose
<1>1. BatchInv /\ LedgerInv => CountersClose
  <2> SUFFICES ASSUME BatchInv, LedgerInv, ~wasReset PROVE CountersClose
    BY Zenon DEF CountersClose
  <2>1. /\ counters["published"] + (IF ppc = "count" THEN 1 ELSE 0) = Len(sent)
        /\ counters["consumed"] + (IF cpc = "count" THEN 1 ELSE 0) = got
    BY NothingMissing, Zenon
  <2>2. Len(sent) = got + Len(queue)
    BY Zenon DEF BatchInv
  <2>3. Len(queue) <= Capacity
    BY Numbers, BatchAssumption DEF BatchInv, BatchTypeOK, FifoTypeOK
  <2>4. /\ counters["published"] \in Nat /\ counters["consumed"] \in Nat
        /\ got \in Nat /\ Len(sent) \in Nat /\ Len(queue) \in Nat
    BY LedgerNumbers, Numbers, Zenon
  <2>5. /\ counters["consumed"] <= counters["published"] + 1
        /\ counters["published"] <= counters["consumed"] + Capacity + 1
    BY <2>1, <2>2, <2>3, <2>4, BatchAssumption
  <2>6. QED
    BY <2>5, Zenon DEF CountersClose
<1>2. QED
  BY <1>1, ReportInvariance, PTL

(***************************************************************************)
(* A reset_metrics() that races with the two threads forgets exactly the   *)
(* past: no counter it has zeroed counts an event that was counted before  *)
(* it was called, and every event after it has returned is counted, up to  *)
(* the one in progress, for any number of calls and any interleaving.      *)
(***************************************************************************)
THEOREM ResetForgets == Spec => []ResetForgetsThePast
<1>1. BatchInv /\ LedgerInv => ResetForgetsThePast
  <2> SUFFICES ASSUME BatchInv, LedgerInv, wasReset, NEW c \in Counted
               PROVE  /\ StoreOf[c] <= stores =>
                           counters[c] + InProgress(c) + before[c] <= Happened(c)
                      /\ stores = Stores => Happened(c) <= counters[c] + InProgress(c) + after[c]
    BY Zenon DEF ResetForgetsThePast
  <2>1. /\ before[c] <= (IF stores < StoreOf[c] THEN counters[c]
                         ELSE Happened(c) - InProgress(c) - counters[c])
        /\ stores = Stores => Happened(c) - InProgress(c) - counters[c] <= after[c]
    BY Zenon DEF LedgerInv, Missing
  <2>2. /\ counters[c] \in Nat /\ before[c] \in Nat /\ after[c] \in Nat
        /\ Happened(c) \in Nat /\ InProgress(c) \in {0, 1}
        /\ StoreOf[c] \in 1 .. Stores /\ stores \in 0 .. Stores
    BY LedgerTypes, Zenon
  <2>3. QED
    BY <2>1, <2>2 DEF Stores
<1>2. QED
  BY <1>1, ReportInvariance, PTL

(***************************************************************************)
(* try_publish_batch returns the length of the prefix it queued, for       *)
(* batches of any length, whatever the consumer does meanwhile, also when  *)
(* a copy throws; neither batch call passes the end of its span.           *)
(***************************************************************************)
THEOREM ReturnedCountIsPrefix == Spec => []BatchPrefixes
<1>1. BatchInv /\ SentInv => BatchPrefixes
  <2> SUFFICES ASSUME BatchInv, SentInv PROVE BatchPrefixes
    BY Zenon
  <2>1. published <= Len(messages) /\ consumed <= room
    BY CallFacts DEF BatchInv, BatchTypeOK
  <2>2. ASSUME ppc = "idle" PROVE sent = Queued(calls)
    <3>1. sent = Queued(calls) \o SubSeq(messages, 1, 0)
      BY <2>2, Zenon DEF SentInv
    <3>2. QED
      BY <3>1, QueuedType, NothingYet, Zenon
  <2>3. QED
    BY <2>1, <2>2, Zenon DEF BatchPrefixes
<1>2. QED
  BY <1>1, ReportInvariance, PTL

(***************************************************************************)
(* While reset_metrics() was never called, the counters of a thread that   *)
(* is between two calls are exact, for any number of calls.                *)
(***************************************************************************)
THEOREM ExactBetweenCalls == Spec => []ExactWhenQuiet
<1>1. BatchInv /\ LedgerInv => ExactWhenQuiet
  <2> SUFFICES ASSUME BatchInv, LedgerInv, ~wasReset PROVE ExactWhenQuiet
    BY Zenon DEF ExactWhenQuiet
  <2>1. /\ ppc = "idle" => counters["published"] = Len(sent)
        /\ cpc = "idle" => counters["consumed"] = got
        /\ counters["publish_failed_full"] = Cardinality(CutShort(calls))
        /\ counters["consume_failed_empty"] = empties
    BY NothingMissing, LedgerNumbers
  <2>2. QED
    BY <2>1, Zenon DEF ExactWhenQuiet
<1>2. QED
  BY <1>1, ReportInvariance, PTL

=============================================================================
