------------------------- MODULE MeasurementProofs -------------------------
(***************************************************************************)
(* Proofs about the parts that judge the others: the stress tool           *)
(* (StressSpsc), for every capacity of the queue and any number of         *)
(* messages, and the latency histogram, for any number of samples.         *)
(***************************************************************************)
EXTENDS StressSpsc, LatencyHistogram, SequenceTheorems, TLAPS

\* The initial state satisfies the invariant.
LEMMA InitStressInv == Init => StressInv
<1> SUFFICES ASSUME Init PROVE StressInv
  BY Zenon
<1>1. <<>> \in Seq(Value) /\ Len(<<>>) = 0
  BY EmptySeq, Zenon
<1>2. QED
  BY <1>1, MessagesAssumption DEF Init, FifoInit, FifoTypeOK, StressInv, Taken

\* A load of the producer or of the consumer only lowers what it misses.
LEMMA TryPushInv == \A n \in 0 .. Capacity : StressInv /\ TryPush(n) => StressInv'
<1> SUFFICES ASSUME NEW n \in 0 .. Capacity, StressInv, TryPush(n) PROVE StressInv'
  BY Zenon
<1>1. /\ hidden' = n /\ hidden' \in 0 .. hidden /\ value < messages
      /\ ppc' = IF Len(queue) + n >= Capacity THEN "loop" ELSE "store"
      /\ UNCHANGED <<queue, pending, out, program, value, cpc, expected, consumed, failed>>
  BY Zenon DEF TryPush, ProducerObserve, consumerVars
<1>2. Taken' = Taken
  BY <1>1, Zenon DEF Taken
<1>3. FifoTypeOK'
  <2>1. /\ queue \in Seq(Value) /\ hidden \in Nat /\ Len(queue) + hidden <= Capacity
        /\ pending \in 0 .. Len(queue) /\ out \in Value \cup {NoValue}
    BY Zenon DEF StressInv, FifoTypeOK
  <2>2. hidden' \in Nat /\ Len(queue) + hidden' <= Capacity
    BY <1>1, <2>1, LenProperties, MessagesAssumption
  <2>3. QED
    BY <1>1, <2>1, <2>2, Zenon DEF FifoTypeOK
<1>4. ppc' \in {"loop", "store"} /\ (ppc' = "store" => Len(queue) + hidden' < Capacity)
  <2>1. queue \in Seq(Value) /\ hidden' \in Nat
    BY <1>1, <1>3, Zenon DEF FifoTypeOK
  <2>2. QED
    BY <1>1, <2>1, LenProperties, MessagesAssumption
<1>5. ppc' \in {"loop", "store", "joined"} /\ ppc' # "joined"
  BY <1>4
<1>6. QED
  BY <1>1, <1>2, <1>3, <1>4, <1>5, Zenon DEF StressInv

\* A try of the consumer, which sees the queue's state or an older one.
LEMMA TryPopInv == \A n \in 0 .. Capacity : StressInv /\ TryPop(n) => StressInv'
BY MessagesAssumption
   DEF StressInv, Taken, FifoTypeOK, TryPop, ConsumerObserve, producerVars

\* The value stored follows the last one in the queue.
LEMMA StoreValueInv == StressInv /\ StoreValue => StressInv'
<1> SUFFICES ASSUME StressInv, StoreValue PROVE StressInv'
  BY Zenon
<1> USE MessagesAssumption
<1>1. /\ queue \in Seq(Value) /\ value \in Value
      /\ queue' = Append(queue, value) /\ value' = value + 1
  BY DEF StressInv, FifoTypeOK, StoreValue, Push
<1>2. /\ queue' \in Seq(Value) /\ Len(queue) \in Nat /\ Len(queue') = Len(queue) + 1
      /\ \A i \in 1 .. Len(queue) : queue'[i] = queue[i]
      /\ queue'[Len(queue) + 1] = value
  BY <1>1, AppendProperties, LenProperties
<1>3. Taken' = Taken /\ Taken \in Nat
  BY DEF Taken, StressInv, StoreValue, consumerVars
<1>held. Len(queue) = value - Taken /\ \A i \in 1 .. Len(queue) : queue[i] = Taken + i - 1
  BY Zenon DEF StressInv
<1>natural. value \in Nat
  <2>1. value \in 0 .. messages
    BY Zenon DEF StressInv
  <2>2. QED
    BY <2>1
<1>4. \A i \in 1 .. Len(queue') : queue'[i] = Taken' + i - 1
  <2> SUFFICES ASSUME NEW i \in 1 .. Len(queue') PROVE queue'[i] = Taken' + i - 1
    BY Zenon
  <2>1. CASE i \in 1 .. Len(queue)
    BY <2>1, <1>2, <1>3, <1>held, Zenon
  <2>2. CASE i = Len(queue) + 1
    BY <2>2, <1>2, <1>3, <1>held, <1>natural
  <2>3. QED
    BY <1>2, <2>1, <2>2
<1>5. Len(queue') = value' - Taken'
  BY <1>1, <1>2, <1>3, <1>held, <1>natural
<1>6. FifoTypeOK'
  <2>1. /\ hidden' = hidden /\ out' = out /\ pending' = pending + 1
        /\ Len(queue) + hidden < Capacity
    BY Zenon DEF StoreValue, Push
  <2>2. /\ hidden \in Nat /\ pending \in 0 .. Len(queue) /\ out \in Value \cup {NoValue}
    BY Zenon DEF StressInv, FifoTypeOK
  <2>3. Len(queue') + hidden' <= Capacity /\ pending' \in 0 .. Len(queue')
    BY <1>2, <2>1, <2>2, MessagesAssumption
  <2>4. QED
    BY <1>2, <2>1, <2>2, <2>3, Zenon DEF FifoTypeOK
<1>7. /\ ppc = "store" /\ ppc' = "loop" /\ pending' = pending + 1
      /\ UNCHANGED <<program, hidden, out, cpc, expected, consumed, failed>>
  BY Zenon DEF StoreValue, Push, consumerVars
<1>8. value < messages /\ value \in 0 .. messages /\ pending \in Nat
  BY <1>7 DEF StressInv, FifoTypeOK
<1>9. QED
  <2>1. value' \in 0 .. messages
    BY <1>1, <1>8
  <2>2. cpc = "move" => pending' < Len(queue')
    <3>1. cpc = "move" => pending < Len(queue)
      BY Zenon DEF StressInv
    <3>2. QED
      BY <1>2, <1>7, <1>8, <3>1
  <2>3. ppc' \in {"loop", "store", "joined"} /\ ppc' # "store" /\ ppc' # "joined"
    BY <1>7
  <2>4. QED
    BY <1>4, <1>5, <1>6, <1>7, <2>1, <2>2, <2>3, Zenon DEF StressInv

\* The value taken is the first in the queue, and the one the consumer expects.
LEMMA MoveValueInv == StressInv /\ MoveValue => StressInv'
<1> SUFFICES ASSUME StressInv, MoveValue PROVE StressInv'
  BY Zenon
<1> USE MessagesAssumption
<1>1. /\ queue \in Seq(Value) /\ Len(queue) \in Nat /\ pending \in Nat
      /\ pending < Len(queue) /\ queue' = Tail(queue) /\ out' = Head(queue)
  BY LenProperties DEF StressInv, FifoTypeOK, MoveValue, Pop
<1>2. queue # <<>>
  BY <1>1, EmptySeq
<1>3. /\ out' = queue[1] /\ out' \in Value
      /\ queue' \in Seq(Value) /\ Len(queue') = Len(queue) - 1
      /\ \A i \in 1 .. Len(queue') : queue'[i] = queue[i + 1]
  BY <1>1, <1>2, HeadTailProperties
<1>4. Taken = expected /\ Taken' = expected + 1 /\ expected \in Nat
  BY DEF Taken, StressInv, MoveValue
<1>5. out' = expected
  <2>1. 1 \in 1 .. Len(queue) /\ expected + 1 - 1 = expected
    BY <1>1, <1>4
  <2>2. queue[1] = Taken + 1 - 1
    BY <2>1, Zenon DEF StressInv
  <2>3. QED
    BY <1>3, <1>4, <2>1, <2>2, Zenon
<1>6. \A i \in 1 .. Len(queue') : queue'[i] = Taken' + i - 1
  <2> SUFFICES ASSUME NEW i \in 1 .. Len(queue') PROVE queue'[i] = Taken' + i - 1
    BY Zenon
  <2>1. i + 1 \in 1 .. Len(queue)
    BY <1>1, <1>3
  <2>2. queue[i + 1] = Taken + (i + 1) - 1
    BY <2>1, Zenon DEF StressInv
  <2>3. QED
    BY <1>3, <1>4, <2>2
<1>7. Len(queue') = value' - Taken'
  BY <1>1, <1>3, <1>4 DEF StressInv, MoveValue, producerVars
<1>8. FifoTypeOK'
  <2>1. hidden' = hidden + 1 /\ pending' = pending
    BY Zenon DEF MoveValue, Pop
  <2>2. hidden \in Nat /\ Len(queue) + hidden <= Capacity
    BY Zenon DEF StressInv, FifoTypeOK
  <2>3. hidden' \in Nat /\ Len(queue') + hidden' <= Capacity /\ pending' \in 0 .. Len(queue')
    BY <1>1, <1>3, <2>1, <2>2, MessagesAssumption
  <2>4. QED
    BY <1>3, <2>3, Zenon DEF FifoTypeOK
<1>9. /\ cpc = "move" /\ cpc' = "compare" /\ hidden' = hidden + 1 /\ pending' = pending
      /\ UNCHANGED <<program, ppc, value, expected, consumed, failed>>
  BY Zenon DEF MoveValue, Pop, producerVars
<1>10. Len(queue') + hidden' = Len(queue) + hidden
  <2>1. hidden \in Nat /\ Len(queue) \in Nat
    BY <1>1, Zenon DEF StressInv, FifoTypeOK
  <2>2. \A n, h \in Nat : (n - 1) + (h + 1) = n + h
    OBVIOUS
  <2>3. QED
    BY <1>3, <1>9, <2>1, <2>2, Zenon
<1>11. ppc' = "store" => value' < messages /\ Len(queue') + hidden' < Capacity
  BY <1>9, <1>10, Zenon DEF StressInv
<1>12. /\ program' \in {"stress_spsc", "bench"} /\ failed' = FALSE
       /\ ppc' \in {"loop", "store", "joined"}
       /\ value' \in 0 .. messages /\ expected' \in 0 .. messages /\ consumed' = expected'
       /\ expected' < messages
       /\ ppc' = "joined" => value' = messages
  BY <1>9, Zenon DEF StressInv
<1>13. QED
  BY <1>5, <1>6, <1>7, <1>8, <1>9, <1>11, <1>12, Zenon DEF StressInv

\* The comparison never fails.
LEMMA CompareValueInv == StressInv /\ CompareValue => StressInv'
BY MessagesAssumption
   DEF StressInv, Taken, FifoTypeOK, CompareValue, fifoVars, producerVars

\* A thread leaves its loop.
LEMMA ExitsInv == StressInv /\ (ProducerExits \/ ConsumerExits) => StressInv'
<1>1. StressInv /\ ProducerExits => StressInv'
  BY MessagesAssumption, Zenon
     DEF StressInv, Taken, FifoTypeOK, ProducerExits, fifoVars, consumerVars
<1>2. StressInv /\ ConsumerExits => StressInv'
  BY MessagesAssumption, Zenon
     DEF StressInv, Taken, FifoTypeOK, ConsumerExits, fifoVars, producerVars
<1>3. QED
  BY <1>1, <1>2, Zenon

\* Nothing changes.
LEMMA StutterStressInv == StressInv /\ UNCHANGED vars => StressInv'
BY Zenon DEF StressInv, Taken, FifoTypeOK, vars, fifoVars, producerVars, consumerVars

\* The invariant is inductive.
LEMMA NextStressInv == StressInv /\ [Next]_vars => StressInv'
BY TryPushInv, TryPopInv, StoreValueInv, MoveValueInv, CompareValueInv, ExitsInv,
   StutterStressInv, Zenon DEF Next, ProducerStep, ConsumerStep, Joined

-----------------------------------------------------------------------------
(***************************************************************************)
(* run_stress reports "passed", and aether_bench has moved every message,  *)
(* whatever the capacity, the number of messages and the staleness of the  *)
(* loads: no value is lost, repeated or reordered, and none is left.       *)
(***************************************************************************)
THEOREM StressPasses == Spec => []Passed
<1>1. StressInv => Passed
  <2> SUFFICES ASSUME StressInv PROVE Passed
    BY Zenon
  <2>1. failed = FALSE
    BY Zenon DEF StressInv
  <2>2. ASSUME ppc = "joined", cpc = "joined" PROVE consumed = messages /\ queue = <<>>
    <3>1. expected = messages /\ value = messages /\ Len(queue) = value - expected
      BY <2>2 DEF StressInv, Taken
    <3>2. Len(queue) = 0 /\ queue \in Seq(Value)
      BY <3>1, MessagesAssumption DEF StressInv, FifoTypeOK
    <3>3. QED
      BY <3>1, <3>2, EmptySeq, Zenon DEF StressInv
  <2>3. QED
    BY <2>1, <2>2, Zenon DEF Passed
<1>2. QED
  BY <1>1, InitStressInv, NextStressInv, PTL DEF Spec

-----------------------------------------------------------------------------
(***************************************************************************)
(* LatencyHistogram.  The ranks come out of a multiplication in doubles.   *)
(* What follows takes from it only RankIsNearest: the rank is the nearest, *)
(* or one above it where the exact product is whole.                       *)
(***************************************************************************)

\* A histogram counts its samples of each latency.
SamplesType == samples \in [Latency -> Nat]

LEMMA SamplesAreCounted == HistogramSpec => []SamplesType
<1>1. HistogramInit => SamplesType
  BY DEF HistogramInit, SamplesType, Latency
<1>2. SamplesType /\ [HistogramNext]_histogramVars => SamplesType'
  BY DEF SamplesType, HistogramNext, record, clear, histogramVars, Latency
<1>3. QED
  BY <1>1, <1>2, PTL DEF HistogramSpec

\* The percentiles that are neither below 0 nor above 100.
LEMMA Percentages ==
  /\ DOMAIN Literals = 1 .. 10 /\ Len(Literals) = 10
  /\ DOMAIN Ratios = 3 .. 8
  /\ \A k \in 1 .. 10 : Literals[k][1] <= 0 <=> k <= 2
  /\ \A k \in 3 .. 10 : Literals[k][1] >= 100 * Literals[k][2] <=> k >= 9
<1>1. DOMAIN Literals = 1 .. 10 /\ Len(Literals) = 10
  BY DEF Literals
<1>2. \A k \in 1 .. 10 : Literals[k][1] <= 0 <=> k <= 2
  BY DEF Literals
<1>3. \A k \in 3 .. 10 : Literals[k][1] >= 100 * Literals[k][2] <=> k >= 9
  BY DEF Literals
<1>4. DOMAIN Ratios = {j \in 1 .. 10 : ~Clamped(j)}
  BY <1>1, Zenon DEF Ratios
<1>5. \A j \in 1 .. 10 : Clamped(j) <=> j \in {1, 2, 9, 10}
  BY <1>2, <1>3 DEF Clamped
<1>6. QED
  BY <1>1, <1>2, <1>3, <1>4, <1>5

\* The ranks, percentile by percentile.
LEMMA Ranks ==
  ASSUME NEW n \in Nat, NearestRanks(n)
  PROVE  /\ rank(Ratios[3], n) = (25 * n + 99) \div 100
         /\ rank(Ratios[4], n) = (50 * n + 99) \div 100
         /\ rank(Ratios[5], n) = (75 * n + 99) \div 100
         /\ rank(Ratios[6], n) = (95 * n + 99) \div 100
         /\ rank(Ratios[7], n) = (99 * n + 99) \div 100
         /\ \/ rank(Ratios[8], n) = (999 * n + 999) \div 1000
            \/ (999 * n) % 1000 = 0 /\ rank(Ratios[8], n) = (999 * n + 999) \div 1000 + 1
<1>1. /\ Literals[3] = <<25, 1>> /\ Literals[4] = <<50, 1>> /\ Literals[5] = <<75, 1>>
      /\ Literals[6] = <<95, 1>> /\ Literals[7] = <<99, 1>> /\ Literals[8] = <<999, 10>>
  BY Zenon DEF Literals
<1>2. \A k \in 3 .. 8 :
        \/ rank(Ratios[k], n) = NearestRank(Literals[k][1], Literals[k][2], n)
        \/ /\ Literals[k][2] # 1 /\ Whole(Literals[k][1], Literals[k][2], n)
           /\ rank(Ratios[k], n) = NearestRank(Literals[k][1], Literals[k][2], n) + 1
  BY Percentages, Zenon DEF NearestRanks
<1>3. \A k \in 3 .. 7 : Literals[k][2] = 1
  BY <1>1
<1>4. \A k \in 3 .. 7 : rank(Ratios[k], n) = NearestRank(Literals[k][1], 1, n)
  BY <1>2, <1>3
<1>5. \/ rank(Ratios[8], n) = NearestRank(999, 10, n)
      \/ Whole(999, 10, n) /\ rank(Ratios[8], n) = NearestRank(999, 10, n) + 1
  BY <1>1, <1>2
<1>6. /\ rank(Ratios[3], n) = NearestRank(25, 1, n) /\ rank(Ratios[4], n) = NearestRank(50, 1, n)
      /\ rank(Ratios[5], n) = NearestRank(75, 1, n) /\ rank(Ratios[6], n) = NearestRank(95, 1, n)
      /\ rank(Ratios[7], n) = NearestRank(99, 1, n)
  BY <1>1, <1>4
<1>7. \A p \in Nat : NearestRank(p, 1, n) = (p * n + 99) \div 100
  BY DEF NearestRank
<1>8. NearestRank(999, 10, n) = (999 * n + 999) \div 1000
  BY DEF NearestRank
<1>9. Whole(999, 10, n) <=> (999 * n) % 1000 = 0
  BY DEF Whole
<1>10. QED
  BY <1>5, <1>6, <1>7, <1>8, <1>9

\* Every rank is that of a sample, and a higher percentile has no lower rank.
LEMMA RankBounds ==
  ASSUME NEW n \in Nat \ {0}, NearestRanks(n)
  PROVE  /\ \A k \in 3 .. 8 : rank(Ratios[k], n) \in 1 .. n
         /\ \A k \in 3 .. 7 : rank(Ratios[k], n) <= rank(Ratios[k + 1], n)
<1> DEFINE r(k) == rank(Ratios[k], n)
<1>1. /\ r(3) = (25 * n + 99) \div 100 /\ r(4) = (50 * n + 99) \div 100
      /\ r(5) = (75 * n + 99) \div 100 /\ r(6) = (95 * n + 99) \div 100
      /\ r(7) = (99 * n + 99) \div 100
      /\ \/ r(8) = (999 * n + 999) \div 1000
         \/ (999 * n) % 1000 = 0 /\ r(8) = (999 * n + 999) \div 1000 + 1
  BY Ranks
<1> HIDE DEF r
<1>2. 1 <= r(3) /\ r(3) <= r(4) /\ r(4) <= r(5) /\ r(5) <= r(6) /\ r(6) <= r(7)
  BY <1>1
<1>3. r(7) <= r(8)
  BY <1>1
<1>4. r(8) <= n
  BY <1>1
<1>5. r(3) \in Int /\ r(4) \in Int /\ r(5) \in Int /\ r(6) \in Int /\ r(7) \in Int /\ r(8) \in Int
  BY <1>1
<1>6. /\ r(3) \in 1 .. n /\ r(4) \in 1 .. n /\ r(5) \in 1 .. n
      /\ r(6) \in 1 .. n /\ r(7) \in 1 .. n /\ r(8) \in 1 .. n
  BY <1>2, <1>3, <1>4, <1>5
<1>7. \A k \in 3 .. 8 : r(k) \in 1 .. n
  <2>1. \A k \in 3 .. 8 : k = 3 \/ k = 4 \/ k = 5 \/ k = 6 \/ k = 7 \/ k = 8
    OBVIOUS
  <2>2. QED
    BY <1>6, <2>1, Zenon
<1>8. \A k \in 3 .. 7 : r(k) <= r(k + 1)
  <2>1. \A k \in 3 .. 7 : k = 3 \/ k = 4 \/ k = 5 \/ k = 6 \/ k = 7
    OBVIOUS
  <2>2. QED
    BY <1>2, <1>3, <2>1
<1>9. QED
  BY <1>7, <1>8, Zenon DEF r

\* One more sample moves a rank by one at most, and never down.
LEMMA RankSteps ==
  ASSUME NEW n \in Nat \ {0}, NearestRanks(n), NearestRanks(n + 1)
  PROVE  \A k \in 3 .. 8 : /\ rank(Ratios[k], n) <= rank(Ratios[k], n + 1)
                           /\ rank(Ratios[k], n + 1) <= rank(Ratios[k], n) + 1
<1> DEFINE r(k) == rank(Ratios[k], n)
           q(k) == rank(Ratios[k], n + 1)
           Step(k) == r(k) <= q(k) /\ q(k) <= r(k) + 1
<1>1. /\ r(3) = (25 * n + 99) \div 100 /\ r(4) = (50 * n + 99) \div 100
      /\ r(5) = (75 * n + 99) \div 100 /\ r(6) = (95 * n + 99) \div 100
      /\ r(7) = (99 * n + 99) \div 100
      /\ \/ r(8) = (999 * n + 999) \div 1000
         \/ (999 * n) % 1000 = 0 /\ r(8) = (999 * n + 999) \div 1000 + 1
  BY Ranks
<1>2. /\ q(3) = (25 * (n + 1) + 99) \div 100 /\ q(4) = (50 * (n + 1) + 99) \div 100
      /\ q(5) = (75 * (n + 1) + 99) \div 100 /\ q(6) = (95 * (n + 1) + 99) \div 100
      /\ q(7) = (99 * (n + 1) + 99) \div 100
      /\ \/ q(8) = (999 * (n + 1) + 999) \div 1000
         \/ (999 * (n + 1)) % 1000 = 0 /\ q(8) = (999 * (n + 1) + 999) \div 1000 + 1
  BY Ranks
<1> HIDE DEF r, q
<1>3. Step(3) /\ Step(4) /\ Step(5)
  BY <1>1, <1>2
<1>4. Step(6) /\ Step(7)
  BY <1>1, <1>2
<1>5. Step(8)
  BY <1>1, <1>2
<1>6. \A k \in 3 .. 8 : k = 3 \/ k = 4 \/ k = 5 \/ k = 6 \/ k = 7 \/ k = 8
  OBVIOUS
<1>7. \A k \in 3 .. 8 : Step(k)
  BY <1>3, <1>4, <1>5, <1>6, Zenon
<1>8. QED
  BY <1>7, Zenon DEF r, q

\* The smallest and the largest sample.
LEMMA Extremes ==
  ASSUME NEW s \in [Latency -> Nat], count(s) > 0
  PROVE  /\ min(s) = IF s[Fast] > 0 THEN Fast ELSE Slow
         /\ max(s) = IF s[Slow] > 0 THEN Slow ELSE Fast
<1> DEFINE S == {v \in Latency : s[v] > 0}
<1>1. s[Fast] \in Nat /\ s[Slow] \in Nat /\ (s[Fast] > 0 \/ s[Slow] > 0)
  BY DEF Latency, count
<1>2. /\ S \subseteq {Fast, Slow} /\ (Fast \in S <=> s[Fast] > 0) /\ (Slow \in S <=> s[Slow] > 0)
  BY Zenon DEF Latency
<1>3. Fast \in Nat /\ Slow \in Nat /\ Fast < Slow
  BY LatencyAssumption, Zenon
<1>4. min(s) = Min(S) /\ max(s) = Max(S)
  BY DEF min, max
<1> HIDE DEF S
<1>5. Min(S) = IF s[Fast] > 0 THEN Fast ELSE Slow
  <2> DEFINE m == IF s[Fast] > 0 THEN Fast ELSE Slow
  <2>1. m \in S /\ \A y \in S : m <= y
    BY <1>1, <1>2, <1>3
  <2>2. Min(S) \in S /\ \A y \in S : Min(S) <= y
    BY <2>1, Zenon DEF Min
  <2>3. m \in Nat /\ Min(S) \in Nat
    BY <1>2, <1>3, <2>1, <2>2, Zenon
  <2>4. QED
    BY <2>1, <2>2, <2>3
<1>6. Max(S) = IF s[Slow] > 0 THEN Slow ELSE Fast
  <2> DEFINE m == IF s[Slow] > 0 THEN Slow ELSE Fast
  <2>1. m \in S /\ \A y \in S : m >= y
    BY <1>1, <1>2, <1>3
  <2>2. Max(S) \in S /\ \A y \in S : Max(S) >= y
    BY <2>1, Zenon DEF Max
  <2>3. m \in Nat /\ Max(S) \in Nat
    BY <1>2, <1>3, <2>1, <2>2, Zenon
  <2>4. QED
    BY <2>1, <2>2, <2>3
<1>7. QED
  BY <1>4, <1>5, <1>6, Zenon

\* What percentile() returns: the sample of a rank that is within the samples.
LEMMA PercentileOf ==
  ASSUME NEW s \in [Latency -> Nat], count(s) > 0, NearestRanks(count(s))
  PROVE  /\ \A k \in 1 .. 2 : percentile(s, k) = IF s[Fast] > 0 THEN Fast ELSE Slow
         /\ \A k \in 3 .. 8 : /\ rank(Ratios[k], count(s)) \in 1 .. count(s)
                              /\ percentile(s, k) =
                                   IF rank(Ratios[k], count(s)) <= s[Fast] THEN Fast ELSE Slow
         /\ \A k \in 9 .. 10 : percentile(s, k) = IF s[Slow] > 0 THEN Slow ELSE Fast
<1>1. s[Fast] \in Nat /\ s[Slow] \in Nat /\ count(s) \in Nat \ {0}
  BY DEF Latency, count
<1>2. ASSUME NEW k \in 1 .. 2
      PROVE  percentile(s, k) = IF s[Fast] > 0 THEN Fast ELSE Slow
  <2>1. Literals[k][1] <= 0
    BY Percentages
  <2>2. percentile(s, k) = min(s)
    BY <1>1, <2>1, Zenon DEF percentile
  <2>3. QED
    BY <2>2, Extremes, Zenon
<1>3. ASSUME NEW k \in 9 .. 10
      PROVE  percentile(s, k) = IF s[Slow] > 0 THEN Slow ELSE Fast
  <2>1. ~(Literals[k][1] <= 0) /\ Literals[k][1] >= 100 * Literals[k][2]
    BY Percentages
  <2>2. percentile(s, k) = max(s)
    BY <1>1, <2>1, Zenon DEF percentile
  <2>3. QED
    BY <2>2, Extremes, Zenon
<1>4. ASSUME NEW k \in 3 .. 8
      PROVE  /\ rank(Ratios[k], count(s)) \in 1 .. count(s)
             /\ percentile(s, k) = IF rank(Ratios[k], count(s)) <= s[Fast] THEN Fast ELSE Slow
  <2> DEFINE r == rank(Ratios[k], count(s))
  <2>1. ~(Literals[k][1] <= 0) /\ ~(Literals[k][1] >= 100 * Literals[k][2])
    BY Percentages
  <2>2. percentile(s, k) = sorted(s, index(r))
    BY <1>1, <2>1, Zenon DEF percentile
  <2>3. r \in 1 .. count(s)
    BY <1>1, RankBounds, Zenon
  <2> HIDE DEF r
  <2>4. index(r) = r - 1
    BY <1>1, <2>3 DEF index
  <2>5. sorted(s, r - 1) = IF r <= s[Fast] THEN Fast ELSE Slow
    BY <1>1, <2>3 DEF sorted
  <2>6. QED
    BY <2>2, <2>3, <2>4, <2>5, Zenon DEF r
<1>5. QED
  BY <1>2, <1>3, <1>4, Zenon

\* The percentiles of some samples are ordered once their ranks are the nearest ones.
LEMMA OrderedFromRanks ==
  SamplesType /\ RankIsNearest => PercentilesOrdered
<1> SUFFICES ASSUME SamplesType, RankIsNearest PROVE PercentilesOrdered
  BY Zenon
<1>1. Fast \in Nat /\ Slow \in Nat /\ Fast < Slow
  BY LatencyAssumption, Zenon
<1>2. samples[Fast] \in Nat /\ samples[Slow] \in Nat /\ count(samples) \in Nat
  BY DEF SamplesType, Latency, count
<1>3. CASE count(samples) = 0
  <2>1. \A k \in 1 .. 10 : percentile(samples, k) = 0
    BY <1>3, Zenon DEF percentile
  <2>2. \A k \in 1 .. Len(Literals) - 1 : percentile(samples, k) <= percentile(samples, k + 1)
    BY <2>1, Percentages
  <2>3. QED
    BY <1>3, <2>2 DEF PercentilesOrdered
<1>4. CASE count(samples) > 0
  <2> DEFINE n == count(samples)
             r(k) == rank(Ratios[k], n)
             p(k) == percentile(samples, k)
  <2>1. NearestRanks(n) /\ samples \in [Latency -> Nat] /\ n \in Nat \ {0}
    BY <1>2, <1>4 DEF RankIsNearest, SamplesType
  <2>2. \A k \in 1 .. 2 : p(k) = IF samples[Fast] > 0 THEN Fast ELSE Slow
    BY <1>4, <2>1, PercentileOf, Zenon
  <2>3. \A k \in 3 .. 8 : r(k) \in 1 .. n /\ p(k) = IF r(k) <= samples[Fast] THEN Fast ELSE Slow
    BY <1>4, <2>1, PercentileOf, Zenon
  <2>4. \A k \in 9 .. 10 : p(k) = IF samples[Slow] > 0 THEN Slow ELSE Fast
    BY <1>4, <2>1, PercentileOf, Zenon
  <2>5. \A k \in 3 .. 7 : r(k) <= r(k + 1)
    BY <2>1, RankBounds, Zenon
  <2>6. n = samples[Fast] + samples[Slow]
    BY Zenon DEF count
  <2> HIDE DEF n, r, p
  <2>7. ASSUME NEW k \in 1 .. 10
        PROVE  \E v \in {Fast, Slow} : samples[v] > 0 /\ p(k) = v
    <3>1. CASE k \in 1 .. 2
      BY <1>2, <2>1, <2>2, <2>6, <3>1
    <3>2. CASE k \in 3 .. 8
      BY <1>2, <2>1, <2>3, <2>6, <3>2
    <3>3. CASE k \in 9 .. 10
      BY <1>2, <2>1, <2>4, <2>6, <3>3
    <3>4. QED
      BY <3>1, <3>2, <3>3
  <2>8. ASSUME NEW k \in 1 .. 9
        PROVE  p(k) <= p(k + 1)
    <3>1. CASE k = 1 \/ k = 9
      BY <1>1, <2>2, <2>4, <3>1
    <3>2. CASE k = 2
      BY <1>1, <1>2, <2>2, <2>3, <3>2
    <3>3. CASE k \in 3 .. 7
      <4>1. k \in 3 .. 8 /\ k + 1 \in 3 .. 8 /\ r(k) <= r(k + 1)
        BY <2>5, <3>3
      <4>2. r(k) \in Int /\ r(k + 1) \in Int
        BY <2>3, <4>1
      <4>3. QED
        BY <1>1, <1>2, <2>3, <4>1, <4>2
    <3>4. CASE k = 8
      BY <1>1, <1>2, <2>1, <2>3, <2>4, <2>6, <3>4
    <3>5. QED
      BY <3>1, <3>2, <3>3, <3>4
  <2>9. QED
    BY <2>7, <2>8, Percentages DEF PercentilesOrdered, Latency, p
<1>5. QED
  BY <1>2, <1>3, <1>4

(***************************************************************************)
(* percentile() of metrics/latency_histogram.cpp, for every number of      *)
(* samples: where the ranks it computes in doubles are the nearest ones,   *)
(* or one above where the product is whole, no rank is out of range,       *)
(* every percentile is a sample, and the percentiles are in order.         *)
(***************************************************************************)
THEOREM PercentilesAreOrdered ==
  HistogramSpec /\ []RankIsNearest => []PercentilesOrdered
BY SamplesAreCounted, OrderedFromRanks, PTL

\* A percentile of samples is a natural number.
LEMMA PercentileType ==
  ASSUME NEW s \in [Latency -> Nat], count(s) > 0 => NearestRanks(count(s)), NEW k \in 1 .. 10
  PROVE  percentile(s, k) \in Nat
<1>1. Fast \in Nat /\ Slow \in Nat
  BY LatencyAssumption, Zenon
<1>2. s[Fast] \in Nat /\ s[Slow] \in Nat /\ count(s) \in Nat
  BY DEF Latency, count
<1>3. CASE count(s) = 0
  BY <1>3, Zenon DEF percentile
<1>4. CASE count(s) > 0
  <2>1. CASE k \in 1 .. 2
    BY <1>1, <1>4, <2>1, PercentileOf, Zenon
  <2>2. CASE k \in 3 .. 8
    BY <1>1, <1>4, <2>2, PercentileOf, Zenon
  <2>3. CASE k \in 9 .. 10
    BY <1>1, <1>4, <2>3, PercentileOf, Zenon
  <2>4. QED
    BY <2>1, <2>2, <2>3
<1>5. QED
  BY <1>2, <1>3, <1>4

\* One more sample of either latency, among samples that are not empty.
LEMMA OneMore ==
  ASSUME NEW s \in [Latency -> Nat], NEW v \in Latency, NEW k \in 1 .. 10, count(s) > 0,
         NearestRanks(count(s)), NearestRanks(count([s EXCEPT ![v] = @ + 1]))
  PROVE  LET t == [s EXCEPT ![v] = @ + 1]
         IN  IF v = Slow THEN percentile(t, k) >= percentile(s, k)
                         ELSE percentile(t, k) <= percentile(s, k)
<1> DEFINE t == [s EXCEPT ![v] = @ + 1]
           n == count(s)
<1>1. Fast \in Nat /\ Slow \in Nat /\ Fast < Slow
  BY LatencyAssumption, Zenon
<1>2. s[Fast] \in Nat /\ s[Slow] \in Nat /\ n \in Nat \ {0} /\ n = s[Fast] + s[Slow]
  BY DEF Latency, count
<1>3. /\ t \in [Latency -> Nat] /\ v \in {Fast, Slow}
      /\ v = Slow => t[Slow] = s[Slow] + 1 /\ t[Fast] = s[Fast]
      /\ v # Slow => t[Slow] = s[Slow] /\ t[Fast] = s[Fast] + 1
  BY <1>1 DEF Latency
<1>4. count(t) = n + 1 /\ count(t) > 0
  BY <1>2, <1>3 DEF count
<1>5. NearestRanks(count(t)) /\ NearestRanks(n) /\ NearestRanks(n + 1) /\ n > 0
  BY <1>4, Zenon
<1> HIDE DEF t
<1>6. CASE k \in 1 .. 2
  <2>1. percentile(s, k) = IF s[Fast] > 0 THEN Fast ELSE Slow
    BY <1>6, PercentileOf, Zenon
  <2>2. percentile(t, k) = IF t[Fast] > 0 THEN Fast ELSE Slow
    BY <1>3, <1>4, <1>5, <1>6, PercentileOf, Zenon
  <2>3. IF v = Slow THEN percentile(t, k) >= percentile(s, k)
                    ELSE percentile(t, k) <= percentile(s, k)
    BY <1>1, <1>2, <1>3, <2>1, <2>2
  <2>4. QED
    BY <2>3, Zenon DEF t
<1>7. CASE k \in 9 .. 10
  <2>1. percentile(s, k) = IF s[Slow] > 0 THEN Slow ELSE Fast
    BY <1>7, PercentileOf, Zenon
  <2>2. percentile(t, k) = IF t[Slow] > 0 THEN Slow ELSE Fast
    BY <1>3, <1>4, <1>5, <1>7, PercentileOf, Zenon
  <2>3. IF v = Slow THEN percentile(t, k) >= percentile(s, k)
                    ELSE percentile(t, k) <= percentile(s, k)
    BY <1>1, <1>2, <1>3, <2>1, <2>2
  <2>4. QED
    BY <2>3, Zenon DEF t
<1>8. CASE k \in 3 .. 8
  <2> DEFINE r == rank(Ratios[k], n)
             q == rank(Ratios[k], n + 1)
  <2>1. r \in 1 .. n /\ percentile(s, k) = IF r <= s[Fast] THEN Fast ELSE Slow
    BY <1>8, PercentileOf, Zenon
  <2>2. q \in 1 .. n + 1 /\ percentile(t, k) = IF q <= t[Fast] THEN Fast ELSE Slow
    BY <1>3, <1>4, <1>5, <1>8, PercentileOf, Zenon
  <2>3. r <= q /\ q <= r + 1
    BY <1>2, <1>5, <1>8, RankSteps, Zenon
  <2> HIDE DEF r, q
  <2>4. r \in Int /\ q \in Int
    BY <1>2, <2>1, <2>2
  <2>5. IF v = Slow THEN percentile(t, k) >= percentile(s, k)
                    ELSE percentile(t, k) <= percentile(s, k)
    BY <1>1, <1>2, <1>3, <2>1, <2>2, <2>3, <2>4
  <2>6. QED
    BY <2>5, Zenon DEF t
<1>9. QED
  BY <1>6, <1>7, <1>8

\* Only record() makes samples more numerous: clear() empties them.
LEMMA RecordedSample ==
  ASSUME SamplesType, HistogramNext, NEW v \in Latency, samples'[v] > samples[v]
  PROVE  samples' = [samples EXCEPT ![v] = @ + 1]
<1>1. Fast # Slow
  BY LatencyAssumption
<1>2. samples[v] \in Nat
  BY Zenon DEF SamplesType
<1>3. ASSUME NEW u \in Latency, record(u) PROVE u = v
  BY <1>2, <1>3 DEF record, SamplesType
<1>4. ~clear
  BY <1>2 DEF clear
<1>5. QED
  BY <1>3, <1>4, Zenon DEF HistogramNext, record

\* A step moves the percentiles only towards the sample it records.
LEMMA FollowStep ==
  ASSUME SamplesType, RankIsNearest, SamplesType', RankIsNearest', HistogramNext,
         NEW k \in DOMAIN Literals
  PROVE  /\ samples'[Slow] > samples[Slow] => percentile(samples', k) >= percentile(samples, k)
         /\ samples'[Fast] > samples[Fast] /\ count(samples) > 0
              => percentile(samples', k) <= percentile(samples, k)
<1>1. k \in 1 .. 10
  BY Percentages, Zenon
<1>2. samples \in [Latency -> Nat] /\ samples' \in [Latency -> Nat]
  BY Zenon DEF SamplesType
<1>3. Fast \in Latency /\ Slow \in Latency /\ Fast # Slow
  BY LatencyAssumption DEF Latency
<1>4. count(samples) \in Nat
  BY <1>2, <1>3 DEF count
<1>5. /\ count(samples) > 0 => NearestRanks(count(samples))
      /\ count(samples') > 0 => NearestRanks(count(samples'))
  BY Zenon DEF RankIsNearest
<1>6. ASSUME NEW v \in Latency, samples'[v] > samples[v], count(samples) > 0
      PROVE  IF v = Slow THEN percentile(samples', k) >= percentile(samples, k)
                         ELSE percentile(samples', k) <= percentile(samples, k)
  <2>1. samples' = [samples EXCEPT ![v] = @ + 1]
    BY <1>6, RecordedSample, Zenon
  <2>2. count(samples') > 0
    BY <1>2, <1>3, <1>4, <1>6, <2>1 DEF count, Latency
  <2>3. NearestRanks(count(samples)) /\ NearestRanks(count([samples EXCEPT ![v] = @ + 1]))
    BY <1>5, <1>6, <2>1, <2>2, Zenon
  <2>4. QED
    BY <1>1, <1>2, <1>6, <2>1, <2>3, OneMore, Zenon
<1>7. CASE count(samples) > 0
  BY <1>3, <1>6, <1>7, Zenon
<1>8. CASE count(samples) = 0
  <2>1. percentile(samples, k) = 0
    BY <1>8, Zenon DEF percentile
  <2>2. percentile(samples', k) \in Nat
    BY <1>1, <1>2, <1>5, PercentileType, Zenon
  <2>3. QED
    BY <1>8, <2>1, <2>2
<1>9. QED
  BY <1>4, <1>7, <1>8

(***************************************************************************)
(* record() and clear() of metrics/latency_histogram.cpp, for every number *)
(* of samples: under the same condition on the ranks, also where the       *)
(* rounding moves one of them between two calls, a slow sample lowers no   *)
(* percentile and a fast one raises none.                                  *)
(***************************************************************************)
THEOREM PercentilesMoveTowardsSample ==
  HistogramSpec /\ []RankIsNearest => PercentilesFollow
<1> DEFINE Follow == \A k \in DOMAIN Literals :
             LET before == percentile(samples, k)
                 after == percentile(samples', k)
             IN  /\ samples'[Slow] > samples[Slow] => after >= before
                 /\ samples'[Fast] > samples[Fast] /\ count(samples) > 0 => after <= before
<1>1. SamplesType /\ RankIsNearest /\ SamplesType' /\ RankIsNearest' /\ [HistogramNext]_histogramVars
        => [Follow]_histogramVars
  BY FollowStep, Zenon
<1>2. QED
  BY <1>1, SamplesAreCounted, PTL DEF HistogramSpec, PercentilesFollow

=============================================================================
