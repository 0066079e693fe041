----------------------- MODULE PersistentBrokerProofs -----------------------
(***************************************************************************)
(* Proofs about PersistentBroker, for every capacity of the queue, every   *)
(* size of the log, every set of values and any number of calls.           *)
(***************************************************************************)
EXTENDS PersistentBroker, SequencesExt, SequenceTheorems, TLAPS

(***************************************************************************)
(* Facts about sequences: a queue behind the values taken from it, and     *)
(* prefixes.                                                               *)
(***************************************************************************)

\* A push: the value at the end of the queue is at the end of the whole.
LEMMA ConcatAppend ==
  ASSUME NEW S, NEW s \in Seq(S), NEW t \in Seq(S), NEW v \in S
  PROVE  s \o Append(t, v) = Append(s \o t, v)
<1>1. Append(t, v) = t \o <<v>> /\ <<v>> \in Seq(S)
  BY AppendIsConcat
<1>2. Append(s \o t, v) = (s \o t) \o <<v>>
  BY ConcatProperties, AppendIsConcat, Zenon
<1>3. QED
  BY <1>1, <1>2, ConcatAssociative

\* A pop: the first value of the queue becomes the last one consumed.
LEMMA ConcatHeadTail ==
  ASSUME NEW S, NEW s \in Seq(S), NEW t \in Seq(S), t # <<>>
  PROVE  Append(s, Head(t)) \o Tail(t) = s \o t
<1> DEFINE l == Append(s, Head(t)) \o Tail(t)
           r == s \o t
<1>1. /\ Head(t) \in S /\ Tail(t) \in Seq(S)
      /\ Len(Tail(t)) = Len(t) - 1
      /\ \A i \in 1 .. Len(Tail(t)) : Tail(t)[i] = t[i + 1]
  BY HeadTailProperties, Zenon
<1>2. /\ Append(s, Head(t)) \in Seq(S)
      /\ Len(Append(s, Head(t))) = Len(s) + 1
      /\ \A i \in 1 .. Len(s) : Append(s, Head(t))[i] = s[i]
      /\ Append(s, Head(t))[Len(s) + 1] = Head(t)
  BY <1>1, AppendProperties
<1>3. /\ r \in Seq(S) /\ Len(r) = Len(s) + Len(t)
      /\ \A i \in 1 .. Len(s) + Len(t) : r[i] = IF i <= Len(s) THEN s[i] ELSE t[i - Len(s)]
  BY ConcatProperties, Zenon
<1>4. /\ l \in Seq(S) /\ Len(l) = Len(s) + Len(t)
      /\ \A i \in 1 .. Len(s) + Len(t) :
           l[i] = IF i <= Len(s) + 1 THEN Append(s, Head(t))[i] ELSE Tail(t)[i - (Len(s) + 1)]
  BY <1>1, <1>2, ConcatProperties, LenProperties
<1>5. Head(t) = t[1] /\ Len(s) \in Nat /\ Len(t) \in Nat
  BY LenProperties
<1>6. ASSUME NEW i \in 1 .. Len(s) + Len(t)
      PROVE  l[i] = r[i]
  <2>1. CASE i <= Len(s)
    BY <2>1, <1>2, <1>3, <1>4, <1>5
  <2>2. CASE i = Len(s) + 1
    BY <2>2, <1>2, <1>3, <1>4, <1>5
  <2>3. CASE i > Len(s) + 1
    <3>1. i - (Len(s) + 1) \in 1 .. Len(Tail(t)) /\ (i - (Len(s) + 1)) + 1 = i - Len(s)
      BY <2>3, <1>1, <1>5
    <3>2. Tail(t)[i - (Len(s) + 1)] = t[i - Len(s)]
      BY <3>1, <1>1, Zenon
    <3>3. QED
      BY <3>2, <2>3, <1>3, <1>4, <1>5
  <2>4. QED
    BY <2>1, <2>2, <2>3, <1>5
<1> HIDE DEF l, r
<1>7. l = r
  BY <1>3, <1>4, <1>6, SeqEqual, Zenon
<1>8. QED
  BY <1>7, Zenon DEF l, r

\* A prefix, element by element.
LEMMA PrefixPointwise ==
  ASSUME NEW S, NEW s \in Seq(S), NEW t \in Seq(S)
  PROVE  IsPrefix(s, t) <=> Len(s) <= Len(t) /\ \A i \in 1 .. Len(s) : s[i] = t[i]
<1>1. Len(s) \in Nat /\ Len(t) \in Nat /\ SubSeq(s, 1, Len(s)) = s
  BY LenProperties, SubSeqFull, Zenon
<1>2. CASE Len(s) <= Len(t)
  <2>1. \A i \in 1 .. Len(s) : t[i] \in S
    BY <1>1, <1>2, ElementOfSeq
  <2>2. /\ SubSeq(t, 1, Len(s)) \in Seq(S)
        /\ Len(SubSeq(t, 1, Len(s))) = Len(s)
        /\ \A i \in 1 .. Len(s) : SubSeq(t, 1, Len(s))[i] = t[i]
    <3>1. /\ SubSeq(t, 1, Len(s)) \in Seq(S)
          /\ Len(SubSeq(t, 1, Len(s))) = IF 1 <= Len(s) THEN Len(s) - 1 + 1 ELSE 0
          /\ \A i \in 1 .. Len(s) - 1 + 1 : SubSeq(t, 1, Len(s))[i] = t[1 + i - 1]
      BY <1>1, <2>1, SubSeqProperties
    <3>2. QED
      BY <3>1, <1>1
  <2>3. s = SubSeq(t, 1, Len(s)) <=> \A i \in 1 .. Len(s) : s[i] = t[i]
    BY <2>2, SeqEqual, Zenon
  <2>4. QED
    BY <1>1, <1>2, <2>3, Zenon DEF IsPrefix
<1>3. CASE ~(Len(s) <= Len(t))
  BY <1>3, Zenon DEF IsPrefix
<1>4. QED
  BY <1>2, <1>3, Zenon

\* A sequence is a prefix of its continuation.
LEMMA PrefixOfConcat ==
  ASSUME NEW S, NEW s \in Seq(S), NEW t \in Seq(S)
  PROVE  IsPrefix(s, s \o t)
<1>1. Len(s) \in Nat /\ Len(t) \in Nat
  BY LenProperties, Zenon
<1>2. /\ s \o t \in Seq(S) /\ Len(s \o t) = Len(s) + Len(t)
      /\ \A i \in 1 .. Len(s) : (s \o t)[i] = s[i]
  BY <1>1, ConcatProperties
<1>3. IsPrefix(s, s \o t)
        <=> Len(s) <= Len(s \o t) /\ \A i \in 1 .. Len(s) : s[i] = (s \o t)[i]
  BY <1>2, PrefixPointwise, Zenon
<1>4. QED
  BY <1>1, <1>2, <1>3

\* A prefix stays one when an element is appended.
LEMMA PrefixOfAppend ==
  ASSUME NEW S, NEW s \in Seq(S), NEW t \in Seq(S), NEW v \in S, IsPrefix(s, t)
  PROVE  IsPrefix(s, Append(t, v))
<1>1. Len(s) \in Nat /\ Len(t) \in Nat
  BY LenProperties, Zenon
<1>2. Len(s) <= Len(t) /\ \A i \in 1 .. Len(s) : s[i] = t[i]
  BY PrefixPointwise
<1> DEFINE u == Append(t, v)
<1>3. u \in Seq(S) /\ Len(u) = Len(t) + 1 /\ \A i \in 1 .. Len(t) : u[i] = t[i]
  BY AppendProperties
<1> HIDE DEF u
<1>4. Len(s) <= Len(u) /\ \A i \in 1 .. Len(s) : s[i] = u[i]
  BY <1>1, <1>2, <1>3
<1>5. IsPrefix(s, u)
  BY <1>3, <1>4, PrefixPointwise, Zenon
<1>6. QED
  BY <1>5, Zenon DEF u

\* Cutting both sequences keeps the prefix, if the longer one keeps more.
LEMMA PrefixOfCut ==
  ASSUME NEW S, NEW s \in Seq(S), NEW t \in Seq(S), IsPrefix(s, t),
         NEW k \in 0 .. Len(s), NEW n \in k .. Len(t)
  PROVE  IsPrefix(SubSeq(s, 1, k), SubSeq(t, 1, n))
<1>1. Len(s) \in Nat /\ Len(t) \in Nat
  BY LenProperties, Zenon
<1>2. Len(s) <= Len(t) /\ \A i \in 1 .. Len(s) : s[i] = t[i]
  BY PrefixPointwise
<1>3. ASSUME NEW u \in Seq(S), NEW m \in 0 .. Len(u)
      PROVE  /\ SubSeq(u, 1, m) \in Seq(S) /\ Len(SubSeq(u, 1, m)) = m
             /\ \A i \in 1 .. m : SubSeq(u, 1, m)[i] = u[i]
  <2>1. Len(u) \in Nat /\ \A i \in 1 .. m : u[i] \in S
    BY LenProperties, ElementOfSeq
  <2>2. /\ SubSeq(u, 1, m) \in Seq(S)
        /\ Len(SubSeq(u, 1, m)) = IF 1 <= m THEN m - 1 + 1 ELSE 0
        /\ \A i \in 1 .. m - 1 + 1 : SubSeq(u, 1, m)[i] = u[1 + i - 1]
    BY <2>1, SubSeqProperties
  <2>3. QED
    BY <2>1, <2>2
<1>4. n \in 0 .. Len(t)
  BY <1>1
<1> DEFINE x == SubSeq(s, 1, k)
           y == SubSeq(t, 1, n)
<1>5. x \in Seq(S) /\ Len(x) = k /\ \A i \in 1 .. k : x[i] = s[i]
  BY <1>3, Zenon
<1>6. y \in Seq(S) /\ Len(y) = n /\ \A i \in 1 .. n : y[i] = t[i]
  BY <1>3, <1>4, Zenon
<1> HIDE DEF x, y
<1>7. Len(x) <= Len(y) /\ \A i \in 1 .. Len(x) : x[i] = y[i]
  <2>1. k \in Nat /\ n \in Nat /\ k <= n /\ k <= Len(s)
    BY <1>1
  <2>2. ASSUME NEW i \in 1 .. k
        PROVE  x[i] = y[i]
    <3>1. i \in 1 .. n /\ i \in 1 .. Len(s)
      BY <2>1, <1>1
    <3>2. QED
      BY <3>1, <1>2, <1>5, <1>6, Zenon
  <2>3. QED
    BY <2>1, <2>2, <1>5, <1>6, Zenon
<1>8. IsPrefix(x, y)
  BY <1>5, <1>6, <1>7, PrefixPointwise, Zenon
<1>9. QED
  BY <1>8, Zenon DEF x, y

-----------------------------------------------------------------------------
\* The initial state satisfies the invariant.
LEMMA InitIndInv == Init => IndInv
<1> SUFFICES ASSUME Init PROVE IndInv
  BY Zenon
<1> USE BoundsAssumption DEF Init, FifoInit, LogInit
<1>1. <<>> \in Seq(Value) /\ <<>> \in Seq(Record) /\ Len(<<>>) = 0
  BY EmptySeq, Zenon
<1>2. FifoTypeOK
  BY <1>1 DEF FifoTypeOK
<1>3. up \in BOOLEAN /\ garbled \in BOOLEAN /\ flushOnCommit \in BOOLEAN /\ counters \in [Counter -> Nat]
  BY Zenon
<1>4. LogTypeOK
  BY <1>1, <1>3 DEF LogTypeOK
<1>5. TypeOK
  BY <1>1, <1>2, <1>3, <1>4 DEF TypeOK
<1>6. LogInv
  <2>1. got \o queue = <<>>
    BY <1>1, ConcatEmptySeq, Zenon
  <2>2. QED
    BY <1>1, <2>1, Zenon DEF LogInv
<1>7. CountersInv
  BY <1>1 DEF CountersInv, Counter
<1>8. QED
  BY <1>5, <1>6, <1>7, Zenon DEF IndInv, AppendedIsPublished, ReplayCoversConsumed

\* What an increment does to the counters.
LEMMA CountEffect ==
  ASSUME TypeOK, NEW c \in Counter, Count(c)
  PROVE  /\ counters' \in [Counter -> Nat]
         /\ \A d \in Counter : counters'[d] = IF d = c THEN counters[d] + 1 ELSE counters[d]
BY DEF TypeOK, Count

\* The counters the invariant speaks of.
LEMMA Counted ==
  /\ "wal_records_written" \in Counter /\ "published" \in Counter /\ "consumed" \in Counter
  /\ "publish_failed_invalid" \in Counter /\ "publish_failed_full" \in Counter
  /\ "wal_failures" \in Counter /\ "wal_flushes" \in Counter
  /\ "consume_failed_invalid" \in Counter /\ "consume_failed_empty" \in Counter
BY Zenon DEF Counter

\* A step that counts a failure or nothing leaves those three alone.
LEMMA FailureCounted ==
  ASSUME TypeOK, NEW c \in Counter \ {"wal_records_written", "published", "consumed"},
         Count(c) \/ counters' = counters
  PROVE  /\ counters' \in [Counter -> Nat]
         /\ counters'["wal_records_written"] = counters["wal_records_written"]
         /\ counters'["published"] = counters["published"]
         /\ counters'["consumed"] = counters["consumed"]
<1>1. CASE Count(c)
  BY <1>1, CountEffect, Counted, Zenon
<1>2. CASE counters' = counters
  BY <1>2, Zenon DEF TypeOK
<1>3. QED
  BY <1>1, <1>2, Zenon

(***************************************************************************)
(* One lemma per action: it preserves the invariant.                       *)
(***************************************************************************)
LEMMA PublishInvalidInv == IndInv /\ PublishInvalid => IndInv'
<1> SUFFICES ASSUME IndInv, PublishInvalid PROVE IndInv'
  BY Zenon
<1> USE BoundsAssumption DEF PublishInvalid, ProducerCalls, fifoVars, logVars, openVars
<1>1. /\ counters' \in [Counter -> Nat]
      /\ \A d \in Counter :
           counters'[d] = IF d = "publish_failed_invalid" THEN counters[d] + 1 ELSE counters[d]
  BY CountEffect, Counted, Zenon DEF IndInv
<1>2. TypeOK'
  BY <1>1 DEF IndInv, TypeOK, FifoTypeOK, LogTypeOK
<1>3. LogInv'
  BY Zenon DEF IndInv, LogInv
<1>4. CountersInv'
  BY <1>1, Counted, Zenon DEF IndInv, CountersInv
<1>5. QED
  BY <1>2, <1>3, <1>4, Zenon DEF IndInv, AppendedIsPublished, ReplayCoversConsumed

\* The place full() saw free.
LEMMA CheckFullInv == \A v \in Value : IndInv /\ CheckFull(v) => IndInv'
<1>1. SUFFICES ASSUME NEW v \in Value, IndInv, CheckFull(v) PROVE IndInv'
  BY Zenon
<1>2. /\ UNCHANGED <<queue, pending, out, acked, stored, synced, tried, garbled, up, flushOnCommit,
                     openStatus, cpc, got, ended>>
      /\ ended = "no" /\ ppc = "idle" /\ calls < MaxCalls /\ calls' = calls + 1
      /\ hidden' \in 0 .. hidden
  BY <1>1, Zenon DEF CheckFull, ProducerCalls, ProducerObserve, logVars, openVars
<1>3. /\ Count("publish_failed_full") \/ counters' = counters
      /\ \/ status' = "full" /\ ppc' = "idle" /\ value' = value
         \/ /\ Len(queue) + hidden' < Capacity
            /\ ppc' = "append" /\ value' = v /\ status' = status
  BY <1>1, <1>2, Zenon DEF CheckFull
<1>4. TypeOK /\ LogInv /\ CountersInv /\ AppendedIsPublished /\ ReplayCoversConsumed
  BY <1>1, Zenon DEF IndInv
<1>5. /\ counters' \in [Counter -> Nat]
      /\ counters'["wal_records_written"] = counters["wal_records_written"]
      /\ counters'["published"] = counters["published"]
      /\ counters'["consumed"] = counters["consumed"]
  <2>1. "publish_failed_full" \in Counter \ {"wal_records_written", "published", "consumed"}
    BY Zenon DEF Counter
  <2>2. QED
    BY <1>3, <1>4, <2>1, FailureCounted, Zenon
<1>6. TypeOK'
  <2>1. FifoTypeOK'
    BY <1>2, <1>4, BoundsAssumption DEF TypeOK, FifoTypeOK
  <2>2. LogTypeOK' /\ calls' \in 0 .. MaxCalls
    BY <1>2, <1>4, BoundsAssumption DEF TypeOK, LogTypeOK
  <2>3. /\ ppc' \in {"idle", "append", "copy", "flush", "push", "count"}
        /\ value' \in Value \cup {NoValue}
        /\ status' \in {"ok", "invalid", "full", "out_of_space", "io_error", "unknown"}
    BY <1>1, <1>3, <1>4, Zenon DEF TypeOK
  <2>4. QED
    BY <1>2, <1>4, <1>5, <2>1, <2>2, <2>3, Zenon DEF TypeOK
<1>7. LogInv'
  BY <1>1, <1>2, <1>3, <1>4, Zenon DEF LogInv
<1>8. CountersInv'
  BY <1>2, <1>3, <1>4, <1>5, Zenon DEF CountersInv
<1>9. QED
  BY <1>2, <1>3, <1>4, <1>6, <1>7, <1>8, Zenon
     DEF IndInv, AppendedIsPublished, ReplayCoversConsumed

\* An append the file has no room for.
LEMMA AppendNoSpaceInv == IndInv /\ AppendNoSpace => IndInv'
<1> SUFFICES ASSUME IndInv, AppendNoSpace PROVE IndInv'
  BY Zenon
<1> USE BoundsAssumption DEF AppendNoSpace, Fails, fifoVars, logVars, openVars
<1>1. /\ counters' \in [Counter -> Nat]
      /\ \A d \in Counter :
           counters'[d] = IF d = "wal_failures" THEN counters[d] + 1 ELSE counters[d]
  BY CountEffect, Counted, Zenon DEF IndInv
<1>2. TypeOK'
  BY <1>1, Zenon DEF IndInv, TypeOK, FifoTypeOK, LogTypeOK
<1>3. LogInv'
  BY Zenon DEF IndInv, LogInv
<1>4. CountersInv'
  BY <1>1, Counted, Zenon DEF IndInv, CountersInv
<1>5. QED
  BY <1>2, <1>3, <1>4, Zenon DEF IndInv, AppendedIsPublished, ReplayCoversConsumed

\* The start of an append.
LEMMA AppendStartInv == IndInv /\ AppendStart => IndInv'
<1> SUFFICES ASSUME IndInv, AppendStart PROVE IndInv'
  BY Zenon
<1> USE BoundsAssumption DEF AppendStart, Try, fifoVars, openVars
<1>1. counters' = counters
  BY Zenon
<1>2. TypeOK'
  BY <1>1, RecordAssumption, Zenon DEF IndInv, TypeOK, FifoTypeOK, LogTypeOK, LogInv
<1>3. LogInv'
  BY Zenon DEF IndInv, LogInv
<1>4. CountersInv'
  BY <1>1, Counted, Zenon DEF IndInv, CountersInv
<1>5. QED
  BY <1>2, <1>3, <1>4, Zenon DEF IndInv, AppendedIsPublished, ReplayCoversConsumed

\* The event is in the queue; the counter follows.
LEMMA CountPublishedInv == IndInv /\ CountPublished => IndInv'
<1> SUFFICES ASSUME IndInv, CountPublished PROVE IndInv'
  BY Zenon
<1> USE BoundsAssumption DEF CountPublished, fifoVars, logVars, openVars
<1>1. /\ counters' \in [Counter -> Nat]
      /\ \A d \in Counter :
           counters'[d] = IF d = "published" THEN counters[d] + 1 ELSE counters[d]
  BY CountEffect, Counted, Zenon DEF IndInv
<1>2. TypeOK'
  BY <1>1, Zenon DEF IndInv, TypeOK, FifoTypeOK, LogTypeOK
<1>3. LogInv'
  BY Zenon DEF IndInv, LogInv
<1>4. CountersInv'
  <2>1. /\ counters'["published"] = counters["published"] + 1
        /\ counters'["wal_records_written"] = counters["wal_records_written"]
        /\ counters'["consumed"] = counters["consumed"]
    BY <1>1, Counted, Zenon
  <2>2. Len(acked) \in Nat /\ ppc = "count" /\ ppc' = "idle"
    BY DEF IndInv, TypeOK, LogTypeOK
  <2>3. CountersInv /\ UNCHANGED <<acked, got, cpc, ended>>
    BY Zenon DEF IndInv
  <2> HIDE DEF CountPublished
  <2>4. QED
    BY <2>1, <2>2, <2>3 DEF CountersInv
<1>5. QED
  BY <1>2, <1>3, <1>4, Zenon DEF IndInv, AppendedIsPublished, ReplayCoversConsumed

\* A try_consume of a broker that is not open.
LEMMA ConsumeInvalidInv == IndInv /\ ConsumeInvalid => IndInv'
<1> SUFFICES ASSUME IndInv, ConsumeInvalid PROVE IndInv'
  BY Zenon
<1> USE BoundsAssumption DEF ConsumeInvalid, fifoVars, logVars, openVars, producerVars
<1>1. /\ counters' \in [Counter -> Nat]
      /\ \A d \in Counter :
           counters'[d] = IF d = "consume_failed_invalid" THEN counters[d] + 1 ELSE counters[d]
  BY CountEffect, Counted, Zenon DEF IndInv
<1>2. TypeOK'
  BY <1>1 DEF IndInv, TypeOK, FifoTypeOK, LogTypeOK
<1>3. LogInv'
  BY Zenon DEF IndInv, LogInv
<1>4. CountersInv'
  BY <1>1, Counted, Zenon DEF IndInv, CountersInv
<1>5. QED
  BY <1>2, <1>3, <1>4, Zenon DEF IndInv, AppendedIsPublished, ReplayCoversConsumed

\* The event was taken; the counter follows.
LEMMA CountConsumedInv == IndInv /\ CountConsumed => IndInv'
<1> SUFFICES ASSUME IndInv, CountConsumed PROVE IndInv'
  BY Zenon
<1> USE BoundsAssumption DEF CountConsumed, fifoVars, logVars, openVars, producerVars
<1>1. /\ counters' \in [Counter -> Nat]
      /\ \A d \in Counter :
           counters'[d] = IF d = "consumed" THEN counters[d] + 1 ELSE counters[d]
  BY CountEffect, Counted, Zenon DEF IndInv
<1>2. TypeOK'
  BY <1>1 DEF IndInv, TypeOK, FifoTypeOK, LogTypeOK
<1>3. LogInv'
  BY Zenon DEF IndInv, LogInv
<1>4. CountersInv'
  <2>1. /\ counters'["consumed"] = counters["consumed"] + 1
        /\ counters'["wal_records_written"] = counters["wal_records_written"]
        /\ counters'["published"] = counters["published"]
    BY <1>1, Counted, Zenon
  <2>2. Len(got) \in Nat /\ cpc = "count" /\ cpc' = "idle"
    BY DEF IndInv, TypeOK
  <2>3. CountersInv /\ UNCHANGED <<acked, got, ppc, ended>>
    BY Zenon DEF IndInv
  <2> HIDE DEF CountConsumed
  <2>4. QED
    BY <2>1, <2>2, <2>3 DEF CountersInv
<1>5. QED
  BY <1>2, <1>3, <1>4, Zenon DEF IndInv, AppendedIsPublished, ReplayCoversConsumed

\* The record is complete in the file and not yet acknowledged.
LEMMA AppendCopiedInv == IndInv /\ AppendCopied => IndInv'
<1> SUFFICES ASSUME IndInv, AppendCopied PROVE IndInv'
  BY Zenon
<1> USE BoundsAssumption DEF AppendCopied, fifoVars, openVars
<1>1. ended = "no" /\ value \in Value /\ acked \in Seq(Value)
  BY RecordAssumption, Zenon DEF IndInv, TypeOK, LogTypeOK, LogInv
<1>2. stored' \in Seq(Value)
  BY <1>1, AppendProperties, Zenon
<1>3. TypeOK'
  BY <1>2, RecordAssumption DEF IndInv, TypeOK, FifoTypeOK, LogTypeOK
<1>4. LogInv'
  BY <1>1, Zenon DEF IndInv, LogInv
<1>5. CountersInv'
  BY Zenon DEF IndInv, CountersInv
<1>6. QED
  BY <1>3, <1>4, <1>5, Zenon DEF IndInv, AppendedIsPublished, ReplayCoversConsumed

\* The record is acknowledged, and flushed before if flush_on_commit.
LEMMA AppendOkInv == IndInv /\ AppendOk => IndInv'
<1> SUFFICES ASSUME IndInv, AppendOk PROVE IndInv'
  BY Zenon
<1> USE BoundsAssumption DEF AppendOk, Acknowledge, fifoVars, openVars
<1>1. /\ ended = "no" /\ value \in Value /\ acked \in Seq(Value)
      /\ stored = Append(acked, value) /\ acked = got \o queue
  BY RecordAssumption, Zenon DEF IndInv, TypeOK, LogTypeOK, LogInv
<1>2. /\ acked' \in Seq(Value) /\ stored' = acked'
      /\ Len(acked') = Len(acked) + 1 /\ Len(acked) \in Nat
  BY <1>1, AppendProperties, LenProperties, Zenon
<1>3. /\ counters' \in [Counter -> Nat]
      /\ \A d \in Counter :
           counters'[d] = IF d = "wal_records_written" THEN counters[d] + 1 ELSE counters[d]
  BY CountEffect, Counted, Zenon DEF IndInv
<1>4. TypeOK'
  <2>1. synced' \in 0 .. Len(acked')
    BY <1>2 DEF IndInv, TypeOK, LogTypeOK
  <2>2. QED
    BY <1>2, <1>3, <2>1, RecordAssumption, Zenon DEF IndInv, TypeOK, FifoTypeOK, LogTypeOK
<1>5. LogInv'
  BY <1>1, <1>2, Zenon DEF IndInv, LogInv
<1>6. CountersInv'
  <2>1. /\ counters["wal_records_written"] = Len(acked) /\ counters["published"] = Len(acked)
        /\ counters["consumed"] = Len(got) - (IF cpc = "count" THEN 1 ELSE 0)
    BY <1>1, <1>2 DEF IndInv, CountersInv
  <2>2. UNCHANGED <<got, cpc, ended>> /\ ppc' = "push"
    BY Zenon
  <2> HIDE DEF AppendOk, Acknowledge
  <2>3. counters'["wal_records_written"] = Len(acked')
    BY <2>1, <1>2, <1>3, Counted, Zenon
  <2>4. counters'["published"] = Len(acked') - 1
    <3>1. counters'["published"] = Len(acked)
      BY <2>1, <1>3, Counted, Zenon
    <3>2. QED
      BY <1>2, <3>1
  <2>5. counters'["consumed"] = counters["consumed"]
    BY <1>3, Counted, Zenon
  <2>6. QED
    BY <2>1, <2>2, <2>3, <2>4, <2>5, Zenon DEF CountersInv
<1>7. QED
  BY <1>4, <1>5, <1>6, Zenon DEF IndInv, AppendedIsPublished, ReplayCoversConsumed

\* The flush of an append fails: the record stays in the file, unacknowledged.
LEMMA AppendFlushFailsInv == IndInv /\ AppendFlushFails => IndInv'
<1> SUFFICES ASSUME IndInv, AppendFlushFails PROVE IndInv'
  BY Zenon
<1> USE BoundsAssumption DEF AppendFlushFails, Fails, fifoVars, logVars, openVars
<1>1. /\ counters' \in [Counter -> Nat]
      /\ \A d \in Counter :
           counters'[d] = IF d = "wal_failures" THEN counters[d] + 1 ELSE counters[d]
  BY CountEffect, Counted, Zenon DEF IndInv
<1>2. TypeOK'
  BY <1>1, Zenon DEF IndInv, TypeOK, FifoTypeOK, LogTypeOK
<1>3. LogInv'
  BY Zenon DEF IndInv, LogInv
<1>4. CountersInv'
  BY <1>1, Counted, Zenon DEF IndInv, CountersInv
<1>5. QED
  BY <1>2, <1>3, <1>4, Zenon DEF IndInv, AppendedIsPublished, ReplayCoversConsumed

\* There is a place: the branch for a full queue is not taken.
LEMMA PushValueInv == IndInv /\ PushValue => IndInv'
<1> SUFFICES ASSUME IndInv, PushValue PROVE IndInv'
  BY Zenon
<1> USE BoundsAssumption DEF PushValue, logVars, openVars
<1>1. /\ ended = "no" /\ value \in Value /\ queue \in Seq(Value) /\ got \in Seq(Value)
      /\ acked = Append(got \o queue, value) /\ Len(queue) + hidden < Capacity
  BY Zenon DEF IndInv, TypeOK, FifoTypeOK, LogInv
<1>2. Len(queue) \in Nat /\ hidden \in Nat /\ pending \in 0 .. Len(queue)
  BY <1>1, LenProperties, Zenon DEF IndInv, TypeOK, FifoTypeOK
<1>3. PICK h \in 0 .. hidden :
        /\ hidden' = h
        /\ IF Len(queue) + h >= Capacity
             THEN Fails("unknown") /\ UNCHANGED <<queue, pending>>
             ELSE /\ queue' = Append(queue, value) /\ pending' = pending + 1
                  /\ ppc' = "count"
                  /\ UNCHANGED <<value, status, counters>>
  BY Zenon
<1>4. ~(Len(queue) + h >= Capacity)
  BY <1>1, <1>2, <1>3
<1>5. /\ hidden' = h /\ h \in Nat /\ Len(queue) + h < Capacity
      /\ queue' = Append(queue, value) /\ pending' = pending + 1 /\ ppc' = "count"
      /\ UNCHANGED <<value, status, counters, out, logVars, openVars, cpc, got, calls, ended>>
  BY <1>1, <1>2, <1>3, <1>4
<1> HIDE DEF PushValue
<1>6. queue' \in Seq(Value) /\ Len(queue') = Len(queue) + 1
  BY <1>1, <1>5, AppendProperties, Zenon
<1>7. TypeOK'
  <2>1. FifoTypeOK'
    BY <1>2, <1>5, <1>6 DEF IndInv, TypeOK, FifoTypeOK
  <2>2. QED
    BY <2>1, <1>5, Zenon DEF IndInv, TypeOK, LogTypeOK
<1>8. LogInv'
  <2>1. got \o Append(queue, value) = Append(got \o queue, value)
    BY <1>1, ConcatAppend
  <2>2. acked' = got' \o queue'
    BY <2>1, <1>1, <1>5, Zenon
  <2>3. QED
    BY <2>2, <1>1, <1>5, Zenon DEF IndInv, LogInv
<1>9. CountersInv'
  <2>1. /\ UNCHANGED <<acked, got, cpc, ended, counters>>
        /\ ppc = "push" /\ ppc' = "count"
    BY <1>5, Zenon DEF PushValue
  <2>2. QED
    BY <2>1, Zenon DEF IndInv, CountersInv
<1>10. QED
  BY <1>1, <1>5, <1>7, <1>8, <1>9, Zenon DEF IndInv, AppendedIsPublished, ReplayCoversConsumed

\* flush, which succeeds or fails.
LEMMA FlushLogInv == IndInv /\ FlushLog => IndInv'
<1> SUFFICES ASSUME IndInv, FlushLog PROVE IndInv'
  BY Zenon
<1> USE BoundsAssumption DEF FlushLog, ProducerCalls, fifoVars, logVars, openVars, producerVars
<1>1. /\ counters' \in [Counter -> Nat]
      /\ \A d \in {"wal_records_written", "published", "consumed"} : counters'[d] = counters[d]
  BY CountEffect, Counted, Zenon DEF IndInv
<1>2. /\ UNCHANGED <<acked, stored, tried, garbled, up>>
      /\ synced' \in {synced, Len(acked)}
  BY Zenon DEF Sync
<1>3. Len(acked) \in Nat
  BY LenProperties, Zenon DEF IndInv, TypeOK, LogTypeOK
<1>4. TypeOK'
  BY <1>1, <1>2, <1>3 DEF IndInv, TypeOK, FifoTypeOK, LogTypeOK
<1>5. LogInv'
  BY <1>2, Zenon DEF IndInv, LogInv
<1>6. CountersInv'
  BY <1>1, <1>2, Zenon DEF IndInv, CountersInv
<1>7. QED
  BY <1>4, <1>5, <1>6, Zenon DEF IndInv, AppendedIsPublished, ReplayCoversConsumed

\* The consumer's test for an empty queue.
LEMMA CheckEmptyInv == IndInv /\ CheckEmpty => IndInv'
<1>1. SUFFICES ASSUME IndInv, CheckEmpty PROVE IndInv'
  BY Zenon
<1>2. /\ UNCHANGED <<queue, hidden, out, acked, stored, synced, tried, garbled, up, flushOnCommit,
                     openStatus, ppc, value, status, got, calls, ended>>
      /\ ended = "no" /\ cpc = "idle" /\ pending' \in 0 .. pending
  BY <1>1, Zenon DEF CheckEmpty, ConsumerObserve, logVars, openVars, producerVars
<1>3. /\ Count("consume_failed_empty") \/ counters' = counters
      /\ cpc' \in {"idle", "pop"}
  BY <1>1, <1>2, Zenon DEF CheckEmpty
<1>4. TypeOK /\ LogInv /\ CountersInv /\ AppendedIsPublished /\ ReplayCoversConsumed
  BY <1>1, Zenon DEF IndInv
<1>5. /\ counters' \in [Counter -> Nat]
      /\ counters'["wal_records_written"] = counters["wal_records_written"]
      /\ counters'["published"] = counters["published"]
      /\ counters'["consumed"] = counters["consumed"]
  <2>1. "consume_failed_empty" \in Counter \ {"wal_records_written", "published", "consumed"}
    BY Zenon DEF Counter
  <2>2. QED
    BY <1>3, <1>4, <2>1, FailureCounted, Zenon
<1>6. TypeOK'
  <2>1. FifoTypeOK'
    BY <1>2, <1>4, BoundsAssumption DEF TypeOK, FifoTypeOK
  <2>2. LogTypeOK'
    BY <1>2, <1>4, Zenon DEF TypeOK, LogTypeOK
  <2>3. QED
    BY <1>2, <1>3, <1>4, <1>5, <2>1, <2>2, Zenon DEF TypeOK
<1>7. LogInv'
  BY <1>2, <1>4, Zenon DEF LogInv
<1>8. CountersInv'
  BY <1>2, <1>3, <1>4, <1>5, Zenon DEF CountersInv
<1>9. QED
  BY <1>2, <1>3, <1>4, <1>6, <1>7, <1>8, Zenon
     DEF IndInv, AppendedIsPublished, ReplayCoversConsumed

\* A value moves from the queue to the values consumed.
LEMMA PopValueInv == IndInv /\ PopValue => IndInv'
<1> SUFFICES ASSUME IndInv, PopValue PROVE IndInv'
  BY Zenon
<1> USE BoundsAssumption DEF PopValue, Pop, logVars, openVars, producerVars
<1>1. /\ ended = "no" /\ queue \in Seq(Value) /\ got \in Seq(Value)
      /\ hidden \in Nat /\ pending \in Nat /\ Len(queue) + hidden <= Capacity
  BY DEF IndInv, TypeOK, FifoTypeOK
<1>2. queue # <<>> /\ Len(queue) \in Nat
  BY <1>1, LenProperties, EmptySeq
<1>3. /\ out' \in Value /\ queue' \in Seq(Value) /\ Len(queue') = Len(queue) - 1
  BY <1>1, <1>2, HeadTailProperties, Zenon
<1>4. got' \in Seq(Value) /\ Len(got') = Len(got) + 1 /\ Len(got) \in Nat
  BY <1>1, <1>3, AppendProperties, LenProperties, Zenon
<1>5. got' \o queue' = got \o queue
  BY <1>1, <1>2, ConcatHeadTail, Zenon
<1>6. TypeOK'
  <2>1. FifoTypeOK'
    BY <1>1, <1>2, <1>3 DEF FifoTypeOK
  <2>2. QED
    BY <2>1, <1>4, Zenon DEF IndInv, TypeOK, LogTypeOK
<1>7. LogInv'
  <2>1. Len(queue') + hidden' = Len(queue) + hidden
    BY <1>1, <1>2, <1>3
  <2>2. QED
    BY <1>5, <2>1, Zenon DEF IndInv, LogInv
<1>8. CountersInv'
  BY <1>1, <1>4 DEF IndInv, CountersInv
<1>9. QED
  BY <1>1, <1>6, <1>7, <1>8, Zenon DEF IndInv, AppendedIsPublished, ReplayCoversConsumed

\* A new log is opened only when there was none, so that nothing went through.
LEMMA OpenInv == IndInv /\ Open => IndInv'
<1> SUFFICES ASSUME IndInv, Open PROVE IndInv'
  BY Zenon
<1> USE BoundsAssumption DEF Open, ProducerCalls, fifoVars, producerVars
<1>1. ended = "no" /\ ended' = "no" /\ ppc = "idle"
  BY Zenon
<1>2. CASE UNCHANGED <<logVars, flushOnCommit>> /\ openStatus' \in {"already_open", "error"}
  <2>1. TypeOK'
    BY <1>2 DEF IndInv, TypeOK, FifoTypeOK, LogTypeOK, logVars
  <2>2. LogInv' /\ CountersInv'
    BY <1>2, Zenon DEF IndInv, LogInv, CountersInv, logVars
  <2>3. QED
    BY <1>1, <2>1, <2>2, Zenon DEF IndInv, AppendedIsPublished, ReplayCoversConsumed
<1>3. CASE /\ New /\ openStatus' = (IF up' THEN "ok" ELSE "error")
           /\ flushOnCommit' \in (IF up' THEN BOOLEAN ELSE {flushOnCommit})
  <2>1. acked = <<>> /\ acked' = <<>> /\ stored' = <<>> /\ synced' = 0 /\ tried' = {}
    BY <1>1, <1>3, Zenon DEF New, IndInv, LogInv
  <2>2. /\ up' \in BOOLEAN /\ garbled' \in BOOLEAN /\ flushOnCommit' \in BOOLEAN
        /\ openStatus' \in {"ok", "error"}
    BY <1>3, Zenon DEF New, IndInv, TypeOK
  <2>3. <<>> \in Seq(Record) /\ Len(<<>>) = 0
    BY EmptySeq, Zenon
  <2>4. LogTypeOK'
    BY <2>1, <2>2, <2>3 DEF LogTypeOK
  <2>5. TypeOK'
    <3>1. FifoTypeOK'
      BY Zenon DEF IndInv, TypeOK, FifoTypeOK
    <3>2. calls' \in 0 .. MaxCalls
      BY DEF IndInv, TypeOK
    <3>3. QED
      BY <2>2, <2>4, <3>1, <3>2, Zenon DEF IndInv, TypeOK
  <2>6. LogInv'
    BY <1>1, <2>1, <2>3, Zenon DEF IndInv, LogInv
  <2>7. CountersInv'
    BY <2>1, Zenon DEF IndInv, CountersInv
  <2>8. QED
    BY <1>1, <2>5, <2>6, <2>7, Zenon DEF IndInv, AppendedIsPublished, ReplayCoversConsumed
<1>4. QED
  BY <1>2, <1>3, Zenon

(***************************************************************************)
(* The end of the process.  What the consumer got begins the log, and so   *)
(* begins whatever of the log the end left in the file.                    *)
(***************************************************************************)
LEMMA ConsumedIsPrefix ==
  ASSUME IndInv, ended = "no"
  PROVE  /\ got \in Seq(Value) /\ acked \in Seq(Value) /\ stored \in Seq(Value)
         /\ Len(got) \in Nat /\ Len(acked) \in Nat
         /\ IsPrefix(got, acked) /\ IsPrefix(got, stored)
<1>1. /\ got \in Seq(Value) /\ queue \in Seq(Value)
      /\ acked \in Seq(Value) /\ stored \in Seq(Value)
  BY RecordAssumption, Zenon DEF IndInv, TypeOK, FifoTypeOK, LogTypeOK
<1>2. Len(got) \in Nat /\ Len(acked) \in Nat
  BY <1>1, LenProperties, Zenon
<1> DEFINE through == got \o queue
<1>3. through \in Seq(Value) /\ IsPrefix(got, through)
  BY <1>1, ConcatProperties, PrefixOfConcat, Zenon
<1>4. /\ acked = through \/ (value \in Value /\ acked = Append(through, value))
      /\ stored = acked \/ \E r \in Value : stored = Append(acked, r)
  BY Zenon DEF IndInv, LogInv
<1> HIDE DEF through
<1>5. IsPrefix(got, acked)
  BY <1>1, <1>3, <1>4, PrefixOfAppend, Zenon
<1>6. IsPrefix(got, stored)
  BY <1>1, <1>4, <1>5, PrefixOfAppend, Zenon
<1>7. QED
  BY <1>1, <1>2, <1>5, <1>6, Zenon

\* An end whose file still begins with what it must keep.
LEMMA EndsInv ==
  ASSUME IndInv, NEW how \in {"closed", "killed", "power"}, Ends(how),
         up' = FALSE, UNCHANGED <<acked, synced, tried, garbled>>, stored' \in Seq(Value),
         ReplayCoversConsumed'
  PROVE  IndInv'
<1> USE BoundsAssumption DEF Ends, openVars
<1>1. ended' # "no" /\ ppc' = "idle" /\ cpc' = "idle" /\ value' = NoValue
  BY Zenon
<1>2. up' \in BOOLEAN
  BY Zenon
<1>3. FifoTypeOK'
  <2>1. <<>> \in Seq(Value) /\ Len(<<>>) = 0
    BY EmptySeq, Zenon
  <2>2. QED
    BY <2>1 DEF Drop, IndInv, TypeOK, FifoTypeOK
<1>4. LogTypeOK'
  BY <1>2, RecordAssumption, Zenon DEF IndInv, TypeOK, LogTypeOK
<1>5. TypeOK'
  BY <1>1, <1>3, <1>4, Zenon DEF IndInv, TypeOK
<1>6. QED
  BY <1>1, <1>5, Zenon DEF IndInv, LogInv, CountersInv, AppendedIsPublished

\* The destructor closes the log.
LEMMA DestructorInv == IndInv /\ Destructor => IndInv'
<1> SUFFICES ASSUME IndInv, Destructor PROVE IndInv'
  BY Zenon
<1>1. /\ Ends("closed") /\ up' = FALSE /\ UNCHANGED <<acked, stored, synced, tried, garbled>>
      /\ ended = "no" /\ ended' = "closed" /\ got' = got
  BY Zenon DEF Destructor, Ends
<1>2. stored \in Seq(Value) /\ IsPrefix(got, stored)
  BY <1>1, ConsumedIsPrefix, Zenon
<1>3. ReplayCoversConsumed'
  BY <1>1, <1>2, Zenon DEF ReplayCoversConsumed
<1>4. QED
  BY <1>1, <1>2, <1>3, EndsInv, Zenon

\* The process is killed: the file is as it was, or without the record in progress.
LEMMA KilledInv == IndInv /\ Killed => IndInv'
<1> SUFFICES ASSUME IndInv, Killed PROVE IndInv'
  BY Zenon
<1>1. /\ Ends("killed") /\ up' = FALSE /\ UNCHANGED <<acked, synced, tried, garbled>>
      /\ ended = "no" /\ ended' = "killed" /\ got' = got
      /\ stored' = stored \/ stored' = acked
  BY Zenon DEF Killed, Ends
<1>2. /\ stored \in Seq(Value) /\ acked \in Seq(Value)
      /\ IsPrefix(got, stored) /\ IsPrefix(got, acked)
  BY <1>1, ConsumedIsPrefix, Zenon
<1>3. ReplayCoversConsumed'
  BY <1>1, <1>2, Zenon DEF ReplayCoversConsumed
<1>4. QED
  BY <1>1, <1>2, <1>3, EndsInv, Zenon

\* A power loss keeps at least what was flushed: all of the log with
\* flush_on_commit, and otherwise the part of it the last flush covered.
LEMMA PowerLossInv == IndInv /\ PowerLoss => IndInv'
<1> SUFFICES ASSUME IndInv, PowerLoss PROVE IndInv'
  BY Zenon
<1>1. /\ Ends("power") /\ up' = FALSE /\ UNCHANGED <<acked, synced, tried, garbled>>
      /\ ended = "no" /\ ended' = "power" /\ got' = got /\ flushOnCommit' = flushOnCommit
  BY Zenon DEF PowerLoss, Ends, Stop, openVars
<1>2. /\ got \in Seq(Value) /\ acked \in Seq(Value)
      /\ Len(got) \in Nat /\ Len(acked) \in Nat /\ IsPrefix(got, acked)
  BY <1>1, ConsumedIsPrefix, Zenon
<1>3. /\ synced \in 0 .. Len(acked) /\ tried \in SUBSET Value
      /\ flushOnCommit => synced = Len(acked)
  BY <1>1, RecordAssumption, Zenon DEF IndInv, TypeOK, LogTypeOK, LogInv
<1>4. Len(got) <= Len(acked)
  BY <1>2, PrefixPointwise, Zenon
<1> DEFINE k == IF synced < Len(got) THEN synced ELSE Len(got)
           kept == SubSeq(got, 1, k)
<1>5. k \in 0 .. Len(got) /\ k <= synced
  BY <1>2, <1>3
<1>6. SubSeq(got, 1, Len(got)) = got /\ SubSeq(acked, 1, Len(acked)) = acked
  BY <1>2, SubSeqFull, Zenon
<1>7. kept \in Seq(Value) /\ IsPrefix(kept, acked)
  <2>1. k \in 0 .. Len(acked) /\ Len(acked) \in k .. Len(acked)
    BY <1>2, <1>4, <1>5
  <2>2. IsPrefix(kept, SubSeq(acked, 1, Len(acked)))
    BY <1>2, <1>5, <2>1, PrefixOfCut, Zenon
  <2>3. kept \in Seq(Value)
    BY <1>2, <1>5, SubSeqProperties
  <2>4. QED
    BY <1>6, <2>2, <2>3, Zenon
<1>8. CASE \E n \in synced .. Len(acked) : stored' = SubSeq(acked, 1, n)
  <2>1. PICK n \in synced .. Len(acked) : stored' = SubSeq(acked, 1, n)
    BY <1>8, Zenon
  <2>2. n \in k .. Len(acked) /\ n \in 0 .. Len(acked)
    BY <1>2, <1>3, <1>5
  <2>3. stored' \in Seq(Value)
    BY <1>2, <2>1, <2>2, SubSeqProperties
  <2>4. IsPrefix(kept, stored')
    BY <1>2, <1>5, <2>1, <2>2, PrefixOfCut, Zenon
  <2>5. ASSUME flushOnCommit PROVE IsPrefix(got, stored')
    <3>1. n = Len(acked)
      BY <1>2, <1>3, <2>5
    <3>2. stored' = acked
      BY <1>6, <2>1, <3>1, Zenon
    <3>3. QED
      BY <1>2, <3>2, Zenon
  <2>6. ReplayCoversConsumed'
    BY <1>1, <2>4, <2>5, Zenon DEF ReplayCoversConsumed
  <2>7. QED
    BY <1>1, <2>3, <2>6, EndsInv, Zenon
<1>9. CASE \E r \in tried : stored' = Append(acked, r)
  <2>1. PICK r \in Value : stored' = Append(acked, r)
    BY <1>3, <1>9, Zenon
  <2>2. stored' \in Seq(Value)
    BY <1>2, <2>1, AppendProperties, Zenon
  <2> HIDE DEF kept
  <2>3. IsPrefix(kept, stored') /\ IsPrefix(got, stored')
    BY <1>2, <1>7, <2>1, PrefixOfAppend, Zenon
  <2> USE DEF kept
  <2>4. ReplayCoversConsumed'
    BY <1>1, <2>3, Zenon DEF ReplayCoversConsumed
  <2>5. QED
    BY <1>1, <2>2, <2>4, EndsInv, Zenon
<1>10. QED
  BY <1>8, <1>9, Zenon DEF PowerLoss, Stop

\* A step that changes nothing.
LEMMA StutterInv == IndInv /\ UNCHANGED vars => IndInv'
<1> SUFFICES ASSUME IndInv, UNCHANGED vars PROVE IndInv'
  BY Zenon
<1> USE DEF vars, fifoVars, logVars, openVars, producerVars
<1>1. FifoTypeOK'
  BY Zenon DEF IndInv, TypeOK, FifoTypeOK
<1>2. LogTypeOK'
  BY Zenon DEF IndInv, TypeOK, LogTypeOK
<1>3. TypeOK'
  BY <1>1, <1>2, Zenon DEF IndInv, TypeOK
<1>4. LogInv'
  BY Zenon DEF IndInv, LogInv
<1>5. CountersInv'
  BY Zenon DEF IndInv, CountersInv
<1>6. QED
  BY <1>3, <1>4, <1>5, Zenon DEF IndInv, AppendedIsPublished, ReplayCoversConsumed

\* The invariant is inductive.
LEMMA NextIndInv == IndInv /\ [Next]_vars => IndInv'
BY PublishInvalidInv, CheckFullInv, AppendNoSpaceInv, AppendStartInv, AppendCopiedInv,
   AppendOkInv, AppendFlushFailsInv, PushValueInv, CountPublishedInv, FlushLogInv,
   ConsumeInvalidInv, CheckEmptyInv, PopValueInv, CountConsumedInv, OpenInv,
   DestructorInv, KilledInv, PowerLossInv, StutterInv, Zenon
   DEF Next, Producer, Consumer, Ended

-----------------------------------------------------------------------------
(***************************************************************************)
(* Every reachable state of the broker satisfies the inductive invariant,  *)
(* at every step of try_publish and try_consume.                           *)
(***************************************************************************)
THEOREM Invariance == Spec => []IndInv
BY InitIndInv, NextIndInv, PTL DEF Spec

(***************************************************************************)
(* try_publish never logs a record it then fails to queue: the branch      *)
(* after a successful append_to_wal in which broker_.try_publish refuses   *)
(* is dead.                                                                *)
(***************************************************************************)
THEOREM NoOrphanRecord == Spec => []AppendedIsPublished
<1>1. IndInv => AppendedIsPublished
  BY Zenon DEF IndInv
<1>2. QED
  BY <1>1, Invariance, PTL

(***************************************************************************)
(* WAL before queue: what went through the queue begins the log, in the    *)
(* same order, and is flushed when flush_on_commit is set.                 *)
(***************************************************************************)
THEOREM LogFirst == Spec => []WalBeforeQueue
<1>1. IndInv => WalBeforeQueue
  <2> SUFFICES ASSUME IndInv, ended = "no" PROVE WalBeforeQueue
    BY Zenon DEF WalBeforeQueue
  <2> DEFINE through == got \o queue
  <2>1. got \in Seq(Value) /\ queue \in Seq(Value) /\ acked \in Seq(Value)
    BY RecordAssumption, Zenon DEF IndInv, TypeOK, FifoTypeOK, LogTypeOK
  <2>2. through \in Seq(Value) /\ Len(through) \in Nat
    BY <2>1, ConcatProperties, LenProperties, Zenon
  <2>3. /\ acked = IF ppc = "push" THEN Append(through, value) ELSE through
        /\ ppc = "push" => value \in Value
        /\ flushOnCommit => synced = Len(acked)
    BY Zenon DEF IndInv, LogInv
  <2> HIDE DEF through
  <2>4. IsPrefix(through, through)
    BY <2>2, PrefixPointwise
  <2>5. IsPrefix(through, acked)
    BY <2>2, <2>3, <2>4, PrefixOfAppend, Zenon
  <2>6. Len(through) <= Len(acked) /\ (ppc # "push" => Len(through) = Len(acked))
    BY <2>2, <2>3, AppendProperties
  <2>7. QED
    BY <2>3, <2>5, <2>6, Zenon DEF WalBeforeQueue, through
<1>2. QED
  BY <1>1, Invariance, PTL

(***************************************************************************)
(* Whatever ended the process, and at whichever step of the two calls, a   *)
(* replay of the file starts with everything try_consume ever returned,    *)
(* unless the power failed before a flush covered it.                      *)
(***************************************************************************)
THEOREM ReplayCovers == Spec => []ReplayCoversConsumed
<1>1. IndInv => ReplayCoversConsumed
  BY Zenon DEF IndInv
<1>2. QED
  BY <1>1, Invariance, PTL

(***************************************************************************)
(* The broker's counters agree with the log, the queue and each other      *)
(* between calls, and lag by at most the call in progress during one.      *)
(***************************************************************************)
THEOREM CountersCorrect == Spec => []CountersAgree
<1>1. IndInv => CountersAgree
  <2> SUFFICES ASSUME IndInv, ended = "no" PROVE CountersAgree
    BY Zenon DEF CountersAgree
  <2>1. /\ got \in Seq(Value) /\ queue \in Seq(Value)
        /\ Len(got) \in Nat /\ Len(queue) \in Nat
    BY LenProperties, Zenon DEF IndInv, TypeOK, FifoTypeOK
  <2>2. Len(got \o queue) = Len(got) + Len(queue)
    BY <2>1, ConcatProperties, Zenon
  <2>3. ppc # "push" => Len(acked) = Len(got) + Len(queue)
    BY <2>2, Zenon DEF IndInv, LogInv
  <2>4. /\ counters["wal_records_written"] = Len(acked)
        /\ counters["published"] = Len(acked) - (IF ppc \in {"push", "count"} THEN 1 ELSE 0)
        /\ counters["consumed"] = Len(got) - (IF cpc = "count" THEN 1 ELSE 0)
    BY Zenon DEF IndInv, CountersInv
  <2>5. Len(acked) \in Nat
    BY <2>1, LenProperties, Zenon DEF IndInv, TypeOK, LogTypeOK
  <2>6. QED
    BY <2>1, <2>3, <2>4, <2>5 DEF CountersAgree
<1>2. QED
  BY <1>1, Invariance, PTL

-----------------------------------------------------------------------------
\* In a broker opened twice no call does anything, until the process ends.
LEMMA StrandedStep ==
  ASSUME StrandedInv, openStatus = "already_open", ended = "no", [Next]_vars
  PROVE  \/ /\ ended' = "no" /\ openStatus' = "already_open"
            /\ UNCHANGED <<acked, stored, synced, got, queue, up, ppc, cpc>>
         \/ Destructor \/ Killed \/ PowerLoss
<1>1. up /\ ~valid /\ ppc = "idle" /\ cpc = "idle"
  BY Zenon DEF StrandedInv, valid
<1> USE DEF fifoVars, logVars, openVars, producerVars
<1>2. CASE Open
  BY <1>1, <1>2, Zenon DEF Open, ProducerCalls, New
<1>3. CASE PublishInvalid \/ FlushLog \/ ConsumeInvalid
  BY <1>1, <1>3, Zenon DEF PublishInvalid, FlushLog, ConsumeInvalid
<1>4. ~(\E v \in Value : CheckFull(v)) /\ ~CheckEmpty
  BY <1>1, Zenon DEF CheckFull, CheckEmpty
<1>5. /\ ~AppendNoSpace /\ ~AppendStart /\ ~AppendCopied /\ ~AppendOk /\ ~AppendFlushFails
      /\ ~PushValue /\ ~CountPublished /\ ~PopValue /\ ~CountConsumed /\ ~Ended
  BY <1>1, Zenon
     DEF AppendNoSpace, AppendStart, AppendCopied, AppendOk, AppendFlushFails, PushValue,
         CountPublished, PopValue, CountConsumed, Ended
<1>6. CASE UNCHANGED vars
  BY <1>6, Zenon DEF vars
<1>7. QED
  BY <1>2, <1>3, <1>4, <1>5, <1>6, Zenon DEF Next, Producer, Consumer

\* Only open() changes the open status, and nothing revives a process.
LEMMA OpenStatusKept ==
  ASSUME [Next]_vars, ~Open
  PROVE  openStatus' = openStatus /\ (ended' = "no" => ended = "no")
<1> USE DEF openVars
<1>1. CASE \/ PublishInvalid \/ (\E v \in Value : CheckFull(v)) \/ AppendNoSpace \/ AppendStart
           \/ AppendCopied \/ AppendOk \/ AppendFlushFails \/ PushValue \/ CountPublished
  BY <1>1, Zenon
     DEF PublishInvalid, CheckFull, AppendNoSpace, AppendStart, AppendCopied, AppendOk,
         AppendFlushFails, PushValue, CountPublished
<1>2. CASE FlushLog \/ Consumer
  BY <1>2, Zenon DEF FlushLog, Consumer, ConsumeInvalid, CheckEmpty, PopValue, CountConsumed
<1>3. CASE Destructor \/ Killed \/ PowerLoss \/ Ended \/ UNCHANGED vars
  BY <1>3, Zenon DEF Destructor, Killed, PowerLoss, Ends, Ended, vars
<1>4. QED
  BY <1>1, <1>2, <1>3, Zenon DEF Next, Producer

\* Nothing happens after the end.
LEMMA EndedStays == ASSUME IndInv, ended # "no", [Next]_vars PROVE UNCHANGED vars
<1>1. ppc = "idle" /\ cpc = "idle"
  BY Zenon DEF IndInv
<1>2. /\ ~Open /\ ~PublishInvalid /\ ~(\E v \in Value : CheckFull(v)) /\ ~FlushLog
      /\ ~ConsumeInvalid /\ ~CheckEmpty /\ ~Destructor /\ ~Killed /\ ~PowerLoss
  BY Zenon
     DEF Open, PublishInvalid, CheckFull, FlushLog, ProducerCalls, ConsumeInvalid, CheckEmpty,
         Destructor, Killed, PowerLoss, Ends
<1>3. /\ ~AppendNoSpace /\ ~AppendStart /\ ~AppendCopied /\ ~AppendOk /\ ~AppendFlushFails
      /\ ~PushValue /\ ~CountPublished /\ ~PopValue /\ ~CountConsumed
  BY <1>1, Zenon
     DEF AppendNoSpace, AppendStart, AppendCopied, AppendOk, AppendFlushFails, PushValue,
         CountPublished, PopValue, CountConsumed
<1>4. QED
  BY <1>2, <1>3, Zenon DEF Next, Producer, Consumer, Ended

\* So a broker opened twice has its writer, and no call in it.
LEMMA NextStrandedInv == StrandedInv /\ [Next]_vars => StrandedInv'
<1> SUFFICES ASSUME StrandedInv, [Next]_vars, openStatus' = "already_open", ended' = "no"
             PROVE  up' /\ ppc' = "idle" /\ cpc' = "idle"
  BY Zenon DEF StrandedInv
<1>1. CASE Open
  BY <1>1 DEF Open, ProducerCalls, New, logVars, producerVars
<1>2. CASE ~Open
  <2>1. openStatus = "already_open" /\ ended = "no"
    BY <1>2, OpenStatusKept, Zenon
  <2>2. ~Destructor /\ ~Killed /\ ~PowerLoss
    BY Zenon DEF Destructor, Killed, PowerLoss, Ends
  <2>3. QED
    BY <2>1, <2>2, StrandedStep, Zenon DEF StrandedInv
<1>3. QED
  BY <1>1, <1>2, Zenon

\* What the end of the process leaves of a log whose broker was opened twice.
LEMMA StrandedEnd ==
  ASSUME IndInv, StrandedInv, openStatus = "already_open", ended = "no",
         Destructor \/ Killed \/ PowerLoss
  PROVE  /\ ended' # "no" /\ UNCHANGED <<openStatus, acked, got, synced>>
         /\ IsPrefix(SubSeq(acked, 1, IF ended' = "power" THEN synced ELSE Len(acked)), stored')
<1>1. /\ ended' \in {"closed", "killed", "power"} /\ UNCHANGED <<openStatus, acked, got, synced>>
  BY Zenon DEF Destructor, Killed, PowerLoss, Ends, Stop, openVars
<1>2. /\ acked \in Seq(Value) /\ Len(acked) \in Nat /\ synced \in 0 .. Len(acked)
      /\ tried \in SUBSET Value
      /\ stored = acked \/ \E r \in Value : stored = Append(acked, r)
  BY RecordAssumption, LenProperties, Zenon DEF IndInv, TypeOK, LogTypeOK, LogInv
<1>3. SubSeq(acked, 1, Len(acked)) = acked /\ IsPrefix(acked, acked)
  BY <1>2, SubSeqFull, PrefixPointwise
<1>4. CASE Destructor \/ Killed
  <2>1. stored' = stored /\ ended' # "power"
    BY <1>4, Zenon DEF Destructor, Killed, Ends, StrandedInv
  <2>2. IsPrefix(acked, stored)
    BY <1>2, <1>3, PrefixOfAppend, Zenon
  <2>3. QED
    BY <1>1, <1>3, <2>1, <2>2, Zenon
<1>5. CASE PowerLoss
  <2> DEFINE kept == SubSeq(acked, 1, synced)
  <2>1. ended' = "power"
    BY <1>5, Zenon DEF PowerLoss, Ends
  <2>2. \A n \in synced .. Len(acked) : IsPrefix(kept, SubSeq(acked, 1, n))
    BY <1>2, <1>3, PrefixOfCut, Zenon
  <2>3. synced \in Nat /\ Len(acked) \in synced .. Len(acked)
    BY <1>2
  <2>4. kept \in Seq(Value)
    BY <1>2, <2>3, SubSeqProperties
  <2> HIDE DEF kept
  <2>5. IsPrefix(kept, acked)
    BY <1>3, <2>2, <2>3, Zenon
  <2>6. \A r \in Value : IsPrefix(kept, Append(acked, r))
    BY <1>2, <2>4, <2>5, PrefixOfAppend, Zenon
  <2>7. \/ \E n \in synced .. Len(acked) : stored' = SubSeq(acked, 1, n)
        \/ \E r \in tried : stored' = Append(acked, r)
    BY <1>5, Zenon DEF PowerLoss, Stop
  <2>8. IsPrefix(kept, stored')
    BY <1>2, <2>2, <2>6, <2>7, Zenon
  <2>9. QED
    BY <1>1, <2>1, <2>8, Zenon DEF kept
<1>6. QED
  BY <1>4, <1>5, Zenon

(***************************************************************************)
(* A second open() makes the broker useless for good, and costs nothing    *)
(* that is in the log: whatever ends the process, the file starts with     *)
(* every acknowledged record, or, after a power loss, every flushed one.   *)
(***************************************************************************)
THEOREM SecondOpenKeepsLog == Spec => StrandedButLogged
<1> DEFINE Stranded ==
             openStatus = "already_open" =>
               /\ openStatus' = "already_open"
               /\ UNCHANGED <<acked, got, synced>>
               /\ ended' = "no" => UNCHANGED <<queue, stored>>
               /\ ended' # "no" =>
                    IsPrefix(SubSeq(acked, 1, IF ended' = "power" THEN synced ELSE Len(acked)),
                             stored')
<1>1. Init => StrandedInv
  BY Zenon DEF Init, StrandedInv
<1>2. StrandedInv /\ [Next]_vars => StrandedInv'
  BY NextStrandedInv, Zenon
<1>3. IndInv /\ StrandedInv /\ [Next]_vars => [Stranded]_vars
  <2> SUFFICES ASSUME IndInv, StrandedInv, [Next]_vars, openStatus = "already_open",
                      ~UNCHANGED vars
               PROVE  Stranded
    BY Zenon
  <2>1. CASE ended = "no"
    BY <2>1, StrandedStep, StrandedEnd, Zenon
  <2>2. CASE ended # "no"
    BY <2>2, EndedStays, Zenon
  <2>3. QED
    BY <2>1, <2>2, Zenon
<1>4. QED
  BY <1>1, <1>2, <1>3, Invariance, PTL DEF Spec, StrandedButLogged

=============================================================================
