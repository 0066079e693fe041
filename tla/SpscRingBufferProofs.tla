------------------------ MODULE SpscRingBufferProofs ------------------------
(***************************************************************************)
(* Proofs about SpscRingBuffer, for every Capacity, word size, value set   *)
(* and number of pushes, and then about its queries (SpscQueries).         *)
(***************************************************************************)
EXTENDS SpscQueries, Sequences, TLAPS

(***************************************************************************)
(* Facts about remainders for the wrapping counters and masked indices of  *)
(* the ring buffers, for every modulus.                                    *)
(***************************************************************************)

(***************************************************************************)
(* Division with remainder.                                                *)
(***************************************************************************)
LEMMA DivMod ==
  ASSUME NEW a \in Int, NEW c \in Nat, c > 0
  PROVE  /\ a \div c \in Int
         /\ a % c \in 0 .. c - 1
         /\ a = c * (a \div c) + (a % c)
  OBVIOUS

\* A nonzero multiple of c is at least c away from zero.
LEMMA MultipleAbove ==
  ASSUME NEW c \in Nat, c > 0, NEW k \in Int, k >= 1
  PROVE  c * k >= c
  OBVIOUS

\* A multiple of c by a negative number is at most -c.
LEMMA MultipleBelow ==
  ASSUME NEW c \in Nat, c > 0, NEW k \in Int, k <= -1
  PROVE  c * k <= -c
  OBVIOUS

\* Quotient and remainder are unique.
LEMMA ModUnique ==
  ASSUME NEW a \in Int, NEW c \in Nat, c > 0,
         NEW q \in Int, NEW r \in 0 .. c - 1, a = c * q + r
  PROVE  a % c = r /\ a \div c = q
<1>1. /\ a \div c \in Int
      /\ a % c \in 0 .. c - 1
      /\ a = c * (a \div c) + (a % c)
  BY DivMod, Zenon
<1>2. c * (q - (a \div c)) = (a % c) - r
  BY <1>1
<1>3. CASE q - (a \div c) >= 1
  BY <1>1, <1>2, <1>3, MultipleAbove
<1>4. CASE q - (a \div c) <= -1
  BY <1>1, <1>2, <1>4, MultipleBelow
<1>5. CASE q = a \div c
  BY <1>1, <1>5
<1>6. QED
  BY <1>1, <1>3, <1>4, <1>5

\* Numbers less than c apart have different remainders.
LEMMA ModDistinct ==
  ASSUME NEW c \in Nat, c > 0, NEW i \in Nat, NEW j \in Nat, i < j, j < i + c
  PROVE  i % c # j % c
<1>1. /\ i \div c \in Int /\ i % c \in 0 .. c - 1 /\ i = c * (i \div c) + (i % c)
      /\ j \div c \in Int /\ j % c \in 0 .. c - 1 /\ j = c * (j \div c) + (j % c)
  BY DivMod
<1>2. SUFFICES ASSUME i % c = j % c PROVE FALSE
  BY Zenon
<1>3. c * ((j \div c) - (i \div c)) = j - i
  BY <1>1, <1>2
<1>4. CASE (j \div c) - (i \div c) >= 1
  BY <1>1, <1>3, <1>4, MultipleAbove
<1>5. CASE (j \div c) - (i \div c) <= -1
  BY <1>1, <1>3, <1>5, MultipleBelow
<1>6. CASE j \div c = i \div c
  BY <1>1, <1>3, <1>6
<1>7. QED
  BY <1>1, <1>4, <1>5, <1>6

\* Reducing by a multiple of c first does not change the remainder by c.
LEMMA ModOfMod ==
  ASSUME NEW c \in Nat, c > 0, NEW k \in Nat, k > 0, NEW n \in Nat
  PROVE  (n % (k * c)) % c = n % c
<1> DEFINE w == k * c
<1>1. w \in Nat /\ w > 0
  OBVIOUS
<1>2. n \div w \in Int /\ n % w \in 0 .. w - 1 /\ n = w * (n \div w) + (n % w)
  BY <1>1, DivMod
<1>3. PICK m \in Int : m = n % w
  BY <1>1, <1>2
<1>4. PICK q \in Int : n = w * q + m
  BY <1>2, <1>3, Zenon
<1>5. PICK d \in Int, r \in 0 .. c - 1 : m = c * d + r /\ m % c = r
  BY DivMod, Zenon
<1>6. PICK e \in Int : e = k * q + d
  OBVIOUS
<1>7. n = c * e + r
  BY <1>4, <1>5, <1>6
<1>8. n % c = r
  BY <1>7, ModUnique
<1>9. QED
  BY <1>3, <1>5, <1>8, Zenon

\* Wrapped subtraction recovers a difference smaller than the modulus.
LEMMA WrappedDifference ==
  ASSUME NEW w \in Nat, w > 0, NEW t \in Nat, NEW h \in Nat, t <= h, h - t < w
  PROVE  ((h % w) - (t % w)) % w = h - t
<1>1. /\ h \div w \in Int /\ h % w \in 0 .. w - 1 /\ h = w * (h \div w) + (h % w)
      /\ t \div w \in Int /\ t % w \in 0 .. w - 1 /\ t = w * (t \div w) + (t % w)
  BY DivMod
<1>2. (h % w) - (t % w) = w * ((t \div w) - (h \div w)) + (h - t)
  BY <1>1
<1>3. (h % w) - (t % w) \in Int /\ (t \div w) - (h \div w) \in Int /\ h - t \in 0 .. w - 1
  BY <1>1
<1>4. QED
  BY <1>2, <1>3, ModUnique, Zenon

\* c consecutive numbers meet every remainder.
LEMMA ModCovers ==
  ASSUME NEW c \in Nat, c > 0, NEW m \in Nat, NEW s \in 0 .. c - 1
  PROVE  \E n \in m .. m + c - 1 : n % c = s
<1>1. m \div c \in Int /\ m % c \in 0 .. c - 1 /\ m = c * (m \div c) + (m % c)
  BY DivMod
<1>2. CASE s >= m % c
  <2> DEFINE n == m + (s - (m % c))
  <2>1. n \in m .. m + c - 1 /\ n \in Int
    BY <1>1, <1>2
  <2>2. n = c * (m \div c) + s
    BY <1>1
  <2>3. n % c = s
    BY <1>1, <2>1, <2>2, ModUnique, Zenon
  <2>4. QED
    BY <2>1, <2>3, Zenon
<1>3. CASE s < m % c
  <2> DEFINE n == m + (s - (m % c)) + c
  <2>1. n \in m .. m + c - 1 /\ n \in Int
    BY <1>1, <1>3
  <2>2. PICK q \in Int : q = (m \div c) + 1
    BY <1>1
  <2>3. n = c * q + s
    BY <1>1, <2>2
  <2>4. n % c = s
    BY <2>1, <2>3, ModUnique, Zenon
  <2>5. QED
    BY <2>1, <2>4, Zenon
<1>4. QED
  BY <1>1, <1>2, <1>3

(***************************************************************************)
(* The masked index of a wrapped counter is the counter modulo Capacity,   *)
(* because the word size is a multiple of Capacity.                        *)
(***************************************************************************)
LEMMA SlotIsMod ==
  \A n \in Nat : Slot(n) = n % Capacity /\ Slot(n) \in Slots
<1>1. PICK k \in 2 .. WordSize : WordSize = k * Capacity
  BY WordAssumption, Zenon
<1>2. SUFFICES ASSUME NEW n \in Nat
               PROVE  Slot(n) = n % Capacity /\ Slot(n) \in Slots
  BY Zenon
<1>3. (n % (k * Capacity)) % Capacity = n % Capacity
  <2>1. k \in Nat /\ k > 0 /\ Capacity \in Nat /\ Capacity > 0
    BY <1>1, CapacityAssumption, WordAssumption
  <2>2. QED
    BY <2>1, ModOfMod, Zenon
<1>4. n % Capacity \in 0 .. Capacity - 1
  BY CapacityAssumption, DivMod
<1>5. QED
  BY <1>1, <1>3, <1>4, Zenon DEF Slot, Word, Slots

\* Indices less than Capacity apart use different slots.
LEMMA SlotDistinct ==
  \A i, j \in Nat : i < j /\ j < i + Capacity => Slot(i) # Slot(j)
<1>1. SUFFICES ASSUME NEW i \in Nat, NEW j \in Nat, i < j, j < i + Capacity
               PROVE  Slot(i) # Slot(j)
  BY Zenon
<1>2. Capacity \in Nat /\ Capacity > 0
  BY CapacityAssumption
<1>3. i % Capacity # j % Capacity
  BY <1>1, <1>2, ModDistinct, Zenon
<1>4. QED
  BY <1>3, SlotIsMod, Zenon

\* Capacity consecutive indices use every slot.
LEMMA SlotCovers ==
  \A m \in Nat : \A s \in Slots : \E n \in m .. m + Capacity - 1 : Slot(n) = s
<1>1. SUFFICES ASSUME NEW m \in Nat, NEW s \in Slots
               PROVE  \E n \in m .. m + Capacity - 1 : Slot(n) = s
  BY Zenon
<1>2. Capacity \in Nat /\ Capacity > 0 /\ s \in 0 .. Capacity - 1
  BY CapacityAssumption DEF Slots
<1>3. PICK n \in m .. m + Capacity - 1 : n % Capacity = s
  BY <1>2, ModCovers, Zenon
<1>4. n \in Nat
  BY <1>2
<1>5. Slot(n) = s
  BY <1>3, <1>4, SlotIsMod, Zenon
<1>6. QED
  BY <1>5, Zenon

\* A word holds more than the ring does.
LEMMA WordHoldsRing == WordSize \in Nat /\ WordSize > Capacity
<1>1. PICK k \in 2 .. WordSize : WordSize = k * Capacity
  BY WordAssumption, Zenon
<1>2. k * Capacity >= 2 * Capacity
  BY <1>1, CapacityAssumption
<1>3. QED
  BY <1>1, <1>2, WordAssumption, CapacityAssumption

\* The wrapped difference of the counters is the number of elements.
LEMMA WrappedSize ==
  \A h, t \in Nat : t <= h /\ h <= t + Capacity => WordSub(Word(h), Word(t)) = h - t
<1>1. SUFFICES ASSUME NEW h \in Nat, NEW t \in Nat, t <= h, h <= t + Capacity
               PROVE  WordSub(Word(h), Word(t)) = h - t
  BY Zenon
<1>2. WordSize \in Nat /\ WordSize > 0 /\ h - t < WordSize
  BY <1>1, WordHoldsRing, CapacityAssumption
<1>3. ((h % WordSize) - (t % WordSize)) % WordSize = h - t
  BY <1>1, <1>2, WrappedDifference, Zenon
<1>4. QED
  BY <1>3, Zenon DEF WordSub, Word

\* The wrapped comparisons of the code decide the unwrapped questions.
LEMMA WrappedTests ==
  \A h, t \in Nat : t <= h /\ h <= t + Capacity =>
    /\ Full(Word(h), Word(t)) <=> h = t + Capacity
    /\ Word(t) = Word(h) <=> t = h
<1>1. SUFFICES ASSUME NEW h \in Nat, NEW t \in Nat, t <= h, h <= t + Capacity
               PROVE  /\ Full(Word(h), Word(t)) <=> h = t + Capacity
                      /\ Word(t) = Word(h) <=> t = h
  BY Zenon
<1>2. WordSize \in Nat /\ WordSize > Capacity
  BY WordHoldsRing, Zenon
<1>3. WordSub(Word(h), Word(t)) = h - t
  BY <1>1, WrappedSize, Zenon
<1>4. Full(Word(h), Word(t)) <=> h = t + Capacity
  BY <1>1, <1>3, CapacityAssumption DEF Full
<1>5. ASSUME Word(t) = Word(h) PROVE t = h
  <2>1. CASE t = h
    BY <2>1, Zenon
  <2>2. CASE t < h
    <3>1. WordSize > 0 /\ h < t + WordSize
      BY <1>1, <1>2, CapacityAssumption
    <3>2. t % WordSize # h % WordSize
      BY <1>2, <2>2, <3>1, ModDistinct, Zenon
    <3>3. QED
      BY <3>2, <1>5, Zenon DEF Word
  <2>3. QED
    BY <1>1, <2>1, <2>2
<1>6. QED
  BY <1>4, <1>5, Zenon

-----------------------------------------------------------------------------
\* A new ring: empty, every slot raw, and both threads know it.
LEMMA InitIndInv == Init => IndInv
<1>1. SUFFICES ASSUME Init PROVE IndInv
  BY Zenon
<1>2. TypeOK
  BY <1>1, Zenon DEF Init, TypeOK, Slots, Thread
<1>3. CountersInv
  BY <1>1, CapacityAssumption DEF Init, CountersInv
<1>4. ViewsInv
  BY <1>1, CapacityAssumption, SlotIsMod DEF Init, ViewsInv, Thread
<1>5. ObjectsInv
  BY <1>1, CapacityAssumption, SlotIsMod DEF Init, ObjectsInv, First
<1>6. QED
  BY <1>1, <1>2, <1>3, <1>4, <1>5, Zenon DEF IndInv, Init

(***************************************************************************)
(* The producer's steps.                                                   *)
(***************************************************************************)
\* A load of tail_ by the producer, which then goes on only if there is room.
LEMMA ProducerLoadInv ==
  ASSUME IndInv, NEW t \in seenTail .. tail,
         seenTail' = t, tailMsgs' = [v \in t .. tail |-> tailMsgs[v]],
         Acquire("producer", tailMsgs[t]),
         UNCHANGED <<head, headMsgs, buffer, alive, tail, seenHead, cpc, out>>,
         alive, ppc = "idle", ppc' \in {"idle", "construct"},
         ppc' = "construct" => head < t + Capacity
  PROVE  IndInv'
<1>1. /\ UNCHANGED <<head, headMsgs, buffer, alive, tail, seenHead, cpc, out>>
      /\ alive /\ ppc = "idle" /\ ppc' \in {"idle", "construct"}
      /\ ppc' = "construct" => head < t + Capacity
  BY Zenon
<1>2. seenTail' = t /\ tailMsgs' = [v \in t .. tail |-> tailMsgs[v]]
  BY Zenon
<1>3. TypeOK /\ CountersInv /\ ViewsInv /\ ObjectsInv
  BY Zenon DEF IndInv
<1>4. /\ seenTail \in Nat /\ tail \in Nat /\ head \in Nat /\ seenHead \in Nat
      /\ t \in Nat /\ seenTail <= t /\ t <= tail /\ t <= head /\ head <= t + Capacity
  BY <1>3, CapacityAssumption DEF TypeOK, CountersInv
<1>5. /\ view' \in [Thread -> SUBSET Slots]
      /\ view'["producer"] = view["producer"] \cup tailMsgs[t]
      /\ view'["consumer"] = view["consumer"]
      /\ tailMsgs[t] \subseteq Slots
  BY <1>2, <1>3, <1>4, Zenon DEF Acquire, TypeOK, Thread
<1>6. TypeOK'
  BY <1>1, <1>2, <1>3, <1>4, <1>5 DEF TypeOK
<1>7. CountersInv'
  BY <1>1, <1>2, <1>3, <1>4, CapacityAssumption DEF CountersInv
<1>8. ViewsInv'
  <2>1. \A n \in head .. t + Capacity - 1 : Slot(n) \in view'["producer"]
    BY <1>3, <1>4, <1>5, Zenon DEF ViewsInv
  <2>2. \A v \in t .. tail : \A n \in head .. v + Capacity - 1 :
          Slot(n) \in tailMsgs'[v] \cup view'["producer"]
    BY <1>2, <1>3, <1>4, <1>5 DEF ViewsInv
  <2>3. QED
    BY <1>1, <1>2, <1>3, <1>4, <1>5, <2>1, <2>2, Zenon DEF ViewsInv, TypeOK, Thread
<1>9. ObjectsInv'
  BY <1>1, <1>2, <1>3, Zenon DEF ObjectsInv, First
<1>10. QED
  BY <1>1, <1>6, <1>7, <1>8, <1>9 DEF IndInv

\* The producer's load of tail_ and its test for a full ring.
LEMMA LoadTailInv == IndInv /\ LoadTail => IndInv'
<1>1. SUFFICES ASSUME IndInv, LoadTail PROVE IndInv'
  BY Zenon
<1>2. PICK t \in seenTail .. tail :
        /\ seenTail' = t
        /\ tailMsgs' = [v \in t .. tail |-> tailMsgs[v]]
        /\ Acquire("producer", tailMsgs[t])
        /\ ppc' = IF Full(Word(head), Word(t)) THEN "idle" ELSE "construct"
  BY <1>1, Zenon DEF LoadTail
<1>3. /\ UNCHANGED <<head, headMsgs, buffer, alive, tail, seenHead, cpc, out>>
      /\ alive /\ ppc = "idle"
  BY <1>1, Zenon DEF LoadTail
<1>4. /\ t \in Nat /\ head \in Nat /\ t <= head /\ head <= t + Capacity
  BY <1>1, CapacityAssumption DEF IndInv, TypeOK, CountersInv
<1>5. Full(Word(head), Word(t)) <=> head = t + Capacity
  BY <1>4, WrappedTests, Zenon
<1>6. ppc' \in {"idle", "construct"} /\ (ppc' = "construct" => head < t + Capacity)
  BY <1>2, <1>4, <1>5, CapacityAssumption
<1>7. QED
  BY <1>1, <1>2, <1>3, <1>6, ProducerLoadInv, Zenon

\* What an access by thread t to slot s does to the views.
LEMMA AccessEffect ==
  ASSUME TypeOK, NEW t \in Thread, NEW s \in Slots, Access(t, s),
         UNCHANGED <<head, seenHead, tail, seenTail>>
  PROVE  /\ view' \in [Thread -> SUBSET Slots]
         /\ headMsgs' \in [seenHead' .. head' -> SUBSET Slots]
         /\ tailMsgs' \in [seenTail' .. tail' -> SUBSET Slots]
         /\ view'[t] = view[t] \cup {s}
         /\ \A u \in Thread : u # t => view'[u] = view[u] \ {s}
         /\ \A v \in seenHead .. head : headMsgs'[v] = headMsgs[v] \ {s}
         /\ \A v \in seenTail .. tail : tailMsgs'[v] = tailMsgs[v] \ {s}
<1>1. /\ view' = [u \in Thread |-> IF u = t THEN view[u] \cup {s} ELSE view[u] \ {s}]
      /\ headMsgs' = [v \in seenHead .. head |-> headMsgs[v] \ {s}]
      /\ tailMsgs' = [v \in seenTail .. tail |-> tailMsgs[v] \ {s}]
  BY Zenon DEF TypeOK, Access, Without
<1>2. QED
  BY <1>1, Zenon DEF TypeOK

\* The producer's access to the slot at head keeps what the views must carry.
LEMMA ProducerAccessViews ==
  ASSUME IndInv, ppc # "idle", Access("producer", Slot(head)),
         UNCHANGED <<head, seenHead, tail, seenTail>>
  PROVE  ViewsInv'
<1>1. TypeOK /\ CountersInv /\ ViewsInv
  BY Zenon DEF IndInv
<1>2. /\ head \in Nat /\ tail \in Nat /\ seenHead \in Nat /\ seenTail \in Nat
      /\ seenTail <= tail /\ tail <= seenHead /\ seenHead <= head
      /\ head < seenTail + Capacity
  BY <1>1, Zenon DEF TypeOK, CountersInv
<1>3. Slot(head) \in Slots
  BY <1>2, SlotIsMod, Zenon
<1>4. /\ view' \in [Thread -> SUBSET Slots]
      /\ view'["producer"] = view["producer"] \cup {Slot(head)}
      /\ view'["consumer"] = view["consumer"] \ {Slot(head)}
      /\ \A v \in seenHead .. head : headMsgs'[v] = headMsgs[v] \ {Slot(head)}
      /\ \A v \in seenTail .. tail : tailMsgs'[v] = tailMsgs[v] \ {Slot(head)}
  BY <1>1, <1>3, AccessEffect, Zenon DEF Thread
<1>5. \A n \in tail .. head - 1 : Slot(n) # Slot(head)
  BY <1>2, SlotDistinct, CapacityAssumption
<1>6. view'["producer"] \cup view'["consumer"] = Slots
  BY <1>1, <1>3, <1>4, Zenon DEF ViewsInv
<1>7. \A n \in head' .. seenTail' + Capacity - 1 : Slot(n) \in view'["producer"]
  BY <1>1, <1>4, Zenon DEF ViewsInv
<1>8. \A n \in tail' .. seenHead' - 1 : Slot(n) \in view'["consumer"]
  BY <1>1, <1>2, <1>4, <1>5 DEF ViewsInv
<1>9. \A v \in seenTail' .. tail' : \A n \in head' .. v + Capacity - 1 :
        Slot(n) \in tailMsgs'[v] \cup view'["producer"]
  BY <1>1, <1>4 DEF ViewsInv
<1>10. \A v \in seenHead' .. head' : \A n \in tail' .. v - 1 :
         Slot(n) \in headMsgs'[v] \cup view'["consumer"]
  BY <1>1, <1>2, <1>4, <1>5 DEF ViewsInv
<1>11. QED
  BY <1>6, <1>7, <1>8, <1>9, <1>10, Zenon DEF ViewsInv, Slots

\* The producer leaves an object or raw storage in the slot at head.
LEMMA ProducerTouchInv ==
  ASSUME IndInv, ppc # "idle", NEW x \in Value \cup {Raw},
         Access("producer", Slot(head)),
         buffer' = [buffer EXCEPT ![Slot(head)] = x],
         UNCHANGED <<head, seenTail, tail, seenHead, cpc, out, alive>>,
         ppc' \in {"idle", "construct", "publish"}, x \in Value <=> ppc' = "publish"
  PROVE  IndInv'
<1>1. TypeOK /\ CountersInv /\ ObjectsInv /\ alive
  BY Zenon DEF IndInv, CountersInv
<1>2. /\ ppc' \in {"idle", "construct", "publish"}
      /\ buffer' = [buffer EXCEPT ![Slot(head)] = x]
      /\ UNCHANGED <<head, seenTail, tail, seenHead, cpc, out, alive>>
  BY Zenon
<1>3. /\ head \in Nat /\ tail \in Nat /\ seenHead \in Nat /\ seenTail \in Nat
      /\ tail <= head /\ head < tail + Capacity
      /\ cpc # "idle" => tail < head
  BY <1>1, CapacityAssumption DEF TypeOK, CountersInv
<1>4. Slot(head) \in Slots
  BY <1>3, SlotIsMod, Zenon
<1>5. TypeOK'
  <2>1. "producer" \in Thread
    BY Zenon DEF Thread
  <2>2. /\ view' \in [Thread -> SUBSET Slots]
        /\ headMsgs' \in [seenHead' .. head' -> SUBSET Slots]
        /\ tailMsgs' \in [seenTail' .. tail' -> SUBSET Slots]
    BY <1>1, <1>2, <1>4, <2>1, AccessEffect, Zenon
  <2>3. QED
    BY <1>1, <1>2, <1>4, <2>2, Zenon DEF TypeOK
<1>6. CountersInv'
  BY <1>1, <1>2 DEF CountersInv
<1>7. ViewsInv'
  BY <1>2, ProducerAccessViews, Zenon
<1>8. ObjectsInv'
  <2>1. \A n \in tail .. head - 1 : Slot(n) # Slot(head) /\ Slot(n) \in Slots
    BY <1>3, SlotDistinct, SlotIsMod, CapacityAssumption
  <2>2. \A n \in head + 1 .. tail + Capacity - 1 : Slot(n) # Slot(head) /\ Slot(n) \in Slots
    BY <1>3, SlotDistinct, SlotIsMod, CapacityAssumption
  <2>3. buffer'[Slot(head)] = x
    BY <1>1, <1>2, <1>4, Zenon DEF TypeOK
  <2>4. \A s \in Slots : s # Slot(head) => buffer'[s] = buffer[s]
    BY <1>1, <1>2, Zenon DEF TypeOK
  <2>5. First' = First /\ First \in Nat /\ tail <= First
    BY <1>2, <1>3 DEF First
  <2>6. \A n \in First' .. head' - 1 : buffer'[Slot(n)] \in Value
    BY <1>1, <1>2, <1>3, <2>1, <2>4, <2>5 DEF ObjectsInv
  <2>7. cpc' # "idle" => buffer'[Slot(tail)] = buffer[Slot(tail)]
    BY <1>2, <1>3, <2>1, <2>4
  <2>8. \A n \in head' .. tail' + Capacity - 1 :
          (ppc' = "publish" /\ n = head') \/ buffer'[Slot(n)] = Raw
    BY <1>1, <1>2, <1>3, <2>2, <2>3, <2>4 DEF ObjectsInv
  <2>9. QED
    BY <1>1, <1>2, <2>3, <2>6, <2>7, <2>8, Zenon DEF ObjectsInv
<1>9. QED
  BY <1>1, <1>2, <1>5, <1>6, <1>7, <1>8 DEF IndInv

\* T's constructor fills the raw slot at head, which the producer knows.
LEMMA ConstructInv == ASSUME IndInv, NEW x \in Value, Construct(x) PROVE IndInv'
  BY ProducerTouchInv, Zenon DEF Construct

\* A throwing constructor leaves the slot at head raw and the producer idle.
LEMMA ConstructThrowsInv == IndInv /\ ConstructThrows => IndInv'
<1>1. SUFFICES ASSUME IndInv, ConstructThrows PROVE IndInv'
  BY Zenon
<1>2. /\ ppc = "construct" /\ ppc' = "idle"
      /\ Access("producer", Slot(head))
      /\ UNCHANGED <<head, seenTail, tail, seenHead, cpc, out, buffer, alive>>
  BY <1>1, Zenon DEF ConstructThrows
<1>3. head \in Nat /\ head \in head .. tail + Capacity - 1 /\ alive
  BY <1>1, <1>2, CapacityAssumption DEF IndInv, TypeOK, CountersInv
<1>4. buffer[Slot(head)] = Raw
  BY <1>1, <1>2, <1>3, Zenon DEF IndInv, ObjectsInv
<1>5. buffer' = [buffer EXCEPT ![Slot(head)] = Raw]
  BY <1>1, <1>2, <1>4, Zenon DEF IndInv, TypeOK
<1>6. QED
  BY <1>1, <1>2, <1>5, ProducerTouchInv, ValueAssumption, Zenon

\* The producer gives up a slot it has left raw.
LEMMA GiveUpInv ==
  ASSUME IndInv, ppc = "construct", ppc' = "idle",
         UNCHANGED <<head, tail, headMsgs, tailMsgs, seenHead, seenTail, view, buffer, out,
                     cpc, alive>>
  PROVE  IndInv'
<1>1. TypeOK' /\ CountersInv'
  BY Zenon DEF IndInv, TypeOK, CountersInv
<1>2. ViewsInv' /\ ObjectsInv'
  BY Zenon DEF IndInv, ViewsInv, ObjectsInv, First
<1>3. QED
  BY <1>1, <1>2, Zenon DEF IndInv

\* The release store of head_ carries the slot it hands over.
LEMMA PublishHeadInv == IndInv /\ PublishHead => IndInv'
<1>1. SUFFICES ASSUME IndInv, PublishHead PROVE IndInv'
  BY Zenon
<1>2. /\ ppc = "publish" /\ ppc' = "idle" /\ head' = head + 1
      /\ headMsgs' = [v \in seenHead .. head + 1 |->
                        IF v = head + 1 THEN view["producer"] ELSE headMsgs[v]]
      /\ UNCHANGED <<seenTail, view, buffer, alive, tail, tailMsgs, seenHead, cpc, out>>
  BY <1>1, Zenon DEF PublishHead, consumerVars, Release
<1>3. TypeOK /\ CountersInv /\ ViewsInv /\ ObjectsInv /\ alive
  BY <1>1, <1>2, Zenon DEF IndInv, CountersInv
<1>4. /\ head \in Nat /\ tail \in Nat /\ seenHead \in Nat /\ seenTail \in Nat
      /\ seenTail <= tail /\ tail <= seenHead /\ seenHead <= head
      /\ head < seenTail + Capacity
  BY <1>2, <1>3, Zenon DEF TypeOK, CountersInv
<1>5. TypeOK'
  BY <1>2, <1>3, <1>4 DEF TypeOK, Thread
<1>6. CountersInv'
  BY <1>2, <1>3, <1>4, CapacityAssumption DEF CountersInv
<1>7. ViewsInv'
  <2>1. \A n \in tail .. head : Slot(n) \in view["producer"] \cup view["consumer"]
    BY <1>3, <1>4, SlotIsMod DEF ViewsInv
  <2>2. \A v \in seenHead .. head + 1 : \A n \in tail .. v - 1 :
          Slot(n) \in headMsgs'[v] \cup view["consumer"]
    <3>1. SUFFICES ASSUME NEW v \in seenHead .. head + 1, NEW n \in tail .. v - 1
                   PROVE  Slot(n) \in headMsgs'[v] \cup view["consumer"]
      BY Zenon
    <3>2. CASE v = head + 1
      BY <1>2, <1>4, <2>1, <3>2
    <3>3. CASE v \in seenHead .. head
      BY <1>2, <1>3, <1>4, <3>3 DEF ViewsInv
    <3>4. QED
      BY <1>4, <3>2, <3>3
  <2>3. QED
    BY <1>2, <1>3, <1>4, <2>2, CapacityAssumption DEF ViewsInv
<1>8. ObjectsInv'
  <2>1. First' = First /\ First \in Nat
    BY <1>2, <1>4 DEF First
  <2>2. \A n \in First' .. head' - 1 : buffer'[Slot(n)] \in Value
    BY <1>2, <1>3, <1>4, <2>1 DEF ObjectsInv
  <2>3. \A n \in head' .. tail' + Capacity - 1 : buffer'[Slot(n)] = Raw
    BY <1>2, <1>3, <1>4, CapacityAssumption DEF ObjectsInv
  <2>4. QED
    BY <1>2, <1>3, <2>2, <2>3, Zenon DEF ObjectsInv
<1>9. QED
  BY <1>2, <1>3, <1>5, <1>6, <1>7, <1>8, Zenon DEF IndInv

(***************************************************************************)
(* The consumer's steps.                                                   *)
(***************************************************************************)
\* A load of head_ by the consumer, which then goes on only if there is an element.
LEMMA ConsumerLoadInv ==
  ASSUME IndInv, NEW h \in seenHead .. head,
         seenHead' = h, headMsgs' = [v \in h .. head |-> headMsgs[v]],
         Acquire("consumer", headMsgs[h]),
         UNCHANGED <<tail, tailMsgs, out, buffer, alive, head, seenTail, ppc>>,
         alive, cpc = "idle", cpc' \in {"idle", "move"}, cpc' = "move" => tail < h
  PROVE  IndInv'
<1>1. /\ UNCHANGED <<tail, tailMsgs, out, buffer, alive, head, seenTail, ppc>>
      /\ alive /\ cpc = "idle" /\ cpc' \in {"idle", "move"} /\ (cpc' = "move" => tail < h)
  BY Zenon
<1>2. seenHead' = h /\ headMsgs' = [v \in h .. head |-> headMsgs[v]]
  BY Zenon
<1>3. TypeOK /\ CountersInv /\ ViewsInv /\ ObjectsInv
  BY Zenon DEF IndInv
<1>4. /\ seenTail \in Nat /\ tail \in Nat /\ head \in Nat /\ seenHead \in Nat
      /\ h \in Nat /\ seenHead <= h /\ h <= head /\ tail <= h /\ h <= tail + Capacity
  BY <1>3, CapacityAssumption DEF TypeOK, CountersInv
<1>5. /\ view' \in [Thread -> SUBSET Slots]
      /\ view'["consumer"] = view["consumer"] \cup headMsgs[h]
      /\ view'["producer"] = view["producer"]
      /\ headMsgs[h] \subseteq Slots
  BY <1>2, <1>3, <1>4, Zenon DEF Acquire, TypeOK, Thread
<1>6. TypeOK'
  BY <1>1, <1>2, <1>3, <1>4, <1>5 DEF TypeOK
<1>7. CountersInv'
  BY <1>1, <1>2, <1>3, <1>4, CapacityAssumption DEF CountersInv
<1>8. ViewsInv'
  <2>1. \A n \in tail .. h - 1 : Slot(n) \in view'["consumer"]
    BY <1>3, <1>4, <1>5, Zenon DEF ViewsInv
  <2>2. \A v \in h .. head : \A n \in tail .. v - 1 :
          Slot(n) \in headMsgs'[v] \cup view'["consumer"]
    BY <1>2, <1>3, <1>4, <1>5 DEF ViewsInv
  <2>3. QED
    BY <1>1, <1>2, <1>3, <1>4, <1>5, <2>1, <2>2, Zenon DEF ViewsInv, TypeOK, Thread
<1>9. ObjectsInv'
  BY <1>1, <1>2, <1>3, Zenon DEF ObjectsInv, First
<1>10. QED
  BY <1>1, <1>6, <1>7, <1>8, <1>9 DEF IndInv

\* The consumer's load of head_ and its test for an empty ring.
LEMMA LoadHeadInv == IndInv /\ LoadHead => IndInv'
<1>1. SUFFICES ASSUME IndInv, LoadHead PROVE IndInv'
  BY Zenon
<1>2. PICK h \in seenHead .. head :
        /\ seenHead' = h
        /\ headMsgs' = [v \in h .. head |-> headMsgs[v]]
        /\ Acquire("consumer", headMsgs[h])
        /\ cpc' = IF Word(tail) = Word(h) THEN "idle" ELSE "move"
  BY <1>1, Zenon DEF LoadHead
<1>3. /\ UNCHANGED <<tail, tailMsgs, out, buffer, alive, head, seenTail, ppc>>
      /\ alive /\ cpc = "idle"
  BY <1>1, Zenon DEF LoadHead
<1>4. /\ tail \in Nat /\ h \in Nat /\ tail <= h /\ h <= tail + Capacity
  BY <1>1, CapacityAssumption DEF IndInv, TypeOK, CountersInv
<1>5. Word(tail) = Word(h) <=> tail = h
  BY <1>4, WrappedTests, Zenon
<1>6. cpc' \in {"idle", "move"} /\ (cpc' = "move" => tail < h)
  BY <1>2, <1>4, <1>5
<1>7. QED
  BY <1>1, <1>2, <1>3, <1>6, ConsumerLoadInv, Zenon

\* The consumer's access to the slot at tail keeps what the views must carry.
LEMMA ConsumerAccessViews ==
  ASSUME IndInv, cpc # "idle", Access("consumer", Slot(tail)),
         UNCHANGED <<head, seenHead, tail, seenTail>>
  PROVE  ViewsInv'
<1>1. TypeOK /\ CountersInv /\ ViewsInv
  BY Zenon DEF IndInv
<1>2. /\ head \in Nat /\ tail \in Nat /\ seenHead \in Nat /\ seenTail \in Nat
      /\ seenTail <= tail /\ tail < seenHead /\ seenHead <= head
      /\ head <= seenTail + Capacity
  BY <1>1, Zenon DEF TypeOK, CountersInv
<1>3. Slot(tail) \in Slots
  BY <1>2, SlotIsMod, Zenon
<1>4. /\ view' \in [Thread -> SUBSET Slots]
      /\ view'["consumer"] = view["consumer"] \cup {Slot(tail)}
      /\ view'["producer"] = view["producer"] \ {Slot(tail)}
      /\ \A v \in seenHead .. head : headMsgs'[v] = headMsgs[v] \ {Slot(tail)}
      /\ \A v \in seenTail .. tail : tailMsgs'[v] = tailMsgs[v] \ {Slot(tail)}
  BY <1>1, <1>3, AccessEffect, Zenon DEF Thread
<1>5. \A n \in head .. tail + Capacity - 1 : Slot(n) # Slot(tail)
  BY <1>2, SlotDistinct, CapacityAssumption
<1>6. view'["producer"] \cup view'["consumer"] = Slots
  BY <1>1, <1>3, <1>4, Zenon DEF ViewsInv
<1>7. \A n \in head' .. seenTail' + Capacity - 1 : Slot(n) \in view'["producer"]
  BY <1>1, <1>2, <1>4, <1>5, CapacityAssumption DEF ViewsInv
<1>8. \A n \in tail' .. seenHead' - 1 : Slot(n) \in view'["consumer"]
  BY <1>1, <1>2, <1>4, Zenon DEF ViewsInv
<1>9. \A v \in seenTail' .. tail' : \A n \in head' .. v + Capacity - 1 :
        Slot(n) \in tailMsgs'[v] \cup view'["producer"]
  BY <1>1, <1>2, <1>4, <1>5, CapacityAssumption DEF ViewsInv
<1>10. \A v \in seenHead' .. head' : \A n \in tail' .. v - 1 :
         Slot(n) \in headMsgs'[v] \cup view'["consumer"]
  BY <1>1, <1>2, <1>4 DEF ViewsInv
<1>11. QED
  BY <1>6, <1>7, <1>8, <1>9, <1>10, Zenon DEF ViewsInv, Slots

\* Types and counters across an access by the consumer.
LEMMA ConsumerAccessTypes ==
  ASSUME IndInv, Access("consumer", Slot(tail)),
         UNCHANGED <<head, seenHead, tail, seenTail>>
  PROVE  /\ view' \in [Thread -> SUBSET Slots]
         /\ headMsgs' \in [seenHead' .. head' -> SUBSET Slots]
         /\ tailMsgs' \in [seenTail' .. tail' -> SUBSET Slots]
<1>1. TypeOK
  BY Zenon DEF IndInv
<1>2. "consumer" \in Thread /\ Slot(tail) \in Slots
  BY <1>1, SlotIsMod, Zenon DEF Thread, TypeOK
<1>3. QED
  BY <1>1, <1>2, AccessEffect, Zenon

\* The move out of the slot at tail leaves a moved-from object there.
LEMMA MoveOutInv == IndInv /\ MoveOut => IndInv'
<1>1. SUFFICES ASSUME IndInv, MoveOut PROVE IndInv'
  BY Zenon
<1>2. /\ cpc = "move" /\ cpc' = "destroy"
      /\ Access("consumer", Slot(tail))
      /\ out' = buffer[Slot(tail)]
      /\ buffer' = [buffer EXCEPT ![Slot(tail)] = Moved]
      /\ UNCHANGED <<tail, seenHead, head, seenTail, ppc, alive>>
  BY <1>1, Zenon DEF MoveOut
<1>3. TypeOK /\ CountersInv /\ ObjectsInv /\ alive
  BY <1>1, <1>2, Zenon DEF IndInv, CountersInv
<1>4. /\ head \in Nat /\ tail \in Nat /\ tail < head /\ head <= tail + Capacity
      /\ ppc # "idle" => head < tail + Capacity
      /\ Slot(tail) \in Slots
  BY <1>2, <1>3, SlotIsMod, CapacityAssumption DEF TypeOK, CountersInv
<1>5. buffer[Slot(tail)] \in Value
  BY <1>2, <1>3, <1>4 DEF ObjectsInv, First
<1>6. TypeOK'
  BY <1>1, <1>2, <1>3, <1>4, <1>5, ConsumerAccessTypes, Zenon DEF TypeOK
<1>7. CountersInv'
  BY <1>2, <1>3, Zenon DEF CountersInv
<1>8. ViewsInv'
  BY <1>1, <1>2, ConsumerAccessViews, Zenon
<1>9. ObjectsInv'
  <2>1. \A n \in tail + 1 .. tail + Capacity - 1 : Slot(n) # Slot(tail) /\ Slot(n) \in Slots
    BY <1>4, SlotDistinct, SlotIsMod, CapacityAssumption
  <2>2. /\ buffer'[Slot(tail)] = Moved
        /\ \A s \in Slots : s # Slot(tail) => buffer'[s] = buffer[s]
    BY <1>2, <1>3, <1>4, Zenon DEF TypeOK
  <2>3. First = tail /\ First' = tail + 1
    BY <1>2, Zenon DEF First
  <2>4. \A n \in First' .. head' - 1 : buffer'[Slot(n)] \in Value
    BY <1>2, <1>3, <1>4, <2>1, <2>2, <2>3, CapacityAssumption DEF ObjectsInv
  <2>5. \A n \in head' .. tail' + Capacity - 1 : buffer'[Slot(n)] = buffer[Slot(n)]
    BY <1>2, <1>4, <2>1, <2>2
  <2>6. ppc' = "publish" => buffer'[Slot(head')] \in Value
    BY <1>2, <1>3, <1>4, <2>5, CapacityAssumption DEF ObjectsInv
  <2>7. QED
    BY <1>2, <1>3, <2>2, <2>4, <2>5, <2>6, Zenon DEF ObjectsInv
<1>10. QED
  BY <1>2, <1>3, <1>6, <1>7, <1>8, <1>9, Zenon DEF IndInv

\* A throwing move assignment leaves the value queued.
LEMMA MoveOutThrowsInv == IndInv /\ MoveOutThrows => IndInv'
<1>1. SUFFICES ASSUME IndInv, MoveOutThrows PROVE IndInv'
  BY Zenon
<1>2. /\ cpc = "move" /\ cpc' = "idle"
      /\ Access("consumer", Slot(tail))
      /\ UNCHANGED <<tail, seenHead, out, head, seenTail, ppc, buffer, alive>>
  BY <1>1, Zenon DEF MoveOutThrows
<1>3. TypeOK /\ CountersInv /\ ObjectsInv /\ alive
  BY <1>1, <1>2, Zenon DEF IndInv, CountersInv
<1>4. TypeOK'
  BY <1>1, <1>2, <1>3, ConsumerAccessTypes, Zenon DEF TypeOK
<1>5. CountersInv'
  BY <1>2, <1>3, Zenon DEF CountersInv
<1>6. ViewsInv'
  BY <1>1, <1>2, ConsumerAccessViews, Zenon
<1>7. ObjectsInv'
  BY <1>2, <1>3, Zenon DEF ObjectsInv, First
<1>8. QED
  BY <1>2, <1>3, <1>4, <1>5, <1>6, <1>7, Zenon DEF IndInv

\* Destroying the moved-from object leaves the slot at tail raw.
LEMMA DestroyInv == IndInv /\ Destroy => IndInv'
<1>1. SUFFICES ASSUME IndInv, Destroy PROVE IndInv'
  BY Zenon
<1>2. /\ cpc = "destroy" /\ cpc' = "retire"
      /\ Access("consumer", Slot(tail))
      /\ buffer' = [buffer EXCEPT ![Slot(tail)] = Raw]
      /\ UNCHANGED <<tail, seenHead, out, head, seenTail, ppc, alive>>
  BY <1>1, Zenon DEF Destroy
<1>3. TypeOK /\ CountersInv /\ ObjectsInv /\ alive
  BY <1>1, <1>2, Zenon DEF IndInv, CountersInv
<1>4. /\ head \in Nat /\ tail \in Nat /\ tail < head /\ head <= tail + Capacity
      /\ ppc # "idle" => head < tail + Capacity
      /\ Slot(tail) \in Slots
  BY <1>2, <1>3, SlotIsMod, CapacityAssumption DEF TypeOK, CountersInv
<1>5. TypeOK'
  BY <1>1, <1>2, <1>3, <1>4, ConsumerAccessTypes, Zenon DEF TypeOK
<1>6. CountersInv'
  BY <1>2, <1>3, Zenon DEF CountersInv
<1>7. ViewsInv'
  BY <1>1, <1>2, ConsumerAccessViews, Zenon
<1>8. ObjectsInv'
  <2>1. \A n \in tail + 1 .. tail + Capacity - 1 : Slot(n) # Slot(tail) /\ Slot(n) \in Slots
    BY <1>4, SlotDistinct, SlotIsMod, CapacityAssumption
  <2>2. /\ buffer'[Slot(tail)] = Raw
        /\ \A s \in Slots : s # Slot(tail) => buffer'[s] = buffer[s]
    BY <1>2, <1>3, <1>4, Zenon DEF TypeOK
  <2>3. First = tail + 1 /\ First' = tail + 1
    BY <1>2, Zenon DEF First
  <2>4. \A n \in First' .. head' - 1 : buffer'[Slot(n)] \in Value
    BY <1>2, <1>3, <1>4, <2>1, <2>2, <2>3, CapacityAssumption DEF ObjectsInv
  <2>5. \A n \in head' .. tail' + Capacity - 1 : buffer'[Slot(n)] = buffer[Slot(n)]
    BY <1>2, <1>4, <2>1, <2>2
  <2>6. ppc' = "publish" => buffer'[Slot(head')] \in Value
    BY <1>2, <1>3, <1>4, <2>5, CapacityAssumption DEF ObjectsInv
  <2>7. QED
    BY <1>2, <1>3, <2>2, <2>4, <2>5, <2>6, Zenon DEF ObjectsInv
<1>9. QED
  BY <1>2, <1>3, <1>5, <1>6, <1>7, <1>8, Zenon DEF IndInv

\* The release store of tail_ carries the slot it frees.
LEMMA PublishTailInv == IndInv /\ PublishTail => IndInv'
<1>1. SUFFICES ASSUME IndInv, PublishTail PROVE IndInv'
  BY Zenon
<1>2. /\ cpc = "retire" /\ cpc' = "idle" /\ tail' = tail + 1
      /\ tailMsgs' = [v \in seenTail .. tail + 1 |->
                        IF v = tail + 1 THEN view["consumer"] ELSE tailMsgs[v]]
      /\ UNCHANGED <<seenHead, out, view, buffer, alive, head, headMsgs, seenTail, ppc>>
  BY <1>1, Zenon DEF PublishTail, producerVars, Release
<1>3. TypeOK /\ CountersInv /\ ViewsInv /\ ObjectsInv /\ alive
  BY <1>1, <1>2, Zenon DEF IndInv, CountersInv
<1>4. /\ head \in Nat /\ tail \in Nat /\ seenHead \in Nat /\ seenTail \in Nat
      /\ seenTail <= tail /\ tail < seenHead /\ seenHead <= head
      /\ head <= seenTail + Capacity
  BY <1>2, <1>3, Zenon DEF TypeOK, CountersInv
<1>5. TypeOK'
  BY <1>2, <1>3, <1>4 DEF TypeOK, Thread
<1>6. CountersInv'
  BY <1>2, <1>3, <1>4, CapacityAssumption DEF CountersInv
<1>7. ViewsInv'
  <2>1. \A n \in head .. tail + Capacity :
          Slot(n) \in view["producer"] \cup view["consumer"]
    BY <1>3, <1>4, SlotIsMod, CapacityAssumption DEF ViewsInv
  <2>2. \A v \in seenTail .. tail + 1 : \A n \in head .. v + Capacity - 1 :
          Slot(n) \in tailMsgs'[v] \cup view["producer"]
    <3>1. SUFFICES ASSUME NEW v \in seenTail .. tail + 1,
                          NEW n \in head .. v + Capacity - 1
                   PROVE  Slot(n) \in tailMsgs'[v] \cup view["producer"]
      BY Zenon
    <3>2. CASE v = tail + 1
      BY <1>2, <1>4, <2>1, <3>2, CapacityAssumption
    <3>3. CASE v \in seenTail .. tail
      BY <1>2, <1>3, <1>4, <3>3 DEF ViewsInv
    <3>4. QED
      BY <1>4, <3>2, <3>3
  <2>3. QED
    BY <1>2, <1>3, <1>4, <2>2, CapacityAssumption DEF ViewsInv
<1>8. ObjectsInv'
  <2>1. First' = First /\ First = tail + 1
    BY <1>2, Zenon DEF First
  <2>2. \A n \in First' .. head' - 1 : buffer'[Slot(n)] \in Value
    BY <1>2, <1>3, <2>1, Zenon DEF ObjectsInv
  <2>3. Slot(tail + Capacity) = Slot(tail)
    <3>1. PICK n \in tail + 1 .. tail + 1 + Capacity - 1 : Slot(n) = Slot(tail)
      BY <1>4, SlotIsMod, SlotCovers
    <3>2. CASE n = tail + Capacity
      BY <3>1, <3>2, Zenon
    <3>3. CASE n \in tail + 1 .. tail + Capacity - 1
      BY <1>4, <3>1, <3>3, SlotDistinct, CapacityAssumption
    <3>4. QED
      BY <1>4, <3>2, <3>3, CapacityAssumption
  <2>4. \A n \in head' .. tail' + Capacity - 1 :
          (ppc' = "publish" /\ n = head') \/ buffer'[Slot(n)] = Raw
    BY <1>2, <1>3, <1>4, <2>3, CapacityAssumption DEF ObjectsInv
  <2>5. QED
    BY <1>2, <1>3, <2>2, <2>4, Zenon DEF ObjectsInv
<1>9. QED
  BY <1>2, <1>3, <1>5, <1>6, <1>7, <1>8, Zenon DEF IndInv

(***************************************************************************)
(* The destructor and the theorem.                                         *)
(***************************************************************************)
LEMMA DestroyRemainingInv == IndInv /\ DestroyRemaining => IndInv'
<1>1. SUFFICES ASSUME IndInv, DestroyRemaining PROVE IndInv'
  BY Zenon
<1>2. /\ alive /\ ppc = "idle" /\ cpc = "idle" /\ alive' = FALSE
      /\ buffer' = [s \in Slots |->
                      IF \E n \in tail .. head - 1 : Slot(n) = s THEN Raw ELSE buffer[s]]
      /\ UNCHANGED <<view, head, headMsgs, seenTail, ppc, tail, tailMsgs, seenHead, cpc, out>>
  BY <1>1, Zenon DEF DestroyRemaining, producerVars, consumerVars
<1>3. TypeOK /\ CountersInv /\ ViewsInv /\ ObjectsInv
  BY <1>1, Zenon DEF IndInv
<1>4. \A s \in Slots : buffer'[s] = Raw
  <2>1. SUFFICES ASSUME NEW s \in Slots PROVE buffer'[s] = Raw
    BY Zenon
  <2>2. tail \in Nat /\ head \in Nat /\ tail <= head
    BY <1>3 DEF TypeOK, CountersInv
  <2>3. PICK n \in tail .. tail + Capacity - 1 : Slot(n) = s
    BY <2>2, SlotCovers, Zenon
  <2>4. CASE n \in tail .. head - 1
    BY <1>2, <2>3, <2>4, Zenon
  <2>5. CASE n \in head .. tail + Capacity - 1
    <3>1. buffer[s] = Raw
      BY <1>2, <1>3, <2>3, <2>5, Zenon DEF ObjectsInv
    <3>2. QED
      BY <1>2, <3>1, Zenon
  <2>6. QED
    BY <2>2, <2>4, <2>5, CapacityAssumption
<1>5. TypeOK'
  BY <1>2, <1>3, <1>4, Zenon DEF TypeOK
<1>6. CountersInv' /\ ViewsInv' /\ ObjectsInv'
  BY <1>2, <1>3, Zenon DEF CountersInv, ViewsInv, ObjectsInv
<1>7. QED
  BY <1>4, <1>5, <1>6, Zenon DEF IndInv

\* Nothing changes, as after the destructor.
LEMMA StutterInv == IndInv /\ UNCHANGED vars => IndInv'
  BY DEF vars, IndInv, TypeOK, CountersInv, ViewsInv, ObjectsInv, First

\* Every step of either thread and of the destructor preserves IndInv.
LEMMA NextIndInv == IndInv /\ [Next]_vars => IndInv'
<1>1. SUFFICES ASSUME IndInv, [Next]_vars PROVE IndInv'
  BY Zenon
<1>2. CASE Producer
  <2>1. CASE LoadTail
    BY <1>1, <2>1, LoadTailInv, Zenon
  <2>2. CASE \E v \in Value : Construct(v)
    BY <1>1, <2>2, ConstructInv, Zenon
  <2>3. CASE ConstructThrows
    BY <1>1, <2>3, ConstructThrowsInv, Zenon
  <2>4. CASE PublishHead
    BY <1>1, <2>4, PublishHeadInv, Zenon
  <2>5. QED
    BY <1>2, <2>1, <2>2, <2>3, <2>4, Zenon DEF Producer
<1>3. CASE Consumer
  <2>1. CASE LoadHead
    BY <1>1, <2>1, LoadHeadInv, Zenon
  <2>2. CASE MoveOut
    BY <1>1, <2>2, MoveOutInv, Zenon
  <2>3. CASE MoveOutThrows
    BY <1>1, <2>3, MoveOutThrowsInv, Zenon
  <2>4. CASE Destroy
    BY <1>1, <2>4, DestroyInv, Zenon
  <2>5. CASE PublishTail
    BY <1>1, <2>5, PublishTailInv, Zenon
  <2>6. QED
    BY <1>3, <2>1, <2>2, <2>3, <2>4, <2>5, Zenon DEF Consumer
<1>4. CASE DestroyRemaining
  BY <1>1, <1>4, DestroyRemainingInv, Zenon
<1>5. CASE UNCHANGED vars
  BY <1>1, <1>5, StutterInv, Zenon
<1>6. QED
  BY <1>1, <1>2, <1>3, <1>4, <1>5, Zenon DEF Next, Destroyed

(***************************************************************************)
(* The inductive invariant holds in every reachable state of the queue.    *)
(***************************************************************************)
THEOREM Invariance == Spec => []IndInv
  BY InitIndInv, NextIndInv, PTL DEF Spec

(***************************************************************************)
(* Counters, messages, slots and program counters keep their types: in     *)
(* particular no thread loads a value the other side never stored.         *)
(***************************************************************************)
THEOREM TypeCorrectness == Spec => []TypeOK
<1>1. IndInv => TypeOK
  BY Zenon DEF IndInv
<1>2. QED
  BY <1>1, Invariance, PTL

\* What the views say of the slots in use.
LEMMA SafeFromViews == IndInv => RaceFree
<1>1. SUFFICES ASSUME IndInv PROVE RaceFree
  BY Zenon
<1>2. TypeOK /\ CountersInv /\ ViewsInv
  BY <1>1, Zenon DEF IndInv
<1>3. ppc = "construct" => Slot(head) \in view["producer"]
  BY <1>2, CapacityAssumption DEF TypeOK, CountersInv, ViewsInv
<1>4. cpc \in {"move", "destroy"} => Slot(tail) \in view["consumer"]
  BY <1>2, CapacityAssumption DEF TypeOK, CountersInv, ViewsInv
<1>5. QED
  BY <1>3, <1>4, Zenon DEF RaceFree

\* What the slots in use hold.
LEMMA LifetimeFromObjects == IndInv => ObjectLifetime
<1>1. SUFFICES ASSUME IndInv PROVE ObjectLifetime
  BY Zenon
<1>2. TypeOK /\ CountersInv /\ ObjectsInv /\ (~alive => \A s \in Slots : buffer[s] = Raw)
  BY <1>1, Zenon DEF IndInv
<1>3. ppc = "construct" => buffer[Slot(head)] = Raw
  BY <1>2, CapacityAssumption DEF TypeOK, CountersInv, ObjectsInv
<1>4. cpc = "destroy" => buffer[Slot(tail)] = Moved
  BY <1>2, Zenon DEF CountersInv, ObjectsInv
<1>5. QED
  BY <1>2, <1>3, <1>4, Zenon DEF ObjectLifetime, ObjectsInv

(***************************************************************************)
(* try_emplace and try_pop never race on a slot, whatever the loads of the *)
(* other side's counter return and however often the counters wrap.        *)
(***************************************************************************)
THEOREM SlotRaceFreedom == Spec => []RaceFree
  BY SafeFromViews, Invariance, PTL

(***************************************************************************)
(* Objects are constructed in raw storage, moved from and destroyed once,  *)
(* and the destructor leaves none behind.                                  *)
(***************************************************************************)
THEOREM SlotLifetime == Spec => []ObjectLifetime
  BY LifetimeFromObjects, Invariance, PTL

(***************************************************************************)
(* Refinement: every step of the ring is a step of the bounded FIFO or     *)
(* leaves it as it is.                                                     *)
(***************************************************************************)
LEMMA MappedCounters ==
  ASSUME IndInv
  PROVE  /\ First \in Nat /\ Elements \in Nat
         /\ FifoHidden \in Nat /\ FifoPending \in Nat
         /\ alive => /\ Elements + FifoHidden = head - seenTail
                     /\ First <= head /\ seenTail <= First
         /\ Len(FifoQueue) = Elements
         /\ FifoQueue \in Seq(Value)
<1>1. TypeOK /\ CountersInv /\ ObjectsInv
  BY Zenon DEF IndInv
<1>2. /\ head \in Nat /\ tail \in Nat /\ seenTail \in Nat /\ seenHead \in Nat
      /\ First \in Nat /\ First <= head /\ seenTail <= First /\ seenHead <= head
  BY <1>1 DEF TypeOK, CountersInv, First
<1>3. Elements \in Nat /\ FifoHidden \in Nat /\ FifoPending \in Nat
  BY <1>2 DEF Elements, FifoHidden, FifoPending
<1>4. \A i \in 1 .. Elements : buffer[Slot(First + i - 1)] \in Value
  BY <1>1, <1>2 DEF Elements, ObjectsInv
<1>5. FifoQueue \in [1 .. Elements -> Value]
  BY <1>4, Zenon DEF FifoQueue
<1>6. Len(FifoQueue) = Elements /\ FifoQueue \in Seq(Value)
  BY <1>3, <1>5
<1>7. QED
  BY <1>2, <1>3, <1>6 DEF Elements, FifoHidden

\* The load of tail_ in try_emplace shows the producer some freed places.
LEMMA LoadTailFifo == IndInv /\ LoadTail => Fifo!ProducerObserve
<1>1. SUFFICES ASSUME IndInv, LoadTail PROVE Fifo!ProducerObserve
  BY Zenon
<1>2. PICK t \in seenTail .. tail : seenTail' = t
  BY <1>1, Zenon DEF LoadTail
<1>3. /\ alive /\ UNCHANGED <<head, buffer, alive, tail, seenHead, cpc, out>>
      /\ seenTail \in Nat /\ tail \in Nat
  BY <1>1, Zenon DEF LoadTail, IndInv, TypeOK
<1>4. First' = First
  BY <1>3, Zenon DEF First
<1>5. FifoQueue' = FifoQueue /\ FifoPending' = FifoPending
  BY <1>3, <1>4, Zenon DEF FifoQueue, FifoPending, Elements
<1>6. FifoHidden' \in 0 .. FifoHidden
  BY <1>2, <1>3 DEF FifoHidden, First
<1>7. QED
  BY <1>3, <1>5, <1>6, Zenon DEF Fifo!ProducerObserve

\* What is in the slot at head is no element of the queue yet.
LEMMA ProducerTouchFifo ==
  ASSUME IndInv, ppc # "idle", NEW x, buffer' = [buffer EXCEPT ![Slot(head)] = x],
         UNCHANGED <<head, seenTail, tail, seenHead, cpc, out, alive>>
  PROVE  UNCHANGED Fifo!fifoVars
<1>1. /\ UNCHANGED <<head, seenTail, tail, seenHead, cpc, out, alive>>
      /\ buffer' = [buffer EXCEPT ![Slot(head)] = x]
      /\ ppc # "idle"
  BY Zenon
<1>2. /\ head \in Nat /\ tail \in Nat /\ First \in Nat /\ tail <= First
      /\ head < tail + Capacity /\ First <= head
      /\ buffer \in [Slots -> Value \cup {Raw, Moved}] /\ alive
  BY <1>1, CapacityAssumption DEF IndInv, TypeOK, CountersInv, First
<1>3. First' = First /\ Elements' = Elements
  BY <1>1 DEF First, Elements
<1>4. \A n \in First .. head - 1 : buffer'[Slot(n)] = buffer[Slot(n)]
  <2>1. \A n \in First .. head - 1 : Slot(n) # Slot(head) /\ Slot(n) \in Slots
    BY <1>2, SlotDistinct, SlotIsMod, CapacityAssumption
  <2>2. QED
    BY <1>1, <1>2, <2>1, Zenon
<1>5. \A i \in 1 .. Elements : buffer'[Slot(First + i - 1)] = buffer[Slot(First + i - 1)]
  BY <1>2, <1>4 DEF Elements
<1>6. FifoQueue' = FifoQueue
  BY <1>3, <1>5, Zenon DEF FifoQueue
<1>7. FifoHidden' = FifoHidden /\ FifoPending' = FifoPending
  BY <1>1, <1>3 DEF FifoHidden, FifoPending
<1>8. QED
  BY <1>1, <1>6, <1>7, Zenon DEF Fifo!fifoVars

\* Steps that change neither the counters nor the slots holding elements.
LEMMA SilentFifo ==
  ASSUME UNCHANGED <<head, seenTail, tail, seenHead, out, buffer, alive>>, First' = First
  PROVE  UNCHANGED Fifo!fifoVars
  BY Zenon DEF Elements, FifoQueue, FifoHidden, FifoPending, Fifo!fifoVars

\* The store of head_ is the moment of the push.
LEMMA PublishHeadFifo == IndInv /\ PublishHead => \E x \in Value : Fifo!Push(x)
<1>1. SUFFICES ASSUME IndInv, PublishHead PROVE \E x \in Value : Fifo!Push(x)
  BY Zenon
<1>2. /\ ppc = "publish" /\ head' = head + 1
      /\ UNCHANGED <<seenTail, buffer, alive, tail, seenHead, cpc, out>>
  BY <1>1, Zenon DEF PublishHead, consumerVars
<1>3. /\ head \in Nat /\ seenTail \in Nat /\ seenHead \in Nat /\ alive
      /\ head < seenTail + Capacity /\ seenHead <= head
      /\ buffer[Slot(head)] \in Value
  BY <1>1, <1>2, Zenon DEF IndInv, TypeOK, CountersInv, ObjectsInv
<1>4. /\ First \in Nat /\ Elements \in Nat /\ FifoHidden \in Nat
      /\ Elements + FifoHidden = head - seenTail /\ First <= head
      /\ Len(FifoQueue) = Elements /\ FifoQueue \in Seq(Value)
  BY <1>1, <1>3, MappedCounters, Zenon
<1>5. First' = First /\ Elements' = Elements + 1 /\ First + Elements = head
  BY <1>2, <1>3, <1>4 DEF First, Elements
<1>6. Len(FifoQueue) + FifoHidden < Capacity
  BY <1>3, <1>4, CapacityAssumption
<1>7. FifoQueue' = Append(FifoQueue, buffer[Slot(head)])
  <2>1. FifoQueue' = [i \in 1 .. Elements + 1 |-> buffer[Slot(First + i - 1)]]
    BY <1>2, <1>5, Zenon DEF FifoQueue
  <2>2. Append(FifoQueue, buffer[Slot(head)]) =
          [i \in 1 .. Elements + 1 |->
             IF i = Elements + 1 THEN buffer[Slot(head)] ELSE FifoQueue[i]]
    BY <1>3, <1>4
  <2>3. \A i \in 1 .. Elements + 1 :
          buffer[Slot(First + i - 1)] =
            IF i = Elements + 1 THEN buffer[Slot(head)] ELSE FifoQueue[i]
    <3>1. SUFFICES ASSUME NEW i \in 1 .. Elements + 1
                   PROVE  buffer[Slot(First + i - 1)] =
                            IF i = Elements + 1 THEN buffer[Slot(head)] ELSE FifoQueue[i]
      BY Zenon
    <3>2. CASE i = Elements + 1
      <4>1. First + i - 1 = head
        BY <1>4, <1>5, <3>2
      <4>2. QED
        BY <3>2, <4>1, Zenon
    <3>3. CASE i # Elements + 1
      <4>1. i \in 1 .. Elements
        BY <1>4, <3>3
      <4>2. QED
        BY <3>3, <4>1, Zenon DEF FifoQueue
    <3>4. QED
      BY <3>2, <3>3, Zenon
  <2>4. QED
    BY <2>1, <2>2, <2>3, Zenon
<1>8. FifoPending' = FifoPending + 1 /\ FifoHidden' = FifoHidden
  BY <1>2, <1>3, <1>5 DEF FifoPending, FifoHidden
<1>9. QED
  BY <1>2, <1>3, <1>6, <1>7, <1>8, Zenon DEF Fifo!Push

\* The load of head_ in try_pop shows the consumer some stored elements.
LEMMA LoadHeadFifo == IndInv /\ LoadHead => Fifo!ConsumerObserve
<1>1. SUFFICES ASSUME IndInv, LoadHead PROVE Fifo!ConsumerObserve
  BY Zenon
<1>2. PICK h \in seenHead .. head :
        /\ seenHead' = h
        /\ cpc' = IF Word(tail) = Word(h) THEN "idle" ELSE "move"
  BY <1>1, Zenon DEF LoadHead
<1>3. /\ alive /\ cpc = "idle"
      /\ UNCHANGED <<tail, out, buffer, alive, head, seenTail>>
      /\ seenHead \in Nat /\ head \in Nat
  BY <1>1, Zenon DEF LoadHead, IndInv, TypeOK
<1>4. First' = First
  BY <1>2, <1>3, Zenon DEF First
<1>5. FifoQueue' = FifoQueue /\ FifoHidden' = FifoHidden
  BY <1>3, <1>4, Zenon DEF FifoQueue, FifoHidden, Elements
<1>6. FifoPending' \in 0 .. FifoPending
  BY <1>2, <1>3 DEF FifoPending
<1>7. QED
  BY <1>3, <1>5, <1>6, Zenon DEF Fifo!ConsumerObserve

\* A non-empty sequence without its first element, as a function.
LEMMA TailAsFunction ==
  ASSUME NEW q \in Seq(Value), Len(q) > 0
  PROVE  Tail(q) = [i \in 1 .. Len(q) - 1 |-> q[i + 1]]
<1>1. /\ Tail(q) \in Seq(Value) /\ Len(Tail(q)) = Len(q) - 1
      /\ \A i \in 1 .. Len(q) - 1 : Tail(q)[i] = q[i + 1]
  OBVIOUS
<1>2. PICK u : u = Tail(q)
  BY Zenon
<1>3. u \in [1 .. Len(u) -> Value]
  <2>1. u \in Seq(Value)
    BY <1>1, <1>2, Zenon
  <2>2. QED
    BY <2>1
<1>4. u = [i \in 1 .. Len(u) |-> u[i]]
  BY <1>3, Zenon
<1>5. QED
  BY <1>1, <1>2, <1>4, Zenon

\* Moving the object out is the moment of the pop.
LEMMA MoveOutFifo == IndInv /\ MoveOut => Fifo!Pop
<1>1. SUFFICES ASSUME IndInv, MoveOut PROVE Fifo!Pop
  BY Zenon
<1>2. /\ cpc = "move" /\ cpc' = "destroy"
      /\ out' = buffer[Slot(tail)]
      /\ buffer' = [buffer EXCEPT ![Slot(tail)] = Moved]
      /\ UNCHANGED <<tail, seenHead, head, seenTail, alive>>
  BY <1>1, Zenon DEF MoveOut
<1>3. /\ head \in Nat /\ tail \in Nat /\ seenHead \in Nat /\ seenTail \in Nat /\ alive
      /\ tail < seenHead /\ seenHead <= head /\ head <= tail + Capacity
      /\ buffer \in [Slots -> Value \cup {Raw, Moved}]
  BY <1>1, <1>2, CapacityAssumption DEF IndInv, TypeOK, CountersInv
<1>4. /\ Elements \in Nat /\ Len(FifoQueue) = Elements /\ FifoQueue \in Seq(Value)
  BY <1>1, MappedCounters, Zenon
<1>5. First = tail /\ First' = tail + 1 /\ Elements = head - tail /\ Elements' = head - tail - 1
  BY <1>2, <1>3 DEF First, Elements
<1>6. FifoPending < Len(FifoQueue) /\ FifoPending' = FifoPending /\ FifoHidden' = FifoHidden + 1
  BY <1>2, <1>3, <1>4, <1>5 DEF FifoPending, FifoHidden
<1>7. out' = Head(FifoQueue)
  <2>1. FifoQueue[1] = buffer[Slot(tail)]
    <3>1. 1 \in 1 .. Elements /\ First + 1 - 1 = tail
      BY <1>3, <1>5
    <3>2. QED
      BY <3>1, Zenon DEF FifoQueue
  <2>2. QED
    BY <1>2, <1>3, <1>4, <1>5, <2>1
<1>8. FifoQueue' = Tail(FifoQueue)
  <2>1. \A n \in tail + 1 .. head - 1 : buffer'[Slot(n)] = buffer[Slot(n)]
    <3>1. \A n \in tail + 1 .. head - 1 : Slot(n) # Slot(tail) /\ Slot(n) \in Slots
      BY <1>3, SlotDistinct, SlotIsMod, CapacityAssumption
    <3>2. QED
      BY <1>2, <1>3, <3>1, Zenon
  <2>2. Tail(FifoQueue) = [i \in 1 .. Elements - 1 |-> FifoQueue[i + 1]]
    <3>1. PICK q : q = FifoQueue
      BY Zenon
    <3>2. q \in Seq(Value) /\ Len(q) = Elements /\ Len(q) > 0 /\ q # <<>>
      BY <1>3, <1>4, <1>5, <3>1
    <3>3. Tail(q) = [i \in 1 .. Len(q) - 1 |-> q[i + 1]]
      BY <3>2, TailAsFunction, Zenon
    <3>4. QED
      BY <3>1, <3>2, <3>3, Zenon
  <2>3. \A i \in 1 .. Elements - 1 : FifoQueue[i + 1] = buffer'[Slot(tail + 1 + i - 1)]
    <3>1. SUFFICES ASSUME NEW i \in 1 .. Elements - 1
                   PROVE  FifoQueue[i + 1] = buffer'[Slot(tail + 1 + i - 1)]
      BY Zenon
    <3>2. /\ i + 1 \in 1 .. Elements /\ First + (i + 1) - 1 = tail + i
          /\ tail + 1 + i - 1 = tail + i /\ tail + i \in tail + 1 .. head - 1
      BY <1>3, <1>4, <1>5
    <3>3. FifoQueue[i + 1] = buffer[Slot(tail + i)]
      BY <3>2, Zenon DEF FifoQueue
    <3>4. QED
      BY <2>1, <3>2, <3>3, Zenon
  <2>4. FifoQueue' = [i \in 1 .. Elements - 1 |-> buffer'[Slot(tail + 1 + i - 1)]]
    BY <1>5, Zenon DEF FifoQueue
  <2>5. QED
    BY <2>2, <2>3, <2>4, Zenon
<1>9. QED
  BY <1>6, <1>7, <1>8, Zenon DEF Fifo!Pop

\* Destroying a moved-from object changes no element.
LEMMA DestroyFifo == IndInv /\ Destroy => UNCHANGED Fifo!fifoVars
<1>1. SUFFICES ASSUME IndInv, Destroy PROVE UNCHANGED Fifo!fifoVars
  BY Zenon
<1>2. /\ cpc = "destroy" /\ cpc' = "retire"
      /\ buffer' = [buffer EXCEPT ![Slot(tail)] = Raw]
      /\ UNCHANGED <<tail, seenHead, out, head, seenTail, alive>>
  BY <1>1, Zenon DEF Destroy
<1>3. /\ head \in Nat /\ tail \in Nat /\ alive /\ head <= tail + Capacity
      /\ tail < head /\ buffer \in [Slots -> Value \cup {Raw, Moved}]
  BY <1>1, <1>2, CapacityAssumption DEF IndInv, TypeOK, CountersInv
<1>4. First = tail + 1 /\ First' = tail + 1 /\ Elements' = Elements /\ Elements = head - tail - 1
  BY <1>2, <1>3 DEF First, Elements
<1>5. \A i \in 1 .. Elements : buffer'[Slot(First + i - 1)] = buffer[Slot(First + i - 1)]
  <2>1. \A n \in tail + 1 .. head - 1 : Slot(n) # Slot(tail) /\ Slot(n) \in Slots
    BY <1>3, SlotDistinct, SlotIsMod, CapacityAssumption
  <2>2. \A n \in tail + 1 .. head - 1 : buffer'[Slot(n)] = buffer[Slot(n)]
    BY <1>2, <1>3, <2>1, Zenon
  <2>3. QED
    BY <1>3, <1>4, <2>2
<1>6. FifoQueue' = FifoQueue
  BY <1>4, <1>5, Zenon DEF FifoQueue
<1>7. QED
  BY <1>2, <1>4, <1>6, Zenon DEF FifoHidden, FifoPending, Fifo!fifoVars

\* The store of tail_ changes no element: the place was freed by the move.
LEMMA PublishTailFifo == IndInv /\ PublishTail => UNCHANGED Fifo!fifoVars
<1>1. SUFFICES ASSUME IndInv, PublishTail PROVE UNCHANGED Fifo!fifoVars
  BY Zenon
<1>2. /\ cpc = "retire" /\ cpc' = "idle" /\ tail' = tail + 1
      /\ UNCHANGED <<seenHead, out, buffer, alive, head, seenTail>>
  BY <1>1, Zenon DEF PublishTail, producerVars
<1>3. First' = First
  BY <1>2, Zenon DEF First
<1>4. QED
  BY <1>2, <1>3, Zenon DEF Elements, FifoQueue, FifoHidden, FifoPending, Fifo!fifoVars

\* The destructor drops what is queued.
LEMMA DestroyRemainingFifo == IndInv /\ DestroyRemaining => Fifo!Drop
<1>1. SUFFICES ASSUME IndInv, DestroyRemaining PROVE Fifo!Drop
  BY Zenon
<1>2. alive' = FALSE /\ out' = out
  BY <1>1, Zenon DEF DestroyRemaining, consumerVars
<1>3. FifoHidden' = 0 /\ FifoPending' = 0 /\ Elements' = 0
  BY <1>2, Zenon DEF FifoHidden, FifoPending, Elements
<1>4. FifoQueue' = <<>>
  BY <1>3 DEF FifoQueue
<1>5. QED
  BY <1>2, <1>3, <1>4, Zenon DEF Fifo!Drop

\* An empty ring is an empty queue.
LEMMA InitFifo == Init => Fifo!FifoInit
<1>1. SUFFICES ASSUME Init PROVE Fifo!FifoInit
  BY Zenon
<1>2. Elements = 0 /\ FifoHidden = 0 /\ FifoPending = 0 /\ out = Raw
  <2>1. head = 0 /\ tail = 0 /\ seenHead = 0 /\ seenTail = 0 /\ cpc = "idle" /\ out = Raw
    BY <1>1, Zenon DEF Init
  <2>2. First = 0
    BY <2>1, Zenon DEF First
  <2>3. QED
    BY <2>1, <2>2 DEF Elements, FifoHidden, FifoPending
<1>3. FifoQueue = <<>>
  BY <1>2 DEF FifoQueue
<1>4. QED
  BY <1>2, <1>3, Zenon DEF Fifo!FifoInit

\* Every step of the ring is a step of the queue or changes nothing of it.
LEMMA NextFifo == IndInv /\ [Next]_vars => [Fifo!FifoNext]_(Fifo!fifoVars)
<1>1. SUFFICES ASSUME IndInv, [Next]_vars
               PROVE  Fifo!FifoNext \/ UNCHANGED Fifo!fifoVars
  BY Zenon
<1>2. CASE LoadTail
  BY <1>1, <1>2, LoadTailFifo, Zenon DEF Fifo!FifoNext
<1>3. CASE \E v \in Value : Construct(v)
  BY <1>1, <1>3, ProducerTouchFifo, Zenon DEF Construct
<1>4. CASE ConstructThrows
  BY <1>4, SilentFifo, Zenon DEF ConstructThrows, First
<1>5. CASE PublishHead
  BY <1>1, <1>5, PublishHeadFifo, Zenon DEF Fifo!FifoNext
<1>6. CASE LoadHead
  BY <1>1, <1>6, LoadHeadFifo, Zenon DEF Fifo!FifoNext
<1>7. CASE MoveOut
  BY <1>1, <1>7, MoveOutFifo, Zenon DEF Fifo!FifoNext
<1>8. CASE MoveOutThrows
  BY <1>8, SilentFifo, Zenon DEF MoveOutThrows, First
<1>9. CASE Destroy
  BY <1>1, <1>9, DestroyFifo, Zenon
<1>10. CASE PublishTail
  BY <1>1, <1>10, PublishTailFifo, Zenon
<1>11. CASE DestroyRemaining
  BY <1>1, <1>11, DestroyRemainingFifo, Zenon DEF Fifo!FifoNext
<1>12. CASE UNCHANGED vars
  BY <1>12, SilentFifo, Zenon DEF vars, First
<1>13. QED
  BY <1>1, <1>2, <1>3, <1>4, <1>5, <1>6, <1>7, <1>8, <1>9, <1>10, <1>11, <1>12, Zenon
     DEF Next, Producer, Consumer, Destroyed

(***************************************************************************)
(* Every behaviour of try_emplace, try_pop and the destructor, with stale  *)
(* counter loads and wrapping counters, is one of the bounded FIFO.        *)
(***************************************************************************)
THEOREM Refinement == Spec => ImplementsFifo
<1>1. Init => Fifo!FifoInit
  BY InitFifo, Zenon
<1>2. IndInv /\ [Next]_vars => [Fifo!FifoNext]_(Fifo!fifoVars)
  BY NextFifo, Zenon
<1>3. QED
  BY <1>1, <1>2, Invariance, PTL DEF Spec, ImplementsFifo, Fifo!FifoSpec

-----------------------------------------------------------------------------
(***************************************************************************)
(* The queries of the ring: what an owner is told stays true until it      *)
(* acts, and size_approx() is in range.  Both rest on QueriesInv, the      *)
(* ring's own inductive invariant with what each query may rely on.        *)
(***************************************************************************)
\* The counters, as numbers.
LEMMA QueryNumbers ==
  ASSUME QueriesInv
  PROVE  /\ head \in Nat /\ tail \in Nat /\ seenHead \in Nat /\ seenTail \in Nat
         /\ oldHead \in Nat /\ oldTail \in Nat /\ Capacity \in Nat
         /\ seenTail <= tail /\ tail <= seenHead /\ seenHead <= head
         /\ head <= seenTail + Capacity /\ oldHead <= head /\ oldTail <= tail
         /\ answer.head \in Nat /\ answer.tail \in Nat
BY CapacityAssumption
DEF QueriesInv, IndInv, TypeOK, CountersInv, KnowledgeInv, AnswerInv

\* At the start nobody asks and nothing was answered.
LEMMA QueriesInitInv == QueriesInit => QueriesInv
<1>1. SUFFICES ASSUME QueriesInit PROVE QueriesInv
  BY Zenon
<1>2. IndInv
  BY <1>1, InitIndInv, Zenon DEF QueriesInit
<1>3. QED
  BY <1>1, <1>2, CapacityAssumption
  DEF QueriesInit, QueriesInv, AskerInv, KnowledgeInv, AnswerInv, Init, NoAnswer, Askers

(***************************************************************************)
(* The first load of a query.                                              *)
(***************************************************************************)
LEMMA ProducerAsksInv == QueriesInv /\ ProducerAsks => QueriesInv'
<1>1. SUFFICES ASSUME QueriesInv, ProducerAsks PROVE QueriesInv'
  BY Zenon
<1>2. IndInv' /\ UNCHANGED vars
  BY <1>1, StutterInv, Zenon DEF QueriesInv, ProducerAsks
<1>3. AskerInv' /\ KnowledgeInv' /\ AnswerInv'
  BY <1>1, <1>2
  DEF QueriesInv, AskerInv, KnowledgeInv, AnswerInv, ProducerAsks, QueryStarts,
      knowledgeVars, vars, Askers
<1>4. QED
  BY <1>2, <1>3, Zenon DEF QueriesInv

\* The first load of a query by the consumer.
LEMMA ConsumerAsksInv == QueriesInv /\ ConsumerAsks => QueriesInv'
<1>1. SUFFICES ASSUME QueriesInv, ConsumerAsks PROVE QueriesInv'
  BY Zenon
<1>2. PICK h \in seenHead .. head :
        /\ QueryStarts("consumer", h)
        /\ seenHead' = h
        /\ headMsgs' = [v \in h .. head |-> headMsgs[v]]
        /\ Acquire("consumer", headMsgs[h])
  BY <1>1, Zenon DEF ConsumerAsks
<1>3. /\ UNCHANGED <<head, tail, tailMsgs, seenTail, buffer, out, ppc, cpc, alive, oldHead, oldTail>>
      /\ cpc = "idle" /\ alive
  BY <1>1, <1>2, Zenon DEF ConsumerAsks, QueryStarts
<1>4. IndInv'
  BY <1>1, <1>2, <1>3, ConsumerLoadInv, Zenon DEF QueriesInv
<1>5. /\ asker' = "consumer" /\ qhead' = h
      /\ UNCHANGED <<answer, knewTail, knewHead>>
  BY <1>2, Zenon DEF QueryStarts, knowledgeVars
<1>6. AskerInv'
  BY <1>2, <1>3, <1>5, Zenon DEF AskerInv, Askers
<1>7. KnowledgeInv'
  BY <1>1, <1>3, <1>5, Zenon DEF QueriesInv, KnowledgeInv
<1>8. AnswerInv'
  BY <1>1, <1>2, <1>3, <1>5, QueryNumbers DEF QueriesInv, AnswerInv
<1>9. QED
  BY <1>4, <1>6, <1>7, <1>8, Zenon DEF QueriesInv

\* What the third thread reads of head_ bounds how far back it may read tail_.
LEMMA ObserverAsksInv == QueriesInv /\ ObserverAsks => QueriesInv'
<1>1. SUFFICES ASSUME QueriesInv, ObserverAsks PROVE QueriesInv'
  BY Zenon
<1>2. PICK h \in oldHead .. head :
        /\ QueryStarts("observer", h)
        /\ oldHead' = h
        /\ oldTail' = Larger(oldTail, knewTail[h])
  BY <1>1, Zenon DEF ObserverAsks
<1>3. IndInv' /\ UNCHANGED vars
  BY <1>1, StutterInv, Zenon DEF QueriesInv, ObserverAsks
<1>4. /\ asker' = "observer" /\ qhead' = h /\ alive
      /\ UNCHANGED <<answer, knewTail, knewHead>>
  BY <1>2, Zenon DEF QueryStarts, knowledgeVars
<1>5. h \in 0 .. head /\ knewTail[h] \in 0 .. tail /\ h <= knewTail[h] + Capacity
  <2>1. h \in 0 .. head
    BY <1>1, QueryNumbers
  <2>2. QED
    BY <1>1, <2>1, Zenon DEF QueriesInv, KnowledgeInv
<1>6. oldTail' \in 0 .. tail /\ h <= oldTail' + Capacity
  BY <1>1, <1>2, <1>5, QueryNumbers DEF Larger
<1>7. AskerInv'
  BY <1>3, <1>4, <1>5, <1>6, Zenon DEF AskerInv, vars, Askers
<1>8. KnowledgeInv'
  BY <1>1, <1>2, <1>3, <1>4, <1>5, <1>6, Zenon DEF QueriesInv, KnowledgeInv, vars
<1>9. AnswerInv'
  BY <1>1, <1>3, <1>4, Zenon DEF QueriesInv, AnswerInv, vars
<1>10. QED
  BY <1>3, <1>7, <1>8, <1>9, Zenon DEF QueriesInv

(***************************************************************************)
(* The second load, and the answer.                                        *)
(***************************************************************************)
LEMMA ProducerAnsweredInv == QueriesInv /\ ProducerAnswered => QueriesInv'
<1>1. SUFFICES ASSUME QueriesInv, ProducerAnswered PROVE QueriesInv'
  BY Zenon
<1>2. PICK n \in seenTail .. tail :
        /\ QueryEnds("producer", n)
        /\ seenTail' = n
        /\ tailMsgs' = [v \in n .. tail |-> tailMsgs[v]]
        /\ Acquire("producer", tailMsgs[n])
  BY <1>1, Zenon DEF ProducerAnswered
<1>3. /\ UNCHANGED <<head, tail, headMsgs, seenHead, buffer, out, ppc, cpc, alive, oldHead, oldTail>>
      /\ asker = "producer" /\ asker' = "none"
      /\ answer' = [by |-> "producer", head |-> qhead, tail |-> n]
      /\ UNCHANGED <<knewTail, knewHead>>
  BY <1>1, <1>2, Zenon DEF ProducerAnswered, QueryEnds, knowledgeVars
<1>4. alive /\ ppc = "idle" /\ qhead = head
  BY <1>1, <1>3, Zenon DEF QueriesInv, AskerInv
<1>5. IndInv'
  BY <1>1, <1>2, <1>3, <1>4, ProducerLoadInv, Zenon DEF QueriesInv
<1>6. n \in Nat /\ n <= head /\ head <= n + Capacity /\ head \in Nat
  BY <1>1, <1>2, QueryNumbers
<1>7. AskerInv'
  BY <1>3, Zenon DEF AskerInv
<1>8. KnowledgeInv'
  BY <1>1, <1>3, Zenon DEF QueriesInv, KnowledgeInv
<1>9. AnswerInv'
  BY <1>2, <1>3, <1>4, <1>6 DEF AnswerInv, Askers
<1>10. QED
  BY <1>5, <1>7, <1>8, <1>9, Zenon DEF QueriesInv

\* The second load of a query by the consumer, and its answer.
LEMMA ConsumerAnsweredInv == QueriesInv /\ ConsumerAnswered => QueriesInv'
<1>1. SUFFICES ASSUME QueriesInv, ConsumerAnswered PROVE QueriesInv'
  BY Zenon
<1>2. IndInv' /\ UNCHANGED vars
  BY <1>1, StutterInv, Zenon DEF QueriesInv, ConsumerAnswered
<1>3. /\ UNCHANGED <<oldHead, oldTail, knewTail, knewHead>>
      /\ asker = "consumer" /\ asker' = "none"
      /\ answer' = [by |-> "consumer", head |-> qhead, tail |-> tail]
  BY <1>1, Zenon DEF ConsumerAnswered, QueryEnds, knowledgeVars
<1>4. qhead = seenHead
  BY <1>1, <1>3, Zenon DEF QueriesInv, AskerInv
<1>5. tail <= seenHead /\ seenHead <= tail + Capacity /\ tail \in Nat /\ seenHead \in Nat
  BY <1>1, QueryNumbers
<1>6. AskerInv' /\ KnowledgeInv'
  BY <1>1, <1>2, <1>3, Zenon DEF QueriesInv, AskerInv, KnowledgeInv, vars
<1>7. AnswerInv'
  BY <1>2, <1>3, <1>4, <1>5 DEF AnswerInv, vars, Askers
<1>8. QED
  BY <1>2, <1>6, <1>7, Zenon DEF QueriesInv

\* The second load of a query by a third thread, and its answer.
LEMMA ObserverAnsweredInv == QueriesInv /\ ObserverAnswered => QueriesInv'
<1>1. SUFFICES ASSUME QueriesInv, ObserverAnswered PROVE QueriesInv'
  BY Zenon
<1>2. PICK n \in oldTail .. tail :
        /\ QueryEnds("observer", n)
        /\ oldTail' = n
        /\ oldHead' = Larger(oldHead, knewHead[n])
  BY <1>1, Zenon DEF ObserverAnswered
<1>3. IndInv' /\ UNCHANGED vars
  BY <1>1, StutterInv, Zenon DEF QueriesInv, ObserverAnswered
<1>4. /\ asker = "observer" /\ asker' = "none"
      /\ answer' = [by |-> "observer", head |-> qhead, tail |-> n]
      /\ UNCHANGED <<knewTail, knewHead>>
  BY <1>2, Zenon DEF QueryEnds, knowledgeVars
<1>5. n \in 0 .. tail /\ qhead \in Nat /\ qhead <= n + Capacity
  <2>1. qhead \in 0 .. head /\ qhead <= oldTail + Capacity
    BY <1>1, <1>4, Zenon DEF QueriesInv, AskerInv
  <2>2. QED
    BY <1>1, <2>1, QueryNumbers
<1>6. knewHead[n] \in 0 .. head
  BY <1>1, <1>5, Zenon DEF QueriesInv, KnowledgeInv
<1>7. oldHead' \in 0 .. head
  BY <1>1, <1>2, <1>6, QueryNumbers DEF Larger
<1>8. AskerInv'
  BY <1>4, Zenon DEF AskerInv
<1>9. KnowledgeInv'
  BY <1>1, <1>2, <1>3, <1>4, <1>5, <1>7, Zenon DEF QueriesInv, KnowledgeInv, vars
<1>10. AnswerInv'
  BY <1>4, <1>5 DEF AnswerInv, Askers
<1>11. QED
  BY <1>3, <1>8, <1>9, <1>10, Zenon DEF QueriesInv

(***************************************************************************)
(* The ring's own steps.                                                   *)
(***************************************************************************)

\* A step of the producer moves only head_ and what the producer has seen.
LEMMA ProducerEffect ==
  ASSUME QueriesInv, Producer
  PROVE  /\ UNCHANGED <<tail, seenHead, cpc, alive>>
         /\ seenTail' \in Nat /\ seenTail <= seenTail'
         /\ \/ head' = head
            \/ head' = head + 1 /\ head + 1 <= seenTail + Capacity
<1>1. CASE LoadTail
  BY <1>1, QueryNumbers DEF LoadTail
<1>2. CASE \E v \in Value : Construct(v)
  BY <1>2, QueryNumbers DEF Construct
<1>3. CASE ConstructThrows
  BY <1>3, QueryNumbers DEF ConstructThrows
<1>4. CASE PublishHead
  <2>1. head + 1 <= seenTail + Capacity
    BY <1>4, QueryNumbers DEF PublishHead, QueriesInv, IndInv, CountersInv
  <2>2. QED
    BY <1>4, <2>1, QueryNumbers DEF PublishHead, consumerVars
<1>5. QED
  BY <1>1, <1>2, <1>3, <1>4, Zenon DEF Producer

\* A step of the consumer moves only tail_ and what the consumer has seen.
LEMMA ConsumerEffect ==
  ASSUME QueriesInv, Consumer
  PROVE  /\ UNCHANGED <<head, seenTail, ppc, alive>>
         /\ seenHead' \in Nat /\ seenHead <= seenHead'
         /\ tail' = tail \/ tail' = tail + 1
<1>1. CASE LoadHead
  BY <1>1, QueryNumbers DEF LoadHead
<1>2. CASE MoveOut
  BY <1>2, QueryNumbers DEF MoveOut
<1>3. CASE MoveOutThrows
  BY <1>3, QueryNumbers DEF MoveOutThrows
<1>4. CASE Destroy
  BY <1>4, QueryNumbers DEF Destroy
<1>5. CASE PublishTail
  BY <1>5, QueryNumbers DEF PublishTail, producerVars
<1>6. QED
  BY <1>1, <1>2, <1>3, <1>4, <1>5, Zenon DEF Consumer

\* A step of the ring while a query is in progress.
LEMMA QueueStepInv == QueriesInv /\ QueueStep => QueriesInv'
<1>1. SUFFICES ASSUME QueriesInv, QueueStep PROVE QueriesInv'
  BY Zenon
<1>2. IndInv'
  BY <1>1, NextIndInv, Zenon DEF QueriesInv, QueueStep, Next
<1>3. /\ knewTail' = [v \in 0 .. head' |-> IF v \in DOMAIN knewTail THEN knewTail[v] ELSE seenTail]
      /\ knewHead' = [v \in 0 .. tail' |-> IF v \in DOMAIN knewHead THEN knewHead[v] ELSE seenHead]
      /\ UNCHANGED <<asker, qhead, answer, oldHead, oldTail>>
  BY <1>1, Zenon DEF QueueStep, queryVars
<1>4. /\ \A v \in 0 .. head : knewTail[v] \in 0 .. tail /\ v <= knewTail[v] + Capacity
      /\ \A v \in 0 .. tail : knewHead[v] \in 0 .. head
      /\ oldHead \in 0 .. head /\ oldTail \in 0 .. tail
  BY <1>1, Zenon DEF QueriesInv, KnowledgeInv
<1>5. /\ \A v \in 0 .. head' : knewTail'[v] = IF v \in 0 .. head THEN knewTail[v] ELSE seenTail
      /\ \A v \in 0 .. tail' : knewHead'[v] = IF v \in 0 .. tail THEN knewHead[v] ELSE seenHead
  <2>1. DOMAIN knewTail = 0 .. head /\ DOMAIN knewHead = 0 .. tail
    BY <1>1, Zenon DEF QueriesInv, KnowledgeInv
  <2>2. QED
    BY <1>3, <2>1, Zenon
<1>6. /\ head \in Nat /\ tail \in Nat /\ seenHead \in Nat /\ seenTail \in Nat /\ Capacity \in Nat
      /\ seenTail <= tail /\ tail <= seenHead /\ seenHead <= head
  BY <1>1, QueryNumbers, Zenon
<1>7. SUFFICES AskerInv' /\ AnswerInv'
               /\ (\A v \in 0 .. head' : knewTail'[v] \in 0 .. tail' /\ v <= knewTail'[v] + Capacity)
               /\ (\A v \in 0 .. tail' : knewHead'[v] \in 0 .. head')
               /\ oldHead \in 0 .. head' /\ oldTail \in 0 .. tail'
  BY <1>2, <1>3, Zenon DEF QueriesInv, KnowledgeInv
<1>8. CASE Producer /\ asker # "producer"
  <2>1. /\ tail' = tail /\ UNCHANGED <<seenHead, cpc, alive>>
        /\ seenTail' \in Nat /\ seenTail <= seenTail'
        /\ \/ head' = head
           \/ head' = head + 1 /\ head + 1 <= seenTail + Capacity
    BY <1>1, <1>8, ProducerEffect, Zenon
  <2>2. AskerInv'
    BY <1>1, <1>3, <1>8, <2>1, QueryNumbers DEF QueriesInv, AskerInv
  <2>3. AnswerInv'
    BY <1>1, <1>3, <2>1, QueryNumbers DEF QueriesInv, AnswerInv
  <2>4. ASSUME NEW v \in 0 .. head'
        PROVE  knewTail'[v] \in 0 .. tail' /\ v <= knewTail'[v] + Capacity
    BY <1>4, <1>5, <1>6, <2>1
  <2>5. ASSUME NEW v \in 0 .. tail' PROVE knewHead'[v] \in 0 .. head'
    BY <1>4, <1>5, <1>6, <2>1
  <2>6. oldHead \in 0 .. head' /\ oldTail \in 0 .. tail'
    BY <1>4, <1>6, <2>1
  <2>7. QED
    BY <2>2, <2>3, <2>4, <2>5, <2>6, Zenon
<1>9. CASE Consumer /\ asker # "consumer"
  <2>1. /\ head' = head /\ UNCHANGED <<seenTail, ppc, alive>>
        /\ seenHead' \in Nat /\ seenHead <= seenHead'
        /\ tail' = tail \/ tail' = tail + 1
    BY <1>1, <1>9, ConsumerEffect, Zenon
  <2>2. AskerInv'
    BY <1>1, <1>3, <1>9, <2>1, QueryNumbers, Zenon DEF QueriesInv, AskerInv
  <2>3. AnswerInv'
    BY <1>1, <1>3, <2>1, QueryNumbers DEF QueriesInv, AnswerInv
  <2>4. ASSUME NEW v \in 0 .. head'
        PROVE  knewTail'[v] \in 0 .. tail' /\ v <= knewTail'[v] + Capacity
    BY <1>4, <1>5, <1>6, <2>1
  <2>5. ASSUME NEW v \in 0 .. tail' PROVE knewHead'[v] \in 0 .. head'
    BY <1>4, <1>5, <1>6, <2>1
  <2>6. oldHead \in 0 .. head' /\ oldTail \in 0 .. tail'
    BY <1>4, <1>6, <2>1
  <2>7. QED
    BY <2>2, <2>3, <2>4, <2>5, <2>6, Zenon
<1>10. CASE (DestroyRemaining /\ asker = "none") \/ Destroyed
  <2>1. /\ UNCHANGED <<head, tail, seenHead, seenTail, ppc, cpc>>
        /\ asker # "none" => UNCHANGED alive
    BY <1>10, Zenon DEF DestroyRemaining, Destroyed, vars, producerVars, consumerVars
  <2>2. AskerInv' /\ AnswerInv'
    BY <1>1, <1>3, <2>1, Zenon DEF QueriesInv, AskerInv, AnswerInv
  <2>3. QED
    BY <1>4, <1>5, <2>1, <2>2, Zenon
<1>11. QED
  BY <1>1, <1>8, <1>9, <1>10, Zenon DEF QueueStep

\* Every step of the ring with its queries keeps the invariant.
LEMMA QueriesNextInv == QueriesInv /\ [QueriesNext]_allVars => QueriesInv'
<1>1. SUFFICES ASSUME QueriesInv, UNCHANGED allVars PROVE QueriesInv'
  BY ProducerAsksInv, ConsumerAsksInv, ObserverAsksInv, ProducerAnsweredInv,
     ConsumerAnsweredInv, ObserverAnsweredInv, QueueStepInv, Zenon DEF QueriesNext
<1>2. IndInv' /\ UNCHANGED vars
  BY <1>1, StutterInv, Zenon DEF QueriesInv, allVars
<1>3. QED
  BY <1>1, <1>2
  DEF QueriesInv, AskerInv, KnowledgeInv, AnswerInv, allVars, vars, queryVars, knowledgeVars

(***************************************************************************)
(* The inductive invariant holds of every interleaving of the queries with *)
(* try_emplace, try_pop and the destructor.                                *)
(***************************************************************************)
THEOREM QueriesInvariance == QueriesSpec => []QueriesInv
  BY QueriesInitInv, QueriesNextInv, PTL DEF QueriesSpec

(***************************************************************************)
(* After full() told the producer there is room its next try_push          *)
(* succeeds, and after empty() told the consumer there is an element its   *)
(* next try_pop does, for every Capacity and however often the counters    *)
(* wrap.                                                                   *)
(***************************************************************************)
THEOREM AnswersLast == QueriesSpec => []AnswerLasts
<1>1. QueriesInv => AnswerLasts
  <2>1. SUFFICES ASSUME QueriesInv PROVE AnswerLasts
    BY Zenon
  <2>2. ASSUME answer.by = "producer", answer.head = head, ~full(answer),
               NEW t \in seenTail .. tail
        PROVE  ~Full(Word(head), Word(t))
    <3>1. answer.tail <= seenTail /\ answer.tail <= head /\ head <= answer.tail + Capacity
      BY <2>1, <2>2, Zenon DEF QueriesInv, AnswerInv
    <3>2. ~Full(Word(head), Word(answer.tail))
      BY <2>2, Zenon DEF full, size_approx, Full
    <3>3. head # answer.tail + Capacity
      BY <2>1, <3>1, <3>2, QueryNumbers, WrappedTests, Zenon
    <3>4. t \in Nat /\ t <= head /\ head < t + Capacity
      BY <2>1, <3>1, <3>3, QueryNumbers
    <3>5. QED
      BY <2>1, <3>4, QueryNumbers, WrappedTests
  <2>3. ASSUME answer.by = "consumer", answer.tail = tail, ~empty(answer),
               NEW h \in seenHead .. head
        PROVE  Word(h) # Word(tail)
    <3>1. answer.head <= seenHead /\ tail <= answer.head
      BY <2>1, <2>3, Zenon DEF QueriesInv, AnswerInv
    <3>2. answer.head # tail
      BY <2>3, Zenon DEF empty
    <3>3. h \in Nat /\ tail < h /\ h <= tail + Capacity
      BY <2>1, <3>1, <3>2, QueryNumbers
    <3>4. QED
      BY <2>1, <3>3, QueryNumbers, WrappedTests
  <2>4. QED
    BY <2>2, <2>3, Zenon DEF AnswerLasts
<1>2. QED
  BY <1>1, QueriesInvariance, PTL

(***************************************************************************)
(* size_approx() never exceeds Capacity, except to a third thread whose    *)
(* load of head_ the consumer has overtaken.                               *)
(***************************************************************************)
THEOREM SizeStaysInRange == QueriesSpec => []SizeInRange
<1>1. QueriesInv => SizeInRange
  <2>1. SUFFICES ASSUME QueriesInv, answer.tail <= answer.head
                 PROVE  size_approx(answer) <= Capacity
    BY QueryNumbers DEF SizeInRange, QueriesInv, AnswerInv
  <2>2. answer.head <= answer.tail + Capacity
    BY <2>1, Zenon DEF QueriesInv, AnswerInv
  <2>3. size_approx(answer) = answer.head - answer.tail
    BY <2>1, <2>2, QueryNumbers, WrappedSize, Zenon DEF size_approx
  <2>4. QED
    BY <2>1, <2>2, <2>3, QueryNumbers
<1>2. QED
  BY <1>1, QueriesInvariance, PTL

=============================================================================
