----------------------------- MODULE WalProofs -----------------------------
(***************************************************************************)
(* Proofs about the write-ahead log, for files, pages, payloads and        *)
(* numbers of appends of any size.                                         *)
(***************************************************************************)
EXTENDS Wal, WellFoundedInduction, TLAPS

(***************************************************************************)
(* Sequences.                                                              *)
(***************************************************************************)

\* The subsequence from first to last element.
LEMMA SubSeqWhole ==
  ASSUME NEW S, NEW s \in Seq(S)
  PROVE  SubSeq(s, 1, Len(s)) = s
OBVIOUS

(***************************************************************************)
(* Induction, over sets of numbers.                                        *)
(***************************************************************************)

\* A set of natural numbers that is not empty has a least element.
LEMMA LeastElement ==
  ASSUME NEW T \in SUBSET Nat, T # {}
  PROVE  \E n \in T : \A m \in T : n <= m
<1>1. PICK x \in T : \A y \in T : ~ (<<y, x>> \in OpToRel(<, Nat))
  BY WFMin, NatLessThanWellFounded, Zenon
<1>2. \A y \in T : <<y, x>> \in OpToRel(<, Nat) <=> y < x
  BY Zenon DEF OpToRel
<1>3. \A y \in T : ~(y < x)
  BY <1>1, <1>2, Zenon
<1>4. \A y \in T : x <= y
  BY <1>3
<1>5. QED
  BY <1>4, Zenon

\* A set that holds 0, and with every number the next one, holds all.
LEMMA SetInduction ==
  ASSUME NEW T, 0 \in T, \A n \in Nat : n \in T => n + 1 \in T
  PROVE  \A n \in Nat : n \in T
<1>1. SUFFICES ASSUME NEW k \in Nat, k \notin T PROVE FALSE
  BY Zenon
<1>2. PICK n \in Nat \ T : \A m \in Nat \ T : n <= m
  BY <1>1, LeastElement, Zenon
<1>3. n # 0 /\ n - 1 \in Nat /\ n - 1 \in T
  BY <1>2
<1>4. QED
  BY <1>3

(***************************************************************************)
(* The cells of a record.                                                  *)
(***************************************************************************)

\* The cells of a header are not zero, except the size of an empty payload.
LEMMA CellFacts ==
  /\ SizeOf(Zero) = 0 /\ Zero[1] = "zero"
  /\ \A n \in Nat : SizeOf(SizeCell(n)) = n
  /\ \A n \in Nat : SizeCell(n) = Zero => n = 0
  /\ \A n, m, p : Checksum(n, m, p) # Zero
  /\ \A n, m, p : Checksum(n, m, p)[1] = "crc" /\ SizeOf(Checksum(n, m, p)) = n
  /\ \A n1, m1, p1, n2, m2, p2 :
       Checksum(n1, m1, p1) = Checksum(n2, m2, p2) => n1 = n2 /\ m1 = m2 /\ p1 = p2
  /\ \A r : MetaCell(r)[2] = r.sequence /\ MetaCell(r)[3] = r.timestamp /\ MetaCell(r) # Zero
BY Zenon DEF SizeOf, Zero, SizeCell, Checksum, MetaCell

\* The cells of a run of m cells from c on, counted from 1.
LEMMA CellIndex ==
  \A c, m \in Nat : \A j \in 1 .. m : c + j - 1 \in c .. c + m - 1 /\ (c + j - 1) - c + 1 = j
OBVIOUS

\* The parts of a record that may be written, and the cells it takes.
LEMMA RecordFacts ==
  ASSUME NEW r \in Writable
  PROVE  /\ r = [sequence |-> r.sequence, timestamp |-> r.timestamp, payload |-> r.payload]
         /\ r.sequence \in 0 .. MaxAttempts /\ r.timestamp \in 1 .. MaxAttempts
         /\ r.payload \in Payload /\ r.payload \in Seq(Range(r.payload))
         /\ Len(r.payload) \in 0 .. MaxPayload
         /\ \A k \in 1 .. Len(r.payload) : SizeOf(r.payload[k]) \in Nat
         /\ Total(r) = HeaderCells + Len(r.payload)
         /\ Total(r) \in Nat /\ Total(r) >= 4
<1>1. r \in Record /\ Len(r.payload) <= MaxPayload
  BY Zenon DEF Writable
<1>2. r.payload \in Payload /\ r.payload \in Seq(Range(r.payload))
  BY <1>1, PayloadAssumption, Zenon DEF Record
<1>3. \A k \in 1 .. Len(r.payload) : SizeOf(r.payload[k]) \in Nat
  BY <1>2, PayloadAssumption DEF SizeOf
<1>4. Total(r) = HeaderCells + Len(r.payload) /\ HeaderCells = 4
  BY Zenon DEF Total, record_total_size, HeaderCells
<1>5. QED
  BY <1>1, <1>2, <1>3, <1>4 DEF Record

\* The cells of a record: four of the header, then the payload.
LEMMA SerializeCells ==
  ASSUME NEW r \in Writable
  PROVE  /\ serialize(r)[1] = <<"magic", 1>>
         /\ serialize(r)[2] = SizeCell(Len(r.payload))
         /\ serialize(r)[3] = MetaCell(r)
         /\ serialize(r)[4] = Checksum(Len(r.payload), MetaCell(r), r.payload)
         /\ \A k \in 1 .. Len(r.payload) : serialize(r)[HeaderCells + k] = r.payload[k]
<1> DEFINE h == <<<<"magic", 1>>, SizeCell(Len(r.payload)), MetaCell(r),
                  Checksum(Len(r.payload), MetaCell(r), r.payload)>>
           p == r.payload
           S == Range(p) \cup {h[1], h[2], h[3], h[4]}
<1>1. serialize(r) = h \o p
  BY Zenon DEF serialize
<1>2. h \in Seq(S) /\ Len(h) = 4
  OBVIOUS
<1>3. p \in Seq(S) /\ Len(p) \in Nat
  <2>1. p \in Seq(Range(p)) /\ Range(p) \subseteq S /\ Len(p) \in Nat
    BY RecordFacts
  <2>2. QED
    BY <2>1
<1>4. \A i \in 1 .. Len(h) + Len(p) : (h \o p)[i] = IF i <= Len(h) THEN h[i] ELSE p[i - Len(h)]
  <2> HIDE DEF h, p, S
  <2> QED
    OBVIOUS
<1>5. \A i \in 1 .. 4 : serialize(r)[i] = h[i]
  <2> HIDE DEF h, p, S
  <2>1. \A i \in 1 .. 4 : i \in 1 .. Len(h) + Len(p) /\ i <= Len(h)
    BY <1>2, <1>3
  <2>2. QED
    BY <2>1, <1>1, <1>4, Zenon
<1>6. \A k \in 1 .. Len(p) : serialize(r)[HeaderCells + k] = p[k]
  <2> HIDE DEF h, p, S
  <2>1. \A k \in 1 .. Len(p) : 4 + k \in 1 .. Len(h) + Len(p) /\ ~(4 + k <= 4) /\ (4 + k) - 4 = k
    BY <1>2
  <2>2. QED
    BY <2>1, <1>1, <1>2, <1>4, Zenon DEF HeaderCells
<1>7. QED
  BY <1>5, <1>6

(***************************************************************************)
(* Reading a file.  Any cell, read as a payload size, is a number.         *)
(***************************************************************************)
IsFile(f) == \A i \in Offsets : SizeOf(f[i]) \in Nat

\* A next() that returns a record moves to a later offset in the file.
LEMMA NextAdvances ==
  ASSUME NEW f, IsFile(f), NEW o \in 0 .. FileSize, HeaderStatus(f, o) = "ok"
  PROVE  /\ SizeOf(HeaderAt(f, o)[2]) \in Nat
         /\ NextOffset(o, HeaderAt(f, o)) \in o + 4 .. FileSize
<1> DEFINE h == HeaderAt(f, o)
<1>1. /\ ~(FileSize - o < HeaderCells)
      /\ ~(record_total_size(SizeOf(h[2])) > FileSize - o)
  BY Zenon DEF HeaderStatus
<1>2. o + 1 \in Offsets /\ h[2] = f[o + 1]
  <2>1. 2 \in 1 .. HeaderCells /\ o + 2 - 1 = o + 1
    BY DEF HeaderCells
  <2>2. h[2] = f[o + 2 - 1]
    BY <2>1, Zenon DEF HeaderAt
  <2>3. QED
    BY <1>1, <2>2, SizeAssumption DEF Offsets, HeaderCells
<1>3. SizeOf(h[2]) \in Nat
  BY <1>2, Zenon DEF IsFile
<1>4. NextOffset(o, h) = o + (4 + SizeOf(h[2]))
  BY Zenon DEF NextOffset, record_total_size, HeaderCells
<1>5. ~(4 + SizeOf(h[2]) > FileSize - o)
  BY <1>1, Zenon DEF record_total_size, HeaderCells
<1>6. QED
  <2> HIDE DEF h
  <2>1. o + (4 + SizeOf(h[2])) \in o + 4 .. FileSize
    BY <1>3, <1>5, SizeAssumption
  <2>2. QED
    BY <1>3, <1>4, <2>1, Zenon DEF h

\* next() returns a record when the header and then the payload pass.
LEMMA StatusOk ==
  ASSUME NEW f, NEW o, NextStatus(f, o) = "ok"
  PROVE  HeaderStatus(f, o) = "ok" /\ PayloadStatus(f, o, HeaderAt(f, o)) = "ok"
BY Zenon DEF NextStatus

\* ReplayFrom satisfies the equation that defines it.
LEMMA ReplayEquation ==
  ASSUME NEW f, IsFile(f), NEW o \in 0 .. FileSize
  PROVE  ReplayFrom(f)[o] =
           IF NextStatus(f, o) # "ok"
             THEN [records |-> <<>>, status |-> NextStatus(f, o), end |-> o]
             ELSE [ReplayFrom(f)[NextOffset(o, HeaderAt(f, o))]
                     EXCEPT !.records = <<NextRecord(f, o, HeaderAt(f, o))>> \o @]
<1> DEFINE next(x) == NextOffset(x, HeaderAt(f, x))
           Def(g, x) == IF NextStatus(f, x) # "ok"
                          THEN [records |-> <<>>, status |-> NextStatus(f, x), end |-> x]
                          ELSE [g[next(x)]
                                  EXCEPT !.records = <<NextRecord(f, x, HeaderAt(f, x))>> \o @]
           Solves(g, k) == \A x \in 0 .. FileSize : x + k > FileSize => g[x] = Def(g, x)
           T == {k \in Nat : \E g : Solves(g, k)}
<1>1. \A x \in 0 .. FileSize : NextStatus(f, x) = "ok" => next(x) \in x + 4 .. FileSize
  BY NextAdvances, StatusOk, Zenon
<1>2. \A g1, g2 : \A x \in 0 .. FileSize :
        (NextStatus(f, x) = "ok" => g1[next(x)] = g2[next(x)]) => Def(g1, x) = Def(g2, x)
  BY Zenon
<1>3. ASSUME NEW g, NEW k \in Nat, Solves(g, k)
      PROVE  Solves([x \in 0 .. FileSize |-> Def(g, x)], k + 1)
  <2> DEFINE gg == [x \in 0 .. FileSize |-> Def(g, x)]
  <2>1. \A x \in 0 .. FileSize : gg[x] = Def(g, x)
    <3> HIDE DEF Def
    <3> QED
      BY Zenon
  <2> HIDE DEF gg, Def, next
  <2>2. ASSUME NEW x \in 0 .. FileSize, x + (k + 1) > FileSize
        PROVE  gg[x] = Def(gg, x)
    <3>1. ASSUME NextStatus(f, x) = "ok" PROVE gg[next(x)] = g[next(x)]
      <4>1. next(x) \in x + 4 .. FileSize
        BY <1>1, <3>1, Zenon
      <4>2. next(x) \in 0 .. FileSize /\ next(x) + k > FileSize
        BY <4>1, <2>2, SizeAssumption
      <4>3. QED
        BY <4>2, <2>1, <1>3, Zenon
    <3>2. Def(gg, x) = Def(g, x)
      BY <3>1, <1>2, Zenon
    <3>3. QED
      BY <3>2, <2>1, Zenon
  <2>3. QED
    BY <2>2, Zenon DEF gg
<1>4. 0 \in T
  <2>1. \A x \in 0 .. FileSize : ~(x + 0 > FileSize)
    BY SizeAssumption
  <2>2. Solves(0, 0)
    BY <2>1, Zenon
  <2> HIDE DEF Solves
  <2>3. QED
    BY <2>2, Zenon
<1>5. ASSUME NEW k \in Nat, k \in T PROVE k + 1 \in T
  <2> HIDE DEF Solves, Def
  <2>1. PICK g : Solves(g, k)
    BY <1>5, Zenon
  <2>2. Solves([x \in 0 .. FileSize |-> Def(g, x)], k + 1)
    BY <2>1, <1>3, Zenon
  <2>3. QED
    BY <2>2
<1>6. FileSize + 1 \in T
  <2> HIDE DEF T
  <2> QED
    BY <1>4, <1>5, SetInduction, SizeAssumption, Zenon
<1>7. PICK g : Solves(g, FileSize + 1)
  <2> HIDE DEF Solves
  <2> QED
    BY <1>6, Zenon
<1>8. \E h : h = [x \in 0 .. FileSize |-> Def(h, x)]
  <2> DEFINE gg == [x \in 0 .. FileSize |-> Def(g, x)]
  <2>1. \A x \in 0 .. FileSize : gg[x] = Def(g, x)
    <3> HIDE DEF Def
    <3> QED
      BY Zenon
  <2>2. \A x \in 0 .. FileSize : g[x] = Def(g, x)
    <3> HIDE DEF Def
    <3>1. \A x \in 0 .. FileSize : x + (FileSize + 1) > FileSize
      BY SizeAssumption
    <3>2. QED
      BY <1>7, <3>1, Zenon
  <2> HIDE DEF next
  <2>3. \A x \in 0 .. FileSize : Def(gg, x) = Def(g, x)
    <3> HIDE DEF Def, gg
    <3>1. \A x \in 0 .. FileSize : NextStatus(f, x) = "ok" => next(x) \in 0 .. FileSize
      BY <1>1
    <3>2. QED
      BY <1>2, <2>1, <2>2, <3>1
  <2>4. gg = [x \in 0 .. FileSize |-> Def(gg, x)]
    <3> HIDE DEF Def
    <3> QED
      BY <2>3, Zenon
  <2> HIDE DEF gg
  <2>5. QED
    BY <2>4, Zenon
<1>9. ReplayFrom(f) = CHOOSE h : h = [x \in 0 .. FileSize |-> Def(h, x)]
  BY Zenon DEF ReplayFrom
<1>10. ReplayFrom(f) = [x \in 0 .. FileSize |-> Def(ReplayFrom(f), x)]
  <2> HIDE DEF Def
  <2> QED
    BY <1>8, <1>9, Zenon
<1>11. ReplayFrom(f)[o] = Def(ReplayFrom(f), o)
  <2> HIDE DEF Def
  <2> QED
    BY <1>10, Zenon
<1>12. QED
  BY <1>11, Zenon

(***************************************************************************)
(* Where the records of a sequence start.                                  *)
(***************************************************************************)
LEMMA StartEquation ==
  ASSUME NEW s \in Seq(Writable)
  PROVE  /\ Start(s)[0] = 0
         /\ \A k \in 1 .. Len(s) : Start(s)[k] = Start(s)[k - 1] + Total(s[k])
<1> DEFINE Def(g, x) == IF x = 0 THEN 0 ELSE g[x - 1] + Total(s[x])
           Solves(g, k) == \A x \in 0 .. Len(s) : x < k => g[x] = Def(g, x)
           T == {k \in Nat : \E g : Solves(g, k)}
<1>1. 0 \in T
  <2>1. Solves(0, 0)
    OBVIOUS
  <2> HIDE DEF Solves
  <2>2. QED
    BY <2>1, Zenon
<1>2. ASSUME NEW k \in Nat, k \in T PROVE k + 1 \in T
  <2> HIDE DEF Solves, Def
  <2>1. PICK g : Solves(g, k)
    BY <1>2, Zenon
  <2>2. Solves([x \in 0 .. Len(s) |-> Def(g, x)], k + 1)
    BY <2>1
  <2>3. QED
    BY <2>2
<1>3. Len(s) + 1 \in T
  <2> HIDE DEF T
  <2> QED
    BY <1>1, <1>2, SetInduction
<1>4. PICK g : Solves(g, Len(s) + 1)
  <2> HIDE DEF Solves
  <2> QED
    BY <1>3, Zenon
<1>5. \E h : h = [x \in 0 .. Len(s) |-> Def(h, x)]
  <2> DEFINE gg == [x \in 0 .. Len(s) |-> Def(g, x)]
  <2>1. gg = [x \in 0 .. Len(s) |-> Def(gg, x)]
    <3> HIDE DEF Def
    <3> QED
      OBVIOUS
  <2> HIDE DEF gg
  <2>2. QED
    BY <2>1, Zenon
<1>6. Start(s) = [x \in 0 .. Len(s) |-> Def(Start(s), x)]
  <2> HIDE DEF Def
  <2> QED
    BY <1>5
<1>7. \A x \in 0 .. Len(s) : Start(s)[x] = Def(Start(s), x)
  <2> HIDE DEF Def
  <2> QED
    BY <1>6, Zenon
<1>8. QED
  BY <1>7

\* Records do not overlap.
LEMMA StartOrder ==
  ASSUME NEW s \in Seq(Writable)
  PROVE  /\ \A k \in 0 .. Len(s) : Start(s)[k] \in Nat
         /\ \A k \in 0 .. Len(s), m \in 0 .. Len(s) :
              k < m => Start(s)[k] + Total(s[k + 1]) <= Start(s)[m]
<1> DEFINE st == Start(s)
           T == {m \in Nat : m <= Len(s) =>
                   /\ st[m] \in Nat
                   /\ \A k \in 0 .. Len(s) : k < m => st[k] \in Nat /\ st[k] + Total(s[k + 1]) <= st[m]}
<1>1. st[0] = 0 /\ \A k \in 1 .. Len(s) : st[k] = st[k - 1] + Total(s[k])
  BY StartEquation, Zenon
<1>2. \A k \in 1 .. Len(s) : s[k] \in Writable /\ Total(s[k]) \in Nat
  <2>1. \A k \in 1 .. Len(s) : s[k] \in Writable
    OBVIOUS
  <2>2. QED
    BY <2>1, RecordFacts, Zenon
<1> HIDE DEF st
<1>3. 0 \in T
  BY <1>1
<1>4. ASSUME NEW m \in Nat, m \in T PROVE m + 1 \in T
  <2>1. SUFFICES ASSUME m + 1 <= Len(s)
                 PROVE  /\ st[m + 1] \in Nat
                        /\ \A k \in 0 .. Len(s) : k < m + 1 =>
                             st[k] \in Nat /\ st[k] + Total(s[k + 1]) <= st[m + 1]
    OBVIOUS
  <2>2. /\ m <= Len(s) /\ m + 1 \in 1 .. Len(s) /\ (m + 1) - 1 = m
        /\ Total(s[m + 1]) \in Nat
    BY <2>1, <1>2
  <2>3. /\ st[m] \in Nat
        /\ \A k \in 0 .. Len(s) : k < m => st[k] \in Nat /\ st[k] + Total(s[k + 1]) <= st[m]
    BY <1>4, <2>2, Zenon
  <2>4. st[m + 1] = st[m] + Total(s[m + 1])
    BY <1>1, <2>2, Zenon
  <2>5. ASSUME NEW k \in 0 .. Len(s), k < m + 1
        PROVE  st[k] \in Nat /\ st[k] + Total(s[k + 1]) <= st[m + 1]
    <3>1. CASE k = m
      BY <3>1, <2>2, <2>3, <2>4
    <3>2. CASE k < m
      <4>1. k + 1 \in 1 .. Len(s) /\ Total(s[k + 1]) \in Nat
        BY <3>2, <2>2, <1>2
      <4>2. st[k] \in Nat /\ st[k] + Total(s[k + 1]) <= st[m]
        BY <3>2, <2>3, Zenon
      <4>3. QED
        BY <4>1, <4>2, <2>2, <2>3, <2>4
    <3>3. QED
      BY <2>5, <3>1, <3>2
  <2>6. QED
    BY <2>2, <2>4, <2>5
<1>5. \A m \in Nat : m \in T
  <2> HIDE DEF T
  <2> QED
    BY <1>3, <1>4, SetInduction, Zenon
<1>6. QED
  BY <1>5 DEF st

\* The starts of the first n records depend on these only.
LEMMA StartAgree ==
  ASSUME NEW s \in Seq(Writable), NEW t \in Seq(Writable), NEW n \in Nat,
         n <= Len(s), n <= Len(t), \A k \in 1 .. n : s[k] = t[k]
  PROVE  \A k \in 0 .. n : Start(s)[k] = Start(t)[k]
<1> DEFINE T == {k \in Nat : k <= n => Start(s)[k] = Start(t)[k]}
<1>1. 0 \in T
  BY StartEquation, Zenon
<1>2. ASSUME NEW k \in Nat, k \in T PROVE k + 1 \in T
  <2>1. SUFFICES ASSUME k + 1 <= n PROVE Start(s)[k + 1] = Start(t)[k + 1]
    OBVIOUS
  <2>2. k <= n /\ k + 1 \in 1 .. n /\ k + 1 \in 1 .. Len(s) /\ k + 1 \in 1 .. Len(t)
        /\ (k + 1) - 1 = k
    BY <2>1
  <2>3. Start(s)[k] = Start(t)[k] /\ s[k + 1] = t[k + 1]
    BY <1>2, <2>2, Zenon
  <2>4. QED
    BY <2>2, <2>3, StartEquation, Zenon
<1>3. \A k \in Nat : k \in T
  <2> HIDE DEF T
  <2> QED
    BY <1>1, <1>2, SetInduction, Zenon
<1>4. QED
  BY <1>3

(***************************************************************************)
(* What next() makes of the cells it finds.                                *)
(***************************************************************************)
LEMMA HeaderAtCells ==
  ASSUME NEW f, NEW o
  PROVE  /\ \A j \in 1 .. HeaderCells : HeaderAt(f, o)[j] = f[o + j - 1]
         /\ \A j \in {1, 2, 3, 4} : j \in 1 .. HeaderCells
         /\ HeaderAt(f, o) # <<>>
BY DEF HeaderAt, HeaderCells

\* The four cells of a header are the four cells of the file there.
LEMMA HeaderAtEach ==
  ASSUME NEW f, NEW o
  PROVE  \A j \in {1, 2, 3, 4} : HeaderAt(f, o)[j] = f[o + j - 1]
BY HeaderAtCells

\* The payload is in the file when all its cells are.
LEMMA PayloadAtCells ==
  ASSUME NEW f, NEW o \in Nat, NEW r \in Writable
  PROVE  PayloadAt(f, o, Len(r.payload)) = r.payload <=>
           \A j \in 1 .. Total(r) : j > 4 => f[o + j - 1] = serialize(r)[j]
<1> DEFINE n == Len(r.payload)
           P == PayloadAt(f, o, n)
<1>1. n \in Nat /\ Total(r) = 4 + n /\ r.payload = [k \in 1 .. n |-> r.payload[k]]
  BY RecordFacts DEF HeaderCells
<1>2. P = [k \in 1 .. n |-> f[o + 4 + k - 1]]
  BY Zenon DEF PayloadAt, HeaderCells
<1>3. \A k \in 1 .. n : P[k] = f[o + 4 + k - 1] /\ serialize(r)[4 + k] = r.payload[k]
  BY <1>2, SerializeCells, Zenon DEF HeaderCells
<1>4. ASSUME \A j \in 1 .. Total(r) : j > 4 => f[o + j - 1] = serialize(r)[j]
      PROVE  P = r.payload
  <2>1. ASSUME NEW k \in 1 .. n PROVE P[k] = r.payload[k]
    <3>1. 4 + k \in 1 .. Total(r) /\ 4 + k > 4 /\ o + (4 + k) - 1 = o + 4 + k - 1
      BY <1>1
    <3>2. QED
      BY <3>1, <1>3, <1>4, Zenon
  <2>2. QED
    <3> HIDE DEF n, P
    <3> QED
      BY <2>1, <1>1, <1>2, Zenon
<1>5. ASSUME P = r.payload, NEW j \in 1 .. Total(r), j > 4
      PROVE  f[o + j - 1] = serialize(r)[j]
  <2>1. j - 4 \in 1 .. n /\ 4 + (j - 4) = j /\ o + 4 + (j - 4) - 1 = o + j - 1
    BY <1>1, <1>5
  <2>2. P[j - 4] = r.payload[j - 4]
    BY <1>5, Zenon
  <2>3. P[j - 4] = f[o + j - 1] /\ serialize(r)[j] = r.payload[j - 4]
    <3> HIDE DEF n, P
    <3> QED
      BY <2>1, <1>3, Zenon
  <2>4. QED
    BY <2>2, <2>3, Zenon
<1>6. QED
  BY <1>4, <1>5, Zenon

\* A record that is in the file is read, and next() moves behind it.
LEMMA NextOfLaid ==
  ASSUME NEW f, NEW o \in Nat, NEW r \in Writable, o + Total(r) <= FileSize, Laid(f, o, r)
  PROVE  /\ NextStatus(f, o) = "ok"
         /\ NextRecord(f, o, HeaderAt(f, o)) = r
         /\ NextOffset(o, HeaderAt(f, o)) = o + Total(r)
<1> DEFINE h == HeaderAt(f, o)
           n == Len(r.payload)
<1>1. /\ n \in Nat /\ n <= MaxPayload /\ Total(r) = 4 + n /\ Total(r) \in Nat
      /\ r = [sequence |-> r.sequence, timestamp |-> r.timestamp, payload |-> r.payload]
  BY RecordFacts DEF HeaderCells
<1>2. \A j \in {1, 2, 3, 4} : h[j] = serialize(r)[j] /\ f[o + j - 1] = serialize(r)[j]
  <2>1. \A j \in {1, 2, 3, 4} : j \in 1 .. Total(r)
    BY <1>1
  <2>2. \A j \in {1, 2, 3, 4} : h[j] = f[o + j - 1]
    BY HeaderAtEach, Zenon
  <2>3. QED
    BY <2>1, <2>2, Zenon DEF Laid
<1>3. /\ h[1] = <<"magic", 1>> /\ h[2] = SizeCell(n) /\ h[3] = MetaCell(r)
      /\ h[4] = Checksum(n, MetaCell(r), r.payload)
  BY <1>2, SerializeCells, Zenon
<1>4. SizeOf(h[2]) = n
  BY <1>3, CellFacts
<1>5. h[3][2] = r.sequence /\ h[3][3] = r.timestamp
  BY <1>3, CellFacts, Zenon
<1>6. PayloadAt(f, o, n) = r.payload
  <2>1. \A j \in 1 .. Total(r) : j > 4 => f[o + j - 1] = serialize(r)[j]
    BY Zenon DEF Laid
  <2>2. QED
    BY <2>1, PayloadAtCells, Zenon
<1>7. ~is_zero_filled(f, o)
  <2>1. o \in o .. FileSize - 1 /\ o + 1 - 1 = o
    BY <1>1, SizeAssumption
  <2>2. f[o] = <<"magic", 1>>
    BY <1>2, SerializeCells
  <2>3. <<"magic", 1>> # Zero
    BY Zenon DEF Zero
  <2>4. QED
    BY <2>1, <2>2, <2>3, Zenon DEF is_zero_filled
<1>8. validate_header_shape(h)
  BY <1>1, <1>3, <1>4 DEF validate_header_shape
<1>9. HeaderStatus(f, o) = "ok"
  <2>1. ~(FileSize - o < 4) /\ ~(4 + n > FileSize - o)
    BY <1>1, SizeAssumption
  <2>2. ~(record_total_size(SizeOf(h[2])) > FileSize - o)
    BY <2>1, <1>4, Zenon DEF record_total_size, HeaderCells
  <2>3. QED
    BY <2>1, <2>2, <1>7, <1>8, Zenon DEF HeaderStatus, HeaderCells
<1>10. PayloadStatus(f, o, h) = "ok"
  BY <1>3, <1>4, <1>6, Zenon DEF PayloadStatus, validate_record_checksum
<1>11. NextRecord(f, o, h) = r
  BY <1>1, <1>4, <1>5, <1>6, Zenon DEF NextRecord
<1>12. NextOffset(o, h) = o + Total(r)
  BY <1>1, <1>4, Zenon DEF NextOffset, record_total_size, HeaderCells
<1>13. QED
  BY <1>9, <1>10, <1>11, <1>12, Zenon DEF NextStatus

\* A header whose cells are those of r, or not yet written, passes the checksum
\* only if they are all written, and then the payload is that of r.
LEMMA OkMeansRead ==
  ASSUME NEW f, NEW o \in Nat, NEW r \in Writable, NEW h,
         \A j \in {1, 3, 4} : h[j] \in {Zero, serialize(r)[j]},
         h[2] \in {Zero, serialize(r)[2]},
         PayloadStatus(f, o, h) = "ok"
  PROVE  /\ \A j \in {2, 3, 4} : h[j] = serialize(r)[j]
         /\ PayloadAt(f, o, Len(r.payload)) = r.payload
         /\ NextRecord(f, o, h) = r
         /\ NextOffset(o, h) = o + Total(r)
<1> DEFINE n == Len(r.payload)
           p == PayloadAt(f, o, SizeOf(h[2]))
<1>1. h[4] = Checksum(SizeOf(h[2]), h[3], p)
  BY Zenon DEF PayloadStatus, validate_record_checksum
<1>2. h[4] = serialize(r)[4] /\ serialize(r)[4] = Checksum(n, MetaCell(r), r.payload)
  BY <1>1, CellFacts, SerializeCells
<1>3. SizeOf(h[2]) = n /\ h[3] = MetaCell(r) /\ p = r.payload
  <2>1. Checksum(SizeOf(h[2]), h[3], p) = Checksum(n, MetaCell(r), r.payload)
    BY <1>1, <1>2, Zenon
  <2> HIDE DEF p, n
  <2>2. QED
    BY <2>1, Zenon DEF Checksum
<1>4. h[2] = serialize(r)[2]
  <2>1. CASE h[2] = Zero
    <3>1. n = 0
      BY <2>1, <1>3, CellFacts, Zenon
    <3>2. QED
      BY <3>1, SerializeCells, Zenon DEF SizeCell
  <2>2. QED
    BY <2>1, Zenon
<1>5. h[3][2] = r.sequence /\ h[3][3] = r.timestamp
  BY <1>3, CellFacts, Zenon
<1>6. r = [sequence |-> r.sequence, timestamp |-> r.timestamp, payload |-> r.payload]
  BY RecordFacts, Zenon
<1>7. NextRecord(f, o, h) = r
  BY <1>3, <1>5, <1>6, Zenon DEF NextRecord
<1>8. NextOffset(o, h) = o + Total(r)
  BY <1>3, Zenon DEF NextOffset, Total
<1>9. QED
  BY <1>2, <1>3, <1>4, <1>7, <1>8, SerializeCells, Zenon

\* A place where not all of r is written is not read.
LEMMA PartlyNotRead ==
  ASSUME NEW f, NEW o \in Nat, NEW r \in Writable, o + Total(r) <= FileSize,
         Partly(f, o, r), NextStatus(f, o) = "ok"
  PROVE  Laid(f, o, r)
<1> DEFINE h == HeaderAt(f, o)
<1>1. /\ HeaderStatus(f, o) = "ok" /\ PayloadStatus(f, o, h) = "ok"
      /\ Total(r) \in Nat /\ Total(r) >= 4
  BY StatusOk, RecordFacts, Zenon
<1>2. \A j \in {1, 2, 3, 4} : j \in 1 .. Total(r) /\ h[j] = f[o + j - 1]
  <2>1. \A j \in {1, 2, 3, 4} : j \in 1 .. Total(r)
    BY <1>1
  <2>2. \A j \in {1, 2, 3, 4} : h[j] = f[o + j - 1]
    BY HeaderAtEach, Zenon
  <2> HIDE DEF h
  <2>3. QED
    BY <2>1, <2>2, Zenon
<1>3. \A j \in {1, 2, 3, 4} : h[j] \in {Zero, serialize(r)[j]}
  BY <1>2, Zenon DEF Partly
<1>4. /\ \A j \in {2, 3, 4} : h[j] = serialize(r)[j]
      /\ PayloadAt(f, o, Len(r.payload)) = r.payload
  <2> HIDE DEF h
  <2> QED
    BY <1>1, <1>3, OkMeansRead
<1>5. h[1] = serialize(r)[1]
  <2>1. validate_header_shape(h)
    BY <1>1, Zenon DEF HeaderStatus
  <2>2. h[1][1] = "magic" /\ Zero[1] = "zero"
    BY <2>1, CellFacts, Zenon DEF validate_header_shape
  <2>3. QED
    BY <2>2, <1>3, Zenon
<1>6. \A j \in 1 .. Total(r) : j > 4 => f[o + j - 1] = serialize(r)[j]
  BY <1>4, PayloadAtCells, Zenon
<1>7. \A j \in 1 .. Total(r) : f[o + j - 1] = serialize(r)[j]
  <2>1. SUFFICES ASSUME NEW j \in 1 .. Total(r) PROVE f[o + j - 1] = serialize(r)[j]
    BY Zenon
  <2>2. j \in {1, 2, 3, 4} \/ j > 4
    BY <1>1
  <2>3. j \in {1, 2, 3, 4} => f[o + j - 1] = serialize(r)[j]
    <3> HIDE DEF h
    <3>1. j \in {1, 2, 3, 4} => j = 1 \/ j \in {2, 3, 4}
      BY Zenon
    <3>2. \A k \in {2, 3, 4} : h[k] = serialize(r)[k]
      BY <1>4, Zenon
    <3>3. j = 1 => h[j] = serialize(r)[j]
      BY <1>5, Zenon
    <3>4. j \in {1, 2, 3, 4} => f[o + j - 1] = h[j]
      BY <1>2, Zenon
    <3>5. QED
      BY <3>1, <3>2, <3>3, <3>4, Zenon
  <2>4. QED
    BY <1>6, <2>2, <2>3, Zenon
<1>8. QED
  BY <1>7, Zenon DEF Laid

\* Nothing is read where there are only zeros, ...
LEMMA NextOfZeros ==
  ASSUME NEW f, NEW o \in 0 .. FileSize, \A i \in o .. FileSize - 1 : f[i] = Zero
  PROVE  NextStatus(f, o) = "empty"
BY Zenon DEF NextStatus, HeaderStatus, is_zero_filled

\* ... and no record where there is no magic.
LEMMA NextNeedsMagic ==
  ASSUME NEW f, NEW o \in 0 .. FileSize, o < FileSize => ~IsHeaderCell(f[o])
  PROVE  NextStatus(f, o) # "ok"
<1>1. SUFFICES ASSUME HeaderStatus(f, o) = "ok" PROVE FALSE
  BY StatusOk, Zenon
<1>2. ~(FileSize - o < HeaderCells) /\ validate_header_shape(HeaderAt(f, o))
  BY <1>1, Zenon DEF HeaderStatus
<1>3. o < FileSize /\ o + 1 - 1 = o
  BY <1>2, SizeAssumption DEF HeaderCells
<1>4. HeaderAt(f, o)[1] = f[o]
  BY HeaderAtCells
<1>5. QED
  BY <1>2, <1>3, <1>4, Zenon DEF validate_header_shape, IsHeaderCell

(***************************************************************************)
(* Replaying a file.                                                       *)
(***************************************************************************)
Found(f) == {NextRecord(f, o, HeaderAt(f, o)) : o \in 0 .. FileSize}
Replays(f) == [records : Seq(Found(f)), status : {"ok", "empty", "corrupted_record"}, end : Nat]

\* What a replay from any offset returns: records found in the file, a
\* status of next() and an offset.
LEMMA ReplayType ==
  ASSUME NEW f, IsFile(f)
  PROVE  \A o \in 0 .. FileSize : ReplayFrom(f)[o] \in Replays(f)
<1> DEFINE R == ReplayFrom(f)
           next(o) == NextOffset(o, HeaderAt(f, o))
           T == {k \in Nat : \A o \in 0 .. FileSize : o + k > FileSize => R[o] \in Replays(f)}
<1>1. \A o \in 0 .. FileSize : NextStatus(f, o) \in {"ok", "empty", "corrupted_record"}
  BY Zenon DEF NextStatus, HeaderStatus, PayloadStatus
<1>2. 0 \in T
  BY SizeAssumption
<1>3. ASSUME NEW k \in Nat, k \in T PROVE k + 1 \in T
  <2>1. SUFFICES ASSUME NEW o \in 0 .. FileSize, o + (k + 1) > FileSize
                 PROVE  R[o] \in Replays(f)
    OBVIOUS
  <2>2. CASE NextStatus(f, o) # "ok"
    <3>1. R[o] = [records |-> <<>>, status |-> NextStatus(f, o), end |-> o]
      BY <2>2, ReplayEquation, Zenon
    <3>2. QED
      BY <3>1, <1>1 DEF Replays
  <2>3. CASE NextStatus(f, o) = "ok"
    <3> DEFINE x == NextRecord(f, o, HeaderAt(f, o))
    <3>1. R[o] = [R[next(o)] EXCEPT !.records = <<x>> \o @]
      BY <2>3, ReplayEquation, Zenon
    <3>2. next(o) \in 0 .. FileSize /\ next(o) + k > FileSize
      <4>1. next(o) \in o + 4 .. FileSize
        BY <2>3, NextAdvances, StatusOk, Zenon
      <4> HIDE DEF next
      <4>2. QED
        BY <4>1, <2>1, SizeAssumption
    <3>3. R[next(o)] \in Replays(f)
      BY <3>2, <1>3, Zenon
    <3>4. x \in Found(f)
      BY Zenon DEF Found
    <3> HIDE DEF x, R, next
    <3>5. <<x>> \o R[next(o)].records \in Seq(Found(f))
      BY <3>3, <3>4 DEF Replays
    <3>6. QED
      BY <3>1, <3>3, <3>5, Zenon DEF Replays
  <2>4. QED
    BY <2>2, <2>3, Zenon
<1>4. FileSize + 1 \in T
  <2> HIDE DEF T
  <2> QED
    BY <1>2, <1>3, SetInduction, SizeAssumption, Zenon
<1>5. QED
  BY <1>4, SizeAssumption

\* One step of the replay, written out: it stops, or reads a record and goes on.
LEMMA ReplaySteps ==
  ASSUME NEW f, IsFile(f), NEW o \in 0 .. FileSize
  PROVE  /\ NextStatus(f, o) # "ok" =>
              ReplayFrom(f)[o] = [records |-> <<>>, status |-> NextStatus(f, o), end |-> o]
         /\ NextStatus(f, o) = "ok" =>
              LET e == ReplayFrom(f)[NextOffset(o, HeaderAt(f, o))]
              IN  ReplayFrom(f)[o] = [records |-> <<NextRecord(f, o, HeaderAt(f, o))>> \o e.records,
                                      status |-> e.status, end |-> e.end]
<1>1. ASSUME NextStatus(f, o) # "ok"
      PROVE  ReplayFrom(f)[o] = [records |-> <<>>, status |-> NextStatus(f, o), end |-> o]
  <2>1. ReplayFrom(f)[o] = IF NextStatus(f, o) # "ok"
                           THEN [records |-> <<>>, status |-> NextStatus(f, o), end |-> o]
                           ELSE [ReplayFrom(f)[NextOffset(o, HeaderAt(f, o))] EXCEPT
                                   !.records = <<NextRecord(f, o, HeaderAt(f, o))>> \o @]
    BY ReplayEquation, Zenon
  <2>2. QED
    BY <2>1, <1>1, Zenon
<1>2. ASSUME NextStatus(f, o) = "ok"
      PROVE  LET e == ReplayFrom(f)[NextOffset(o, HeaderAt(f, o))]
             IN  ReplayFrom(f)[o] = [records |-> <<NextRecord(f, o, HeaderAt(f, o))>> \o e.records,
                                     status |-> e.status, end |-> e.end]
  <2> DEFINE x == NextRecord(f, o, HeaderAt(f, o))
             q == NextOffset(o, HeaderAt(f, o))
             e == ReplayFrom(f)[q]
  <2>1. ReplayFrom(f)[o] = [e EXCEPT !.records = <<x>> \o @]
    BY ReplayEquation, <1>2, Zenon
  <2>2. q \in 0 .. FileSize
    <3>1. q \in o + 4 .. FileSize
      BY <1>2, NextAdvances, StatusOk, Zenon
    <3> HIDE DEF q
    <3>2. QED
      BY <3>1
  <2>3. e \in Replays(f)
    BY <2>2, ReplayType, Zenon
  <2> HIDE DEF e, x
  <2>4. [e EXCEPT !.records = <<x>> \o @]
          = [records |-> <<x>> \o e.records, status |-> e.status, end |-> e.end]
    <3> DEFINE y == <<x>> \o e.records
    <3>1. e \in [records : Seq(Found(f)), status : {"ok", "empty", "corrupted_record"}, end : Nat]
      BY <2>3, Zenon DEF Replays
    <3> HIDE DEF y
    <3>2. [e EXCEPT !.records = y] = [records |-> y, status |-> e.status, end |-> e.end]
      BY <3>1
    <3>3. QED
      BY <3>2, Zenon DEF y
  <2>5. QED
    BY <2>1, <2>4, Zenon DEF e, x
<1>3. QED
  BY <1>1, <1>2, Zenon

\* A file that holds the records s one after another replays s, then what
\* follows them.
LEMMA ReplayLaid ==
  ASSUME NEW f, IsFile(f), NEW s \in Seq(Writable), Start(s)[Len(s)] <= FileSize,
         \A k \in 1 .. Len(s) : Laid(f, Start(s)[k - 1], s[k])
  PROVE  /\ ReplayFrom(f)[Start(s)[Len(s)]] \in Replays(f)
         /\ LET e == ReplayFrom(f)[Start(s)[Len(s)]]
            IN  Replay(f) = [records |-> s \o e.records, status |-> e.status, end |-> e.end]
<1> DEFINE R == ReplayFrom(f)
           st == Start(s)
           n == Len(s)
           e == R[st[n]]
           Rest(k) == [records |-> SubSeq(s, k + 1, n) \o e.records,
                       status |-> e.status, end |-> e.end]
           T == {d \in Nat : d <= n => R[st[n - d]] = Rest(n - d)}
<1>1. /\ n \in Nat /\ \A k \in 0 .. n : st[k] \in Nat
      /\ \A k, m \in 0 .. n : k < m => st[k] + Total(s[k + 1]) <= st[m]
  BY StartOrder
<1>2. /\ st[0] = 0 /\ \A k \in 1 .. n : st[k] = st[k - 1] + Total(s[k])
      /\ \A k \in 1 .. n : s[k] \in Writable /\ Total(s[k]) \in Nat
  <2>1. \A k \in 1 .. n : s[k] \in Writable
    OBVIOUS
  <2>2. QED
    BY <2>1, StartEquation, RecordFacts, Zenon
<1>3. st[n] \in 0 .. FileSize /\ e \in Replays(f)
  <2>1. st[n] \in Nat
    BY <1>1
  <2> HIDE DEF st, n
  <2>2. st[n] \in 0 .. FileSize
    BY <2>1 DEF st, n
  <2>3. QED
    BY <2>2, ReplayType, Zenon
<1>4. \A k \in 0 .. n : st[k] \in 0 .. FileSize
  <2>1. ASSUME NEW k \in 0 .. n PROVE st[k] <= st[n]
    <3>1. CASE k < n
      <4>1. k + 1 \in 1 .. n /\ n \in 0 .. n
        BY <3>1
      <4>2. Total(s[k + 1]) \in Nat /\ st[k] + Total(s[k + 1]) <= st[n]
        BY <3>1, <4>1, <1>1, <1>2, Zenon
      <4> HIDE DEF st, n
      <4>3. QED
        BY <4>2, <1>1
    <3>2. QED
      BY <3>1, <1>1
  <2> HIDE DEF st
  <2>2. QED
    BY <2>1, <1>1, <1>3, SizeAssumption
<1>5. 0 \in T
  <2>1. SubSeq(s, n + 1, n) = <<>>
    OBVIOUS
  <2>2. <<>> \o e.records = e.records
    <3>1. e.records \in Seq(Found(f))
      BY <1>3, Zenon DEF Replays
    <3> HIDE DEF e
    <3>2. QED
      BY <3>1
  <2>3. e = [records |-> e.records, status |-> e.status, end |-> e.end]
    BY <1>3, Zenon DEF Replays
  <2>4. n - 0 = n
    OBVIOUS
  <2>5. QED
    <3> HIDE DEF R, st, n, e
    <3>1. R[st[n]] = e
      BY Zenon DEF e
    <3>2. QED
      BY <2>1, <2>2, <2>3, <2>4, <3>1, Zenon
<1>6. ASSUME NEW d \in Nat, d \in T PROVE d + 1 \in T
  <2> HIDE DEF n, R, st, Rest
  <2>1. SUFFICES ASSUME d + 1 <= n PROVE R[st[n - (d + 1)]] = Rest(n - (d + 1))
    OBVIOUS
  <2> DEFINE k == n - d
  <2>2. k \in 1 .. n /\ n - (d + 1) = k - 1 /\ k - 1 \in 0 .. n /\ (k - 1) + 1 = k /\ d <= n
    BY <2>1, <1>1
  <2>3. R[st[k]] = Rest(k)
    <3> HIDE DEF R, st, n, e, Rest
    <3> QED
      BY <2>2, <1>6, Zenon
  <2> HIDE DEF k
  <2>4. /\ s[k] \in Writable /\ st[k] = st[k - 1] + Total(s[k])
        /\ st[k - 1] \in 0 .. FileSize /\ st[k] \in 0 .. FileSize /\ Laid(f, st[k - 1], s[k])
    BY <2>2, <1>2, <1>4 DEF st, n
  <2>5. /\ NextStatus(f, st[k - 1]) = "ok"
        /\ NextRecord(f, st[k - 1], HeaderAt(f, st[k - 1])) = s[k]
        /\ NextOffset(st[k - 1], HeaderAt(f, st[k - 1])) = st[k]
    <3> HIDE DEF st
    <3>1. QED
      BY <2>4, NextOfLaid
  <2>6. R[st[k - 1]] = [records |-> <<s[k]>> \o (SubSeq(s, k + 1, n) \o e.records),
                        status |-> e.status, end |-> e.end]
    <3>1. R[st[k - 1]] = [records |-> <<s[k]>> \o R[st[k]].records,
                          status |-> R[st[k]].status, end |-> R[st[k]].end]
      <4> DEFINE o == st[k - 1]
                 q == NextOffset(o, HeaderAt(f, o))
                 x == NextRecord(f, o, HeaderAt(f, o))
      <4>1. o \in 0 .. FileSize /\ NextStatus(f, o) = "ok" /\ q = st[k] /\ x = s[k]
        BY <2>4, <2>5, Zenon
      <4> HIDE DEF o
      <4>2. ReplayFrom(f)[o] = [records |-> <<x>> \o ReplayFrom(f)[q].records,
                                status |-> ReplayFrom(f)[q].status, end |-> ReplayFrom(f)[q].end]
        BY <4>1, ReplaySteps, Zenon
      <4> HIDE DEF q, x
      <4>3. QED
        BY <4>1, <4>2, Zenon DEF R, o
    <3> HIDE DEF e
    <3>2. R[st[k]] = [records |-> SubSeq(s, k + 1, n) \o e.records, status |-> e.status, end |-> e.end]
      BY <2>3, Zenon DEF Rest
    <3>3. QED
      BY <3>1, <3>2
  <2>7. SubSeq(s, k, n) = <<s[k]>> \o SubSeq(s, k + 1, n)
    <3>1. n \in k .. Len(s)
      BY <2>2 DEF n
    <3>2. QED
      BY <2>2, <3>1
  <2>8. <<s[k]>> \o (SubSeq(s, k + 1, n) \o e.records) = SubSeq(s, k, n) \o e.records
    <3> DEFINE a == <<s[k]>>
               c == SubSeq(s, k + 1, n)
               g == e.records
    <3>1. /\ a \in Seq(Writable) /\ c \in Seq(Writable) /\ g \in Seq(Found(f))
      <4>1. g \in Seq(Found(f))
        BY <1>3, Zenon DEF Replays
      <4>2. n \in 0 .. Len(s)
        BY <1>1 DEF n
      <4> HIDE DEF g
      <4>3. QED
        BY <2>2, <2>4, <4>1, <4>2
    <3> HIDE DEF a, c, g
    <3>2. a \o (c \o g) = (a \o c) \o g
      BY <3>1
    <3>3. QED
      BY <2>7, <3>2, Zenon DEF a, c, g
  <2>9. R[st[k - 1]] = Rest(k - 1)
    <3> HIDE DEF e
    <3> QED
      BY <2>2, <2>6, <2>8, Zenon DEF Rest
  <2>10. QED
    BY <2>2, <2>9, Zenon
<1>7. n \in T
  <2> HIDE DEF T
  <2> QED
    BY <1>5, <1>6, SetInduction
<1>8. R[0] = Rest(0)
  <2>1. n - n = 0 /\ n <= n
    OBVIOUS
  <2> HIDE DEF R, st, n, e, Rest
  <2>2. R[st[n - n]] = Rest(n - n)
    BY <1>7
  <2>3. QED
    BY <2>1, <2>2, <1>2, Zenon
<1>9. SubSeq(s, 0 + 1, n) = s
  OBVIOUS
<1>10. QED
  <2>1. Replay(f) = R[0]
    BY Zenon DEF Replay
  <2> HIDE DEF R, st, n
  <2>2. Replay(f) = [records |-> s \o e.records, status |-> e.status, end |-> e.end]
    BY <2>1, <1>8, <1>9, Zenon
  <2>3. QED
    BY <2>2, <1>3, Zenon DEF R, st, n

\* A replay that finds nothing to read behind s ends there.
LEMMA ReplayEnds ==
  ASSUME NEW f, IsFile(f), NEW s \in Seq(Writable), Start(s)[Len(s)] <= FileSize,
         \A k \in 1 .. Len(s) : Laid(f, Start(s)[k - 1], s[k]),
         NextStatus(f, Start(s)[Len(s)]) # "ok"
  PROVE  Replay(f) = [records |-> s, status |-> NextStatus(f, Start(s)[Len(s)]),
                      end |-> Start(s)[Len(s)]]
<1> DEFINE o == Start(s)[Len(s)]
           e == ReplayFrom(f)[o]
<1>1. Replay(f) = [records |-> s \o e.records, status |-> e.status, end |-> e.end]
  BY ReplayLaid, Zenon
<1>2. o \in 0 .. FileSize
  <2>1. o \in Nat
    BY StartOrder
  <2>2. QED
    BY <2>1
<1>3. e = [records |-> <<>>, status |-> NextStatus(f, o), end |-> o]
  BY <1>2, ReplaySteps, Zenon
<1>4. QED
  <2> HIDE DEF e, o
  <2>1. Replay(f) = [records |-> s, status |-> NextStatus(f, o), end |-> o]
    BY <1>1, <1>3
  <2>2. QED
    BY <2>1, Zenon DEF o

\* What next() reads at o, when the checksum there is that of the record r.
LEMMA NextOfChecksum ==
  ASSUME NEW f, IsFile(f), NEW o \in 0 .. FileSize, NEW r \in Writable,
         NextStatus(f, o) = "ok", f[o + 3] = serialize(r)[4]
  PROVE  /\ NextRecord(f, o, HeaderAt(f, o)) = r
         /\ NextOffset(o, HeaderAt(f, o)) = o + Total(r)
         /\ o + Total(r) <= FileSize
<1> DEFINE h == HeaderAt(f, o)
           n == SizeOf(h[2])
           p == PayloadAt(f, o, n)
<1>1. h[4] = f[o + 3]
  <2>1. h[4] = f[o + 4 - 1] /\ o + 4 - 1 = o + 3
    BY HeaderAtCells
  <2>2. QED
    BY <2>1, Zenon
<1>2. h[4] = Checksum(Len(r.payload), MetaCell(r), r.payload)
  BY <1>1, SerializeCells, Zenon
<1>3. h[4] = Checksum(n, h[3], p)
  BY StatusOk, Zenon DEF PayloadStatus, validate_record_checksum
<1>4. n = Len(r.payload) /\ h[3] = MetaCell(r) /\ p = r.payload
  <2> HIDE DEF n, p, h
  <2> QED
    BY <1>2, <1>3 DEF Checksum
<1>5. NextRecord(f, o, h) = [sequence |-> r.sequence, timestamp |-> r.timestamp, payload |-> r.payload]
  <2>1. h[3][2] = r.sequence /\ h[3][3] = r.timestamp
    BY <1>4, CellFacts, Zenon
  <2>2. NextRecord(f, o, h) = [sequence |-> h[3][2], timestamp |-> h[3][3], payload |-> p]
    BY Zenon DEF NextRecord
  <2> HIDE DEF h, p
  <2>3. QED
    BY <1>4, <2>1, <2>2, Zenon
<1>6. NextRecord(f, o, h) = r
  BY <1>5, RecordFacts, Zenon
<1>7. NextOffset(o, h) = o + Total(r)
  BY <1>4, RecordFacts, Zenon DEF NextOffset, record_total_size
<1>8. NextOffset(o, h) <= FileSize
  <2>1. NextOffset(o, h) \in o + 4 .. FileSize
    BY NextAdvances, StatusOk, Zenon
  <2> HIDE DEF h
  <2>2. QED
    BY <2>1
<1>9. QED
  BY <1>6, <1>7, <1>8, Zenon

\* Records at one place of which none can pass for another behind it: no
\* payload looks like a header, or all have the same size.
Apart(S) == DataPayloads \/ \A x, y \in S : Total(x) = Total(y)

\* Behind a record at o there is no header cell of another at o.
LEMMA NoHeaderBehind ==
  ASSUME NEW f, NEW o \in Nat, NEW S \in SUBSET Writable, NEW r \in S, Apart(S),
         HeadersOf(f, o, S), NEW i \in o + Total(r) .. FileSize - 1
  PROVE  ~IsHeaderCell(f[i])
<1>1. SUFFICES ASSUME IsHeaderCell(f[i]) PROVE FALSE
  BY Zenon
<1>2. r \in Writable /\ Total(r) \in Nat /\ Total(r) >= 4
  BY RecordFacts, Zenon
<1>3. i \in o .. FileSize - 1
  BY <1>2
<1>4. PICK x \in S : i < o + Total(x) /\ f[i] = serialize(x)[i - o + 1]
  BY <1>1, <1>3, Zenon DEF HeadersOf
<1>5. CASE DataPayloads
  <2> DEFINE j == i - o - 3
  <2>1. /\ x \in Writable /\ Total(x) = HeaderCells + Len(x.payload)
        /\ Len(x.payload) \in 0 .. MaxPayload
        /\ x.payload \in Payload /\ x.payload \in Seq(Range(x.payload))
    BY RecordFacts, Zenon
  <2>2. j \in 1 .. Len(x.payload) /\ i - o + 1 = HeaderCells + j
    BY <1>2, <1>4, <2>1, SizeAssumption DEF HeaderCells
  <2> HIDE DEF j
  <2>3. f[i] = x.payload[j]
    BY <1>4, <2>1, <2>2, SerializeCells, Zenon
  <2>4. j \in DOMAIN x.payload
    BY <2>1, <2>2
  <2>5. QED
    BY <1>1, <1>5, <2>1, <2>3, <2>4, Zenon DEF DataPayloads
<1>6. CASE Total(x) = Total(r)
  BY <1>2, <1>4, <1>6
<1>7. QED
  BY <1>5, <1>6, Zenon DEF Apart

\* A file with the first m records of s whole, and of the others nothing but
\* cells of theirs, with no header cell behind them but of the records tr.
LEMMA ReplayBetween ==
  ASSUME NEW f, IsFile(f), NEW s \in Seq(Writable), NEW m \in 0 .. Len(s),
         NEW tr \in SUBSET Writable, Start(s)[Len(s)] <= FileSize,
         Stored(f, s, m), HeadersOf(f, Start(s)[Len(s)], tr), Apart(tr)
  PROVE  Replay(f).records \in {SubSeq(s, 1, n) : n \in m .. Len(s)} \cup {Append(s, r) : r \in tr}
<1> DEFINE st == Start(s)
           o == st[Len(s)]
           goal == Replay(f).records \in {SubSeq(s, 1, n) : n \in m .. Len(s)} \cup {Append(s, r) : r \in tr}
<1>1. Len(s) \in Nat /\ o \in 0 .. FileSize
  <2>1. Len(s) \in Nat /\ o \in Nat
    BY StartOrder
  <2>2. o <= FileSize
    BY Zenon
  <2> HIDE DEF o
  <2>3. QED
    BY <2>1, <2>2
<1>2. ASSUME \A k \in 1 .. Len(s) : Laid(f, st[k - 1], s[k]) PROVE goal
  <2>1. CASE NextStatus(f, o) # "ok"
    <3>1. Replay(f).records = s
      BY <2>1, <1>2, ReplayEnds
    <3>2. QED
      BY <3>1
  <2>2. CASE NextStatus(f, o) = "ok"
    <3> DEFINE h == HeaderAt(f, o)
    <3>1. o + 3 \in o .. FileSize - 1 /\ o + 3 \in Nat
      <4>1. ~(FileSize - o < HeaderCells)
        BY <2>2, StatusOk, Zenon DEF HeaderStatus
      <4> HIDE DEF o
      <4>2. QED
        BY <4>1, <1>1, SizeAssumption DEF HeaderCells
    <3>2. IsHeaderCell(f[o + 3])
      <4>1. h[4] = f[o + 4 - 1] /\ o + 4 - 1 = o + 3
        BY HeaderAtCells
      <4>2. h[4] = Checksum(SizeOf(h[2]), h[3], PayloadAt(f, o, SizeOf(h[2])))
        BY <2>2, StatusOk, Zenon DEF PayloadStatus, validate_record_checksum
      <4>3. h[4][1] = "crc"
        BY <4>2, CellFacts
      <4>4. QED
        BY <4>1, <4>3, Zenon DEF IsHeaderCell
    <3>3. PICK r \in tr : f[o + 3] = serialize(r)[(o + 3) - o + 1]
      BY <3>1, <3>2, Zenon DEF HeadersOf
    <3>4. (o + 3) - o + 1 = 4 /\ r \in Writable
      <4> HIDE DEF o
      <4> QED
        BY <1>1
    <3>5. f[o + 3] = serialize(r)[4]
      BY <3>3, <3>4, Zenon
    <3> DEFINE q == o + Total(r)
    <3>6. NextRecord(f, o, h) = r /\ NextOffset(o, h) = q /\ q <= FileSize
      BY <3>5, <2>2, <1>1, NextOfChecksum, Zenon
    <3>7. q \in 0 .. FileSize
      <4>1. Total(r) \in Nat /\ Total(r) >= 4
        BY RecordFacts, Zenon
      <4>2. q <= FileSize
        BY <3>6, Zenon
      <4> HIDE DEF o
      <4>3. QED
        BY <4>1, <4>2, <1>1
    <3>8. q < FileSize => ~IsHeaderCell(f[q])
      <4>1. q < FileSize => q \in q .. FileSize - 1
        <5> HIDE DEF q
        <5> QED
          BY <3>7, SizeAssumption
      <4>2. o \in Nat
        <5> HIDE DEF o
        <5> QED
          BY <1>1
      <4>3. QED
        BY <4>1, <4>2, NoHeaderBehind, Zenon
    <3>9. NextStatus(f, q) # "ok"
      BY <3>7, <3>8, NextNeedsMagic, Zenon
    <3>10. ReplayFrom(f)[q].records = <<>>
      <4> HIDE DEF q
      <4>1. ReplayFrom(f)[q] = [records |-> <<>>, status |-> NextStatus(f, q), end |-> q]
        BY <3>7, <3>9, ReplaySteps, Zenon
      <4>2. QED
        BY <4>1
    <3>11. ReplayFrom(f)[o].records = <<r>> \o <<>>
      <4> HIDE DEF o, q
      <4>1. ReplayFrom(f)[o] = [records |-> <<r>> \o ReplayFrom(f)[q].records,
                                status |-> ReplayFrom(f)[q].status, end |-> ReplayFrom(f)[q].end]
        <5> DEFINE x == NextRecord(f, o, h)
                   q2 == NextOffset(o, h)
        <5>1. ReplayFrom(f)[o] = [records |-> <<x>> \o ReplayFrom(f)[q2].records,
                                  status |-> ReplayFrom(f)[q2].status, end |-> ReplayFrom(f)[q2].end]
          BY <2>2, <1>1, ReplaySteps, Zenon
        <5>2. x = r /\ q2 = q
          BY <3>6, Zenon
        <5> HIDE DEF x, q2
        <5>3. QED
          BY <5>1, <5>2, Zenon
      <4>2. QED
        BY <4>1, <3>10
    <3>12. Replay(f).records = s \o (<<r>> \o <<>>)
      <4>1. Replay(f) = [records |-> s \o ReplayFrom(f)[o].records,
                         status |-> ReplayFrom(f)[o].status, end |-> ReplayFrom(f)[o].end]
        BY <1>2, ReplayLaid, Zenon
      <4> HIDE DEF o
      <4>2. QED
        BY <4>1, <3>11
    <3>13. QED
      BY <3>12
  <2>3. QED
    BY <2>1, <2>2, Zenon
<1>3. ASSUME ~ \A k \in 1 .. Len(s) : Laid(f, st[k - 1], s[k]) PROVE goal
  <2> DEFINE T == {k \in 1 .. Len(s) : ~ Laid(f, st[k - 1], s[k])}
  <2>1. T \in SUBSET Nat /\ T # {}
    BY <1>3
  <2>2. PICK n \in T : \A k \in T : n <= k
    <3> HIDE DEF T
    <3> QED
      BY <2>1, LeastElement, Zenon
  <2>3. n \in 1 .. Len(s) /\ ~ Laid(f, st[n - 1], s[n])
    BY Zenon
  <2>4. \A k \in 1 .. n - 1 : k \in 1 .. Len(s) /\ Laid(f, st[k - 1], s[k])
    <3>1. SUFFICES ASSUME NEW k \in 1 .. n - 1 PROVE k \in 1 .. Len(s) /\ k \notin T
      BY Zenon
    <3> HIDE DEF T
    <3>2. QED
      BY <2>2, <2>3
  <2>5. ~(n <= m) /\ Partly(f, st[n - 1], s[n])
    BY Zenon DEF Stored
  <2> HIDE DEF T
  <2> DEFINE t == SubSeq(s, 1, n - 1)
  <2>6. t \in Seq(Writable) /\ Len(t) = n - 1 /\ \A k \in 1 .. n - 1 : t[k] = s[k]
    <3>1. n - 1 \in Int /\ 1 \in Int
      BY <2>3
    <3>2. /\ t \in Seq(Writable)
          /\ Len(t) = IF 1 <= n - 1 THEN (n - 1) - 1 + 1 ELSE 0
          /\ \A k \in 1 .. (n - 1) - 1 + 1 : t[k] = s[1 + k - 1]
      <4>1. \A k \in 1 .. n - 1 : k \in 1 .. Len(s)
        BY <2>4, Zenon
      <4>2. QED
        BY <3>1, <4>1
    <3> HIDE DEF t
    <3>3. QED
      BY <3>2, <2>3
  <2> HIDE DEF t
  <2>7. n - 1 \in Nat /\ n - 1 <= Len(s) /\ n - 1 <= Len(t) /\ n - 1 \in 0 .. n - 1
    BY <2>3, <2>6
  <2>8. \A k \in 0 .. n - 1 : Start(t)[k] = st[k]
    BY <2>6, <2>7, StartAgree, Zenon
  <2>9. \A k \in 1 .. Len(t) : Laid(f, Start(t)[k - 1], t[k])
    <3>1. SUFFICES ASSUME NEW k \in 1 .. n - 1 PROVE Laid(f, Start(t)[k - 1], t[k])
      BY <2>6, Zenon
    <3>2. QED
      BY <2>4, <2>6, <2>8
  <2>10. st[n - 1] \in Nat /\ st[n - 1] + Total(s[n]) <= FileSize /\ s[n] \in Writable /\ Total(s[n]) \in Nat
    <3>1. n - 1 \in 0 .. Len(s) /\ Len(s) \in 0 .. Len(s) /\ n - 1 < Len(s) /\ (n - 1) + 1 = n
      BY <2>3
    <3>2. st[n - 1] \in Nat /\ st[n - 1] + Total(s[n]) <= o
      BY <3>1, StartOrder, Zenon
    <3>3. s[n] \in Writable /\ Total(s[n]) \in Nat
      <4>1. s[n] \in Writable
        BY <2>3
      <4>2. QED
        BY <4>1, RecordFacts, Zenon
    <3> HIDE DEF st, o
    <3>4. QED
      BY <3>2, <3>3, <1>1, SizeAssumption
  <2>11. Start(t)[Len(t)] = st[n - 1] /\ Start(t)[Len(t)] <= FileSize
    <3>1. Start(t)[Len(t)] = st[n - 1]
      BY <2>6, <2>8
    <3> HIDE DEF st
    <3>2. QED
      BY <2>10, <3>1, SizeAssumption
  <2>12. NextStatus(f, Start(t)[Len(t)]) # "ok"
    BY <2>3, <2>5, <2>10, <2>11, PartlyNotRead, Zenon
  <2>13. Replay(f).records = t
    <3> DEFINE o1 == Start(t)[Len(t)]
    <3>1. Replay(f) = [records |-> t, status |-> NextStatus(f, o1), end |-> o1]
      BY <2>6, <2>9, <2>11, <2>12, ReplayEnds, Zenon
    <3> HIDE DEF o1
    <3>2. QED
      BY <3>1
  <2>14. n - 1 \in m .. Len(s)
    BY <2>3, <2>5
  <2>15. QED
    BY <2>13, <2>14, Zenon DEF t
<1>4. QED
  BY <1>2, <1>3, Zenon

-----------------------------------------------------------------------------
(***************************************************************************)
(* Files that change: a record appended, a cell copied, pages written      *)
(* back.                                                                   *)
(***************************************************************************)

\* What a cell can be.
LEMMA CellCases ==
  \A c : c \in Cell <=>
           \/ c = Zero \/ c = <<"magic", 1>>
           \/ \E n \in 1 .. MaxPayload : c = <<"size", n>>
           \/ \E p \in Payload : c \in Range(p)
           \/ \E q \in 0 .. MaxAttempts, t \in 1 .. MaxAttempts : c = <<"meta", q, t>>
           \/ \E p \in Payload, m \in MetaCells : c = Checksum(Len(p), m, p)
<1>1. \A c : c \in SizeCells <=> \E n \in 1 .. MaxPayload : c = <<"size", n>>
  BY Zenon DEF SizeCells
<1>2. \A c : c \in PayloadCells <=> \E p \in Payload : c \in Range(p)
  BY Zenon DEF PayloadCells
<1>3. \A c : c \in MetaCells <=>
           \E q \in 0 .. MaxAttempts, t \in 1 .. MaxAttempts : c = <<"meta", q, t>>
  BY DEF MetaCells
<1>4. \A c : c \in ChecksumCells <=>
           \E p \in Payload, m \in MetaCells : c = Checksum(Len(p), m, p)
  BY DEF ChecksumCells
<1>5. \A c : c \in Cell <=> \/ c = Zero \/ c = <<"magic", 1>> \/ c \in SizeCells
                            \/ c \in PayloadCells \/ c \in MetaCells \/ c \in ChecksumCells
  BY Zenon DEF Cell
<1>6. QED
  BY <1>1, <1>2, <1>3, <1>4, <1>5, Zenon

\* Every cell of a record is a cell, and read as a payload size, a number.
LEMMA CellIsSized == \A c \in Cell : SizeOf(c) \in Nat
<1>1. SUFFICES ASSUME NEW c \in Cell PROVE SizeOf(c) \in Nat
  BY Zenon
<1>2. CASE c = Zero \/ c = <<"magic", 1>> \/ \E n \in 1 .. MaxPayload : c = <<"size", n>>
  BY <1>2 DEF Zero, SizeOf
<1>3. CASE \E p \in Payload : c \in Range(p)
  <2>1. PICK p \in Payload : c \in Range(p)
    BY <1>3, Zenon
  <2>2. PICK k \in DOMAIN p : c = p[k]
    BY <2>1, Zenon DEF Range
  <2>3. QED
    BY <2>2, PayloadAssumption, Zenon DEF SizeOf
<1>4. CASE \E q \in 0 .. MaxAttempts, t \in 1 .. MaxAttempts : c = <<"meta", q, t>>
  BY <1>4 DEF SizeOf
<1>5. CASE \E p \in Payload, m \in MetaCells : c = Checksum(Len(p), m, p)
  <2>1. PICK p \in Payload, m \in MetaCells : c = Checksum(Len(p), m, p)
    BY <1>5, Zenon
  <2>2. QED
    BY <2>1, CellFacts
<1>6. QED
  BY <1>2, <1>3, <1>4, <1>5, CellCases, Zenon

\* A file of cells is one that next() can read at any offset.
LEMMA CellsAreFile == ASSUME NEW f \in [Offsets -> Cell] PROVE IsFile(f)
BY CellIsSized, Zenon DEF IsFile

\* Every cell of a record that may be written is a cell.
LEMMA SerializeInCell ==
  ASSUME NEW r \in Writable, NEW j \in 1 .. Total(r)
  PROVE  serialize(r)[j] \in Cell
<1> DEFINE n == Len(r.payload)
<1>1. n \in 0 .. MaxPayload /\ Total(r) = 4 + n
  BY RecordFacts, Zenon DEF HeaderCells
<1>2. CASE j = 1
  BY <1>2, SerializeCells, CellCases, Zenon
<1>3. CASE j = 2
  <2>1. n = 0 \/ n \in 1 .. MaxPayload
    BY <1>1
  <2> HIDE DEF n
  <2>2. SizeCell(n) = Zero \/ \E x \in 1 .. MaxPayload : SizeCell(n) = <<"size", x>>
    BY <2>1, Zenon DEF SizeCell
  <2>3. SizeCell(n) \in Cell
    BY <2>2, CellCases, Zenon
  <2>4. QED
    BY <1>3, <2>3, SerializeCells, Zenon DEF n
<1>4. CASE j = 3
  <2>1. MetaCell(r) = <<"meta", r.sequence, r.timestamp>>
    BY Zenon DEF MetaCell
  <2>2. MetaCell(r) \in Cell
    BY <2>1, RecordFacts, CellCases, Zenon
  <2>3. QED
    BY <1>4, <2>2, SerializeCells, Zenon
<1>5. CASE j = 4
  <2>1. MetaCell(r) \in MetaCells
    BY RecordFacts DEF MetaCell, MetaCells
  <2>2. Checksum(n, MetaCell(r), r.payload) \in Cell
    BY <2>1, RecordFacts, CellCases, Zenon
  <2>3. QED
    BY <1>5, <2>2, SerializeCells, Zenon
<1>6. CASE j > 4
  <2>1. j - 4 \in 1 .. n /\ HeaderCells + (j - 4) = j
    BY <1>1, <1>6 DEF HeaderCells
  <2>2. serialize(r)[j] = r.payload[j - 4]
    BY <2>1, SerializeCells, Zenon
  <2>3. r.payload[j - 4] \in Range(r.payload)
    BY <2>1, RecordFacts DEF Range
  <2>4. r.payload \in Payload
    BY RecordFacts, Zenon
  <2>5. QED
    BY <2>2, <2>3, <2>4, CellCases, Zenon
<1>7. QED
  BY <1>2, <1>3, <1>4, <1>5, <1>6

\* A record appended starts at the end of the others and moves none.
LEMMA StartAppend ==
  ASSUME NEW s \in Seq(Writable), NEW r \in Writable
  PROVE  /\ Append(s, r) \in Seq(Writable)
         /\ Len(Append(s, r)) = Len(s) + 1
         /\ \A k \in 1 .. Len(s) : Append(s, r)[k] = s[k]
         /\ Append(s, r)[Len(s) + 1] = r
         /\ \A k \in 0 .. Len(s) : Start(Append(s, r))[k] = Start(s)[k]
         /\ Start(Append(s, r))[Len(s) + 1] = Start(s)[Len(s)] + Total(r)
<1> DEFINE t == Append(s, r)
<1>1. t \in Seq(Writable) /\ Len(t) = Len(s) + 1 /\ Len(s) \in Nat
  OBVIOUS
<1>2. (\A k \in 1 .. Len(s) : t[k] = s[k]) /\ t[Len(s) + 1] = r
  OBVIOUS
<1> HIDE DEF t
<1>3. \A k \in 0 .. Len(s) : Start(t)[k] = Start(s)[k]
  BY <1>1, <1>2, StartAgree
<1>4. Start(t)[Len(s) + 1] = Start(s)[Len(s)] + Total(r)
  <2>1. Start(t)[Len(s) + 1] = Start(t)[(Len(s) + 1) - 1] + Total(t[Len(s) + 1])
    BY <1>1, StartEquation
  <2>2. QED
    BY <2>1, <1>2, <1>3
<1>5. QED
  BY <1>3, <1>4 DEF t

\* The record k of s lies between its start and the end of s.
LEMMA StartBounds ==
  ASSUME NEW s \in Seq(Writable), NEW k \in 1 .. Len(s)
  PROVE  /\ s[k] \in Writable /\ Total(s[k]) \in Nat
         /\ Start(s)[k - 1] \in Nat /\ Start(s)[Len(s)] \in Nat
         /\ \A j \in 1 .. Total(s[k]) :
              Start(s)[k - 1] + j - 1 \in 0 .. Start(s)[Len(s)] - 1
<1>1. s[k] \in Writable /\ Len(s) \in Nat
  OBVIOUS
<1>2. Total(s[k]) \in Nat
  BY <1>1, RecordFacts, Zenon
<1>3. k - 1 \in 0 .. Len(s) /\ Len(s) \in 0 .. Len(s) /\ k - 1 < Len(s) /\ (k - 1) + 1 = k
  BY <1>1
<1>4. Start(s)[k - 1] \in Nat /\ Start(s)[Len(s)] \in Nat
  BY <1>3, StartOrder, Zenon
<1>5. Start(s)[k - 1] + Total(s[k]) <= Start(s)[Len(s)]
  BY <1>3, StartOrder, Zenon
<1>6. \A a, b, c \in Nat : a + b <= c => \A j \in 1 .. b : a + j - 1 \in 0 .. c - 1
  OBVIOUS
<1>7. QED
  BY <1>1, <1>2, <1>4, <1>5, <1>6, Zenon

\* A record that is in the file has no cell there that is not its own.
LEMMA LaidIsPartly ==
  ASSUME NEW f, NEW o, NEW r, Laid(f, o, r)
  PROVE  Partly(f, o, r)
BY Zenon DEF Laid, Partly

\* What a file holds below an offset depends on its cells below it.
LEMMA StoredAgree ==
  ASSUME NEW f, NEW g, NEW s \in Seq(Writable), NEW n, Stored(f, s, n),
         \A i \in 0 .. Start(s)[Len(s)] - 1 : g[i] = f[i]
  PROVE  Stored(g, s, n)
<1>1. SUFFICES ASSUME NEW k \in 1 .. Len(s)
               PROVE  IF k <= n THEN Laid(g, Start(s)[k - 1], s[k])
                                ELSE Partly(g, Start(s)[k - 1], s[k])
  BY Zenon DEF Stored
<1>2. \A j \in 1 .. Total(s[k]) : g[Start(s)[k - 1] + j - 1] = f[Start(s)[k - 1] + j - 1]
  BY StartBounds, Zenon
<1>3. QED
  BY <1>2, Zenon DEF Stored, Laid, Partly

\* A file made of two others, cell by cell, holds what both hold: with any
\* choice of pages written back, the records that both files hold are whole.
LEMMA StoredMix ==
  ASSUME NEW f, NEW g, NEW h, NEW s \in Seq(Writable), NEW m \in Nat, NEW n \in Nat, m <= n,
         Start(s)[Len(s)] <= FileSize, Stored(f, s, n), Stored(g, s, m),
         \A i \in Offsets : h[i] \in {f[i], g[i]}
  PROVE  Stored(h, s, m)
<1>1. SUFFICES ASSUME NEW k \in 1 .. Len(s)
               PROVE  IF k <= m THEN Laid(h, Start(s)[k - 1], s[k])
                                ELSE Partly(h, Start(s)[k - 1], s[k])
  BY Zenon DEF Stored
<1> DEFINE o == Start(s)[k - 1]
           e == Start(s)[Len(s)]
           r == s[k]
<1>2. \A j \in 1 .. Total(r) : h[o + j - 1] \in {f[o + j - 1], g[o + j - 1]}
  <2>1. e \in Nat /\ e <= FileSize /\ \A j \in 1 .. Total(r) : o + j - 1 \in 0 .. e - 1
    BY StartBounds, Zenon
  <2>2. \A i \in 0 .. e - 1 : i \in Offsets
    <3> HIDE DEF e
    <3> QED
      BY <2>1, SizeAssumption DEF Offsets
  <2> HIDE DEF e, o, r
  <2>3. QED
    BY <2>1, <2>2, Zenon
<1>3. CASE k <= m
  <2>1. Laid(f, o, r) /\ Laid(g, o, r)
    BY <1>3 DEF Stored
  <2> HIDE DEF o, r
  <2>2. Laid(h, o, r)
    BY <2>1, <1>2, Zenon DEF Laid
  <2>3. QED
    BY <2>2, <1>3, Zenon DEF o, r
<1>4. CASE ~(k <= m)
  <2>1. Partly(f, o, r) /\ Partly(g, o, r)
    BY LaidIsPartly, Zenon DEF Stored
  <2> HIDE DEF o, r
  <2>2. Partly(h, o, r)
    BY <2>1, <1>2, Zenon DEF Partly
  <2>3. QED
    BY <2>2, <1>4, Zenon DEF o, r
<1>5. QED
  BY <1>3, <1>4, Zenon

\* A file that holds the records of s, and r after them, holds Append(s, r).
LEMMA StoredAppend ==
  ASSUME NEW f, NEW s \in Seq(Writable), NEW r \in Writable, NEW n \in 0 .. Len(s) + 1,
         Stored(f, s, n),
         IF n = Len(s) + 1 THEN Laid(f, Start(s)[Len(s)], r) ELSE Partly(f, Start(s)[Len(s)], r)
  PROVE  Stored(f, Append(s, r), n)
<1> DEFINE t == Append(s, r)
<1>1. /\ Len(t) = Len(s) + 1 /\ t[Len(s) + 1] = r /\ Len(s) \in Nat
      /\ \A k \in 1 .. Len(s) : t[k] = s[k]
      /\ \A k \in 0 .. Len(s) : Start(t)[k] = Start(s)[k]
  <2>1. \A k \in 0 .. Len(s) : Start(t)[k] = Start(s)[k]
    BY StartAppend, Zenon
  <2>2. QED
    BY <2>1
<1> HIDE DEF t
<1>2. SUFFICES ASSUME NEW k \in 1 .. Len(s) + 1
               PROVE  IF k <= n THEN Laid(f, Start(t)[k - 1], t[k])
                                ELSE Partly(f, Start(t)[k - 1], t[k])
  BY <1>1, Zenon DEF Stored, t
<1>3. CASE k \in 1 .. Len(s)
  <2>1. k - 1 \in 0 .. Len(s)
    BY <1>1, <1>3
  <2>2. QED
    BY <1>1, <1>3, <2>1, Zenon DEF Stored
<1>4. CASE k = Len(s) + 1
  <2>1. k - 1 = Len(s) /\ (k <= n <=> n = Len(s) + 1)
    BY <1>4
  <2>2. QED
    BY <1>1, <2>1
<1>5. QED
  BY <1>3, <1>4

\* What follows the records in a file made of two others, cell by cell.
LEMMA TailMix ==
  ASSUME NEW f, NEW g, NEW h, NEW o \in Nat, NEW S,
         \A i \in Offsets : h[i] \in {f[i], g[i]}
  PROVE  /\ TailOf(f, o, S) /\ TailOf(g, o, S) => TailOf(h, o, S)
         /\ HeadersOf(f, o, S) /\ HeadersOf(g, o, S) => HeadersOf(h, o, S)
<1>1. \A i \in o .. FileSize - 1 : h[i] = f[i] \/ h[i] = g[i]
  BY DEF Offsets
<1>2. ASSUME TailOf(f, o, S), TailOf(g, o, S) PROVE TailOf(h, o, S)
  <2>1. SUFFICES ASSUME NEW i \in o .. FileSize - 1
                 PROVE  \/ h[i] = Zero
                        \/ \E r \in S : i < o + Total(r) /\ h[i] = serialize(r)[i - o + 1]
    BY Zenon DEF TailOf
  <2>2. QED
    BY <1>1, <1>2, Zenon DEF TailOf
<1>3. ASSUME HeadersOf(f, o, S), HeadersOf(g, o, S) PROVE HeadersOf(h, o, S)
  <2>1. SUFFICES ASSUME NEW i \in o .. FileSize - 1
                 PROVE  \/ ~IsHeaderCell(h[i])
                        \/ \E r \in S : i < o + Total(r) /\ h[i] = serialize(r)[i - o + 1]
    BY Zenon DEF HeadersOf
  <2>2. QED
    BY <1>1, <1>3, Zenon DEF HeadersOf
<1>4. QED
  BY <1>2, <1>3, Zenon

\* What follows the records, with more records tried there.
LEMMA TailMore ==
  ASSUME NEW f, NEW o, NEW S, NEW R, S \subseteq R
  PROVE  /\ TailOf(f, o, S) => TailOf(f, o, R)
         /\ HeadersOf(f, o, S) => HeadersOf(f, o, R)
BY Zenon DEF TailOf, HeadersOf

\* With one record tried at o, nothing but cells of it are in its place.
LEMMA TailPartly ==
  ASSUME NEW f, NEW o \in Nat, NEW S \in SUBSET Writable, NEW r \in S,
         \A x, y \in S : x = y, o + Total(r) <= FileSize, TailOf(f, o, S)
  PROVE  Partly(f, o, r)
<1>1. SUFFICES ASSUME NEW j \in 1 .. Total(r) PROVE f[o + j - 1] \in {Zero, serialize(r)[j]}
  BY Zenon DEF Partly
<1> DEFINE i == o + j - 1
<1>2. i \in o .. FileSize - 1 /\ i - o + 1 = j
  <2>1. Total(r) \in Nat
    BY RecordFacts, Zenon
  <2>2. QED
    BY <2>1, SizeAssumption
<1> HIDE DEF i
<1>3. f[i] = Zero \/ \E x \in S : f[i] = serialize(x)[j]
  BY <1>2, Zenon DEF TailOf
<1>4. QED
  BY <1>3, Zenon DEF i

\* With one record tried at o, only zeros follow its place.
LEMMA TailAfter ==
  ASSUME NEW f, NEW o \in Nat, NEW S \in SUBSET Writable, NEW r \in S, \A x, y \in S : x = y,
         TailOf(f, o, S)
  PROVE  TailOf(f, o + Total(r), {})
<1>1. Total(r) \in Nat
  BY RecordFacts, Zenon
<1> DEFINE q == o + Total(r)
<1>2. \A i \in q .. FileSize - 1 : i \in o .. FileSize - 1 /\ ~(i < q)
  BY <1>1
<1>3. ASSUME NEW i \in q .. FileSize - 1 PROVE f[i] = Zero
  BY <1>2, Zenon DEF TailOf
<1> HIDE DEF q
<1>4. TailOf(f, q, {})
  BY <1>3, Zenon DEF TailOf
<1>5. QED
  BY <1>4, Zenon DEF q

\* Failed appends have left no header cells behind a record.
LEMMA HeadersAfter ==
  ASSUME NEW f, NEW o \in Nat, NEW S \in SUBSET Writable, NEW r \in S, Apart(S), HeadersOf(f, o, S)
  PROVE  HeadersOf(f, o + Total(r), {})
BY NoHeaderBehind, Zenon DEF HeadersOf

\* Payloads of one size, or without header cells, are always apart.
LEMMA AlwaysApart ==
  ASSUME DataPayloads \/ SameSize, NEW S \in SUBSET Writable PROVE Apart(S)
<1>1. ASSUME SameSize, NEW x \in S, NEW y \in S PROVE Total(x) = Total(y)
  <2>1. /\ x.payload \in Payload /\ Total(x) = HeaderCells + Len(x.payload)
        /\ y.payload \in Payload /\ Total(y) = HeaderCells + Len(y.payload)
    BY RecordFacts, Zenon
  <2>2. Len(x.payload) = Len(y.payload)
    BY <1>1, <2>1, Zenon DEF SameSize
  <2>3. QED
    BY <2>1, <2>2, Zenon
<1>2. QED
  BY <1>1, Zenon DEF Apart

\* Zeros and cells of the records tried hold no other header cells.
LEMMA TailHeaders ==
  ASSUME NEW f, NEW o, NEW S, TailOf(f, o, S) PROVE HeadersOf(f, o, S)
<1>1. ~IsHeaderCell(Zero)
  BY CellFacts DEF IsHeaderCell
<1>2. QED
  BY <1>1, Zenon DEF TailOf, HeadersOf

\* Copying one cell of a record tried at o puts no other cell there.
LEMMA TailCopy ==
  ASSUME NEW f, NEW g, NEW o \in Nat, NEW S \in SUBSET Writable, NEW r \in S,
         NEW i \in o .. o + Total(r) - 1,
         g[i] = serialize(r)[i - o + 1], \A k \in Offsets : k # i => g[k] = f[k]
  PROVE  /\ TailOf(f, o, S) => TailOf(g, o, S)
         /\ HeadersOf(f, o, S) => HeadersOf(g, o, S)
<1>1. r \in Writable /\ Total(r) \in Nat /\ Total(r) = HeaderCells + Len(r.payload) /\ Len(r.payload) \in Nat
  <2>1. r \in Writable
    BY Zenon
  <2>2. /\ Total(r) \in Nat /\ Total(r) = HeaderCells + Len(r.payload)
        /\ Len(r.payload) \in 0 .. MaxPayload
    BY <2>1, RecordFacts, Zenon
  <2>3. QED
    BY <2>1, <2>2
<1>2. i - o + 1 \in 1 .. Total(r) /\ i < o + Total(r)
  BY <1>1
<1>3. \A k \in o .. FileSize - 1 : k # i => g[k] = f[k]
  BY DEF Offsets
<1>4. ASSUME TailOf(f, o, S) PROVE TailOf(g, o, S)
  <2>1. SUFFICES ASSUME NEW k \in o .. FileSize - 1
                 PROVE  \/ g[k] = Zero
                        \/ \E x \in S : k < o + Total(x) /\ g[k] = serialize(x)[k - o + 1]
    BY Zenon DEF TailOf
  <2>2. CASE k = i
    BY <2>2, <1>2, Zenon
  <2>3. CASE k # i
    BY <2>3, <1>3, <1>4, Zenon DEF TailOf
  <2>4. QED
    BY <2>2, <2>3, Zenon
<1>5. ASSUME HeadersOf(f, o, S) PROVE HeadersOf(g, o, S)
  <2>1. SUFFICES ASSUME NEW k \in o .. FileSize - 1
                 PROVE  \/ ~IsHeaderCell(g[k])
                        \/ \E x \in S : k < o + Total(x) /\ g[k] = serialize(x)[k - o + 1]
    BY Zenon DEF HeadersOf
  <2>2. CASE k = i
    BY <2>2, <1>2, Zenon
  <2>3. CASE k # i
    BY <2>3, <1>3, <1>5, Zenon DEF HeadersOf
  <2>4. QED
    BY <2>2, <2>3, Zenon
<1>6. QED
  BY <1>4, <1>5, Zenon

\* Files with the same cells are the same.
LEMMA SameFile ==
  ASSUME NEW f \in [Offsets -> Cell], NEW g \in [Offsets -> Cell], \A k \in Offsets : g[k] = f[k]
  PROVE  g = f
OBVIOUS

\* A prefix starts its records where the whole sequence does.
LEMMA StartPrefix ==
  ASSUME NEW s \in Seq(Writable), NEW n \in Nat, n <= Len(s), NEW t, t = SubSeq(s, 1, n)
  PROVE  /\ t \in Seq(Writable) /\ Len(t) = n /\ \A k \in 1 .. n : t[k] = s[k]
         /\ \A k \in 0 .. n : Start(t)[k] = Start(s)[k]
         /\ Start(t)[n] = Start(s)[n] /\ Start(t)[n] <= Start(s)[Len(s)]
<1>1. t \in Seq(Writable) /\ Len(t) = n /\ \A k \in 1 .. n : t[k] = s[k]
  OBVIOUS
<1>2. \A k \in 0 .. n : Start(t)[k] = Start(s)[k]
  <2>1. n <= Len(t)
    OBVIOUS
  <2>2. QED
    BY <1>1, <2>1, StartAgree, Zenon
<1>3. Start(s)[n] <= Start(s)[Len(s)]
  <2>1. CASE n = Len(s)
    <3>1. Start(s)[Len(s)] \in Nat
      BY StartOrder
    <3>2. QED
      BY <2>1, <3>1
  <2>2. CASE n < Len(s)
    <3>1. n \in 0 .. Len(s) /\ Len(s) \in 0 .. Len(s) /\ n + 1 \in 1 .. Len(s)
      BY <2>2
    <3>2. Start(s)[n] \in Nat /\ Start(s)[Len(s)] \in Nat /\ Start(s)[n] + Total(s[n + 1]) <= Start(s)[Len(s)]
      BY <2>2, <3>1, StartOrder, Zenon
    <3>3. Total(s[n + 1]) \in Nat
      <4>1. s[n + 1] \in Writable
        BY <3>1
      <4>2. QED
        BY <4>1, RecordFacts, Zenon
    <3>4. QED
      BY <3>2, <3>3
  <2>3. QED
    BY <2>1, <2>2
<1>4. QED
  BY <1>2, <1>3

\* The end of what the writer has appended is in the file.
LEMMA OffsetInFile ==
  ASSUME WalInv
  PROVE  /\ appended \in Seq(Writable) /\ Len(appended) \in Nat
         /\ currentOffset \in Nat /\ currentOffset = Start(appended)[Len(appended)]
         /\ currentOffset <= FileSize /\ Start(appended)[Len(appended)] <= FileSize
         /\ IsFile(mem) /\ IsFile(disk)
<1>1. appended \in Seq(Writable) /\ currentOffset = Start(appended)[Len(appended)]
  BY Zenon DEF WalInv, WriterInv
<1>2. currentOffset \in 0 .. FileSize /\ mem \in [Offsets -> Cell] /\ disk \in [Offsets -> Cell]
  BY Zenon DEF WalInv, TypeOK
<1>3. IsFile(mem) /\ IsFile(disk)
  BY <1>2, CellsAreFile, Zenon
<1>4. QED
  BY <1>1, <1>2, <1>3

-----------------------------------------------------------------------------
(***************************************************************************)
(* The invariant is kept by every action.                                  *)
(***************************************************************************)

\* The reader does not disturb what is said of the writer and the file.
LEMMA WriterUnchanged ==
  ASSUME WriterInv, FileInv, HeaderInv, UNCHANGED <<fileVars, writerVars, historyVars>>
  PROVE  WriterInv' /\ FileInv' /\ HeaderInv'
<1>1. /\ mem' = mem /\ disk' = disk /\ wstate' = wstate /\ flushOnAppend' = flushOnAppend
      /\ currentOffset' = currentOffset /\ nextSequence' = nextSequence
      /\ recordsWritten' = recordsWritten /\ record' = record /\ todo' = todo
      /\ appended' = appended /\ synced' = synced /\ tried' = tried /\ attempts' = attempts
      /\ flushFailed' = flushFailed /\ powerLost' = powerLost
  BY Zenon DEF fileVars, writerVars, historyVars
<1>2. WriterInv'
  BY <1>1, Zenon DEF WriterInv
<1>3. FileInv'
  BY <1>1, Zenon DEF FileInv
<1>4. HeaderInv'
  BY <1>1, Zenon DEF HeaderInv
<1>5. QED
  BY <1>2, <1>3, <1>4, Zenon

\* Trying a record does not disturb what is said of the reader.
LEMMA ReaderUnchanged ==
  ASSUME ReaderTypes, ReaderInv, UNCHANGED <<readerVars, mem, appended>>,
         tried \subseteq tried', flushFailed \in BOOLEAN, flushFailed => flushFailed'
  PROVE  ReaderTypes' /\ ReaderInv'
<1>1. /\ ropen' = ropen /\ roffset' = roffset /\ recordsRead' = recordsRead
      /\ header' = header /\ delivered' = delivered /\ mem' = mem /\ appended' = appended
  BY Zenon DEF readerVars
<1>2. ReaderTypes'
  BY <1>1, Zenon DEF ReaderTypes
<1>3. ReaderInv'
  BY <1>1, Zenon DEF ReaderInv
<1>4. QED
  BY <1>2, <1>3, Zenon

\* A reader that has returned nothing.
LEMMA ReaderFresh ==
  ASSUME appended' \in Seq(Writable), roffset' = 0, delivered' = <<>>, header' = <<>>
  PROVE  ReaderTypes' /\ ReaderInv'
<1>1. Len(delivered') = 0 /\ delivered' \in Seq(Writable) /\ delivered' \in Seq(Range(delivered'))
  OBVIOUS
<1>2. ReaderTypes'
  BY DEF ReaderTypes
<1>3. ReaderInv'
  <2>1. Start(delivered')[0] = 0
    BY <1>1, StartEquation, Zenon
  <2>2. Stored(mem', delivered', 0)
    BY DEF Stored
  <2>3. QED
    BY <2>1, <2>2 DEF ReaderInv
<1>4. QED
  BY <1>2, <1>3, Zenon

\* The facts of an empty file.
LEMMA EmptyFile ==
  ASSUME NEW f, f = [i \in Offsets |-> Zero]
  PROVE  /\ f \in [Offsets -> Cell]
         /\ \A n : Stored(f, <<>>, n)
         /\ \A S : TailOf(f, 0, S) /\ HeadersOf(f, 0, S)
         /\ Replay(f) = [records |-> <<>>, status |-> "empty", end |-> 0]
<1>1. f \in [Offsets -> Cell]
  BY CellCases, Zenon
<1>2. \A n : Stored(f, <<>>, n)
  BY DEF Stored
<1>3. \A i \in 0 .. FileSize - 1 : f[i] = Zero
  BY Zenon DEF Offsets
<1>4. ~IsHeaderCell(Zero)
  BY Zenon DEF IsHeaderCell, Zero
<1>5. \A S : TailOf(f, 0, S) /\ HeadersOf(f, 0, S)
  BY <1>3, <1>4, Zenon DEF TailOf, HeadersOf
<1>6. Replay(f) = [records |-> <<>>, status |-> "empty", end |-> 0]
  <2>1. 0 \in 0 .. FileSize /\ IsFile(f)
    BY <1>1, SizeAssumption, CellsAreFile
  <2>2. NextStatus(f, 0) = "empty"
    BY <1>3, <2>1, NextOfZeros, Zenon
  <2>3. ReplayFrom(f)[0] = [records |-> <<>>, status |-> NextStatus(f, 0), end |-> 0]
    BY <2>1, <2>2, ReplaySteps, Zenon
  <2>4. QED
    BY <2>2, <2>3, Zenon DEF Replay
<1>7. QED
  BY <1>1, <1>2, <1>5, <1>6, Zenon

\* The end of no records is offset 0.
LEMMA EmptyStart == <<>> \in Seq(Writable) /\ Len(<<>>) = 0 /\ Start(<<>>)[0] = 0
<1>1. <<>> \in Seq(Writable) /\ Len(<<>>) = 0
  OBVIOUS
<1>2. QED
  BY <1>1, StartEquation, Zenon

\* The values a new writer and a new reader start with have their types.
LEMMA ZeroTypes ==
  /\ 0 \in 0 .. FileSize /\ 0 \in 0 .. MaxAttempts
  /\ <<>> \in Seq(Record) /\ Len(<<>>) = 0 /\ 0 \in 0 .. Len(<<>>)
BY SizeAssumption

\* The invariant holds before the first writer is created.
LEMMA InitInv == Init => WalInv
<1> SUFFICES ASSUME Init PROVE WalInv
  BY Zenon
<1> USE DEF Init
<1>1. TypeOK
  <2>1. mem \in [Offsets -> Cell] /\ disk \in [Offsets -> Cell]
    BY EmptyFile, Zenon
  <2>2. QED
    BY <2>1, ZeroTypes, Zenon DEF TypeOK
<1>2. WriterInv
  BY EmptyStart DEF WriterInv
<1>3. FileInv /\ HeaderInv
  BY EmptyFile, Zenon DEF FileInv, HeaderInv
<1>4. ReaderTypes
  BY DEF ReaderTypes
<1>5. ReaderInv
  <2>1. Stored(mem, delivered, Len(delivered))
    BY EmptyFile, Zenon
  <2>2. QED
    BY EmptyStart, <2>1 DEF ReaderInv
<1>6. QED
  BY <1>1, <1>2, <1>3, <1>4, <1>5, Zenon DEF WalInv

\* create() keeps the invariant, also when it fails: the new file is empty.
LEMMA CreateStep == WalInv /\ (Create \/ CreateFails) => WalInv'
<1> SUFFICES ASSUME WalInv, Create \/ CreateFails PROVE WalInv'
  BY Zenon
<1>1. /\ wstate \in {"none", "closed"} /\ ~ropen
      /\ wstate' \in {"none", "idle", "closed"} /\ flushOnAppend' \in BOOLEAN
      /\ mem' = [i \in Offsets |-> Zero] /\ disk' = mem'
      /\ currentOffset' = 0 /\ nextSequence' = 0 /\ recordsWritten' = 0
      /\ appended' = <<>> /\ synced' = 0 /\ tried' = {}
      /\ flushFailed' = FALSE /\ powerLost' = FALSE
      /\ record' = record /\ todo' = todo /\ attempts' = attempts
      /\ ropen' = ropen /\ roffset' = roffset /\ recordsRead' = recordsRead
      /\ header' = header /\ delivered' = delivered
  BY Zenon DEF Create, CreateFails, readerVars, WalInv, TypeOK
<1>2. roffset' = 0 /\ delivered' = <<>> /\ header' = <<>> /\ record' = <<>> /\ todo' = {}
  BY <1>1, Zenon DEF WalInv, ReaderTypes, WriterInv
<1>3. attempts' \in 0 .. MaxAttempts /\ ropen' \in BOOLEAN /\ recordsRead' = Len(delivered')
  BY <1>1, Zenon DEF WalInv, TypeOK
<1>4. TypeOK'
  <2>1. mem' \in [Offsets -> Cell] /\ disk' \in [Offsets -> Cell]
    BY <1>1, EmptyFile, Zenon
  <2>2. QED
    BY <1>1, <1>2, <1>3, <2>1, ZeroTypes, Zenon DEF TypeOK
<1>5. WriterInv'
  BY <1>1, <1>2, <1>3, EmptyStart DEF WriterInv
<1>6. FileInv' /\ HeaderInv'
  BY <1>1, EmptyFile, Zenon DEF FileInv, HeaderInv
<1>7. appended' \in Seq(Writable)
  BY <1>1
<1>8. QED
  BY <1>2, <1>4, <1>5, <1>6, <1>7, ReaderFresh, Zenon DEF WalInv

\* The start of append() keeps the invariant: nothing is in the file yet,
\* and the record fits.
LEMMA AppendStartStep == \A p \in Payload : WalInv /\ AppendStart(p) => WalInv'
<1> SUFFICES ASSUME NEW p \in Payload, WalInv, AppendStart(p) PROVE WalInv'
  BY Zenon
<1> DEFINE r == [sequence |-> nextSequence, timestamp |-> attempts + 1, payload |-> p]
<1>1. /\ wstate = "idle" /\ attempts < MaxAttempts /\ Len(p) <= MaxPayload
      /\ record_total_size(Len(p)) <= remaining_space
      /\ record' = r
      /\ todo' = currentOffset .. currentOffset + record_total_size(Len(p)) - 1
      /\ attempts' = attempts + 1 /\ tried' = tried \cup {r} /\ wstate' = "copy"
      /\ mem' = mem /\ disk' = disk /\ flushOnAppend' = flushOnAppend
      /\ currentOffset' = currentOffset /\ nextSequence' = nextSequence
      /\ recordsWritten' = recordsWritten
      /\ ropen' = ropen /\ roffset' = roffset /\ recordsRead' = recordsRead
      /\ header' = header /\ delivered' = delivered
      /\ appended' = appended /\ synced' = synced
      /\ flushFailed' = flushFailed /\ powerLost' = powerLost
  BY Zenon DEF AppendStart, fileVars, readerVars
<1>2. /\ nextSequence = Len(appended) /\ recordsWritten = Len(appended) /\ Len(appended) <= attempts
      /\ attempts \in 0 .. MaxAttempts /\ currentOffset \in 0 .. FileSize /\ Len(appended) \in Nat
      /\ Len(p) \in Nat /\ ~powerLost /\ tried \in SUBSET Writable /\ tried \in SUBSET Record
  <2>1. Len(p) \in Nat /\ ~powerLost
    BY <1>1 DEF WalInv, WriterInv
  <2>2. attempts \in 0 .. MaxAttempts /\ currentOffset \in 0 .. FileSize /\ tried \in SUBSET Record
    BY Zenon DEF WalInv, TypeOK
  <2>3. /\ nextSequence = Len(appended) /\ recordsWritten = Len(appended)
        /\ appended \in Seq(Writable) /\ tried \in SUBSET Writable
    BY Zenon DEF WalInv, WriterInv
  <2>4. Len(appended) <= attempts
    BY <1>1, Zenon DEF WalInv, WriterInv
  <2>5. QED
    BY <2>1, <2>2, <2>3, <2>4
<1>3. r \in Writable /\ r \in Record /\ r.sequence = Len(appended) /\ r.payload = p
  <2>1. nextSequence \in 0 .. MaxAttempts /\ attempts + 1 \in 1 .. MaxAttempts
    BY <1>1, <1>2, SizeAssumption
  <2>2. r \in Record
    BY <2>1, Zenon DEF Record
  <2>3. QED
    BY <1>1, <1>2, <2>2, Zenon DEF Writable
<1> HIDE DEF r
<1>4. /\ Total(r) = record_total_size(Len(p)) /\ Total(r) \in Nat
      /\ currentOffset + Total(r) <= FileSize /\ todo' = currentOffset .. currentOffset + Total(r) - 1
      /\ todo' \subseteq Offsets
  <2>1. Total(r) = record_total_size(Len(p)) /\ Total(r) \in Nat
    BY <1>3, RecordFacts, Zenon DEF Total
  <2>2. currentOffset + Total(r) <= FileSize
    <3>1. record_total_size(Len(p)) <= FileSize - currentOffset
      BY <1>1, Zenon DEF remaining_space
    <3>2. QED
      BY <1>2, <2>1, <3>1, SizeAssumption
  <2>3. todo' = currentOffset .. currentOffset + Total(r) - 1
    BY <1>1, <2>1, Zenon
  <2>4. currentOffset .. currentOffset + Total(r) - 1 \subseteq Offsets
    BY <1>2, <2>1, <2>2, SizeAssumption DEF Offsets
  <2>5. QED
    BY <2>1, <2>2, <2>3, <2>4, Zenon
<1>5. TypeOK'
  <2>1. attempts' \in 0 .. MaxAttempts /\ tried' \in SUBSET Record
    BY <1>1, <1>2, <1>3, SizeAssumption
  <2>2. QED
    BY <1>1, <1>4, <2>1, Zenon DEF WalInv, TypeOK
<1>6. WriterInv'
  <2>1. tried' \in SUBSET Writable /\ record' \in tried' /\ record'.sequence = Len(appended')
    BY <1>1, <1>2, <1>3, Zenon
  <2>2. Len(appended') < attempts'
    BY <1>1, <1>2
  <2>3. currentOffset' + Total(record') <= FileSize
    BY <1>1, <1>4, Zenon
  <2>4. todo' \subseteq currentOffset' .. currentOffset' + Total(record') - 1
    BY <1>1, <1>4, Zenon
  <2>5. QED
    BY <1>1, <2>1, <2>2, <2>3, <2>4, Zenon DEF WalInv, WriterInv
<1>7. FileInv'
  <2>1. ~flushFailed' => TailOf(mem', currentOffset', tried') /\ TailOf(disk', currentOffset', tried')
    BY <1>1, TailMore, Zenon DEF WalInv, FileInv
  <2>2. (currentOffset' .. currentOffset' + Total(record') - 1) \ todo' = {}
    BY <1>1, <1>4, Zenon
  <2>3. QED
    BY <1>1, <2>1, <2>2, Zenon DEF WalInv, FileInv
<1>8. HeaderInv'
  BY <1>1, TailMore, Zenon DEF WalInv, HeaderInv
<1>9. ReaderTypes' /\ ReaderInv'
  <2>1. flushFailed \in BOOLEAN /\ ReaderTypes /\ ReaderInv /\ UNCHANGED <<readerVars, mem, appended>>
    BY <1>1, Zenon DEF WalInv, TypeOK, readerVars
  <2>2. QED
    BY <1>1, <2>1, ReaderUnchanged, Zenon
<1>10. QED
  BY <1>5, <1>6, <1>7, <1>8, <1>9, Zenon DEF WalInv

\* Each memcpy of append() keeps the invariant.  The cell lies behind the
\* appended records; a reader that has its old value has seen a zero there.
LEMMA CopyCellStep == \A i \in Offsets : WalInv /\ CopyCell(i) => WalInv'
<1> SUFFICES ASSUME NEW i \in Offsets, WalInv, CopyCell(i) PROVE WalInv'
  BY Zenon
<1>1. /\ wstate = "copy" /\ i \in todo
      /\ mem' = [mem EXCEPT ![i] = serialize(record)[i - currentOffset + 1]]
      /\ todo' = todo \ {i}
      /\ disk' = disk /\ wstate' = wstate /\ flushOnAppend' = flushOnAppend
      /\ currentOffset' = currentOffset /\ nextSequence' = nextSequence
      /\ recordsWritten' = recordsWritten /\ record' = record
      /\ ropen' = ropen /\ roffset' = roffset /\ recordsRead' = recordsRead
      /\ header' = header /\ delivered' = delivered
      /\ appended' = appended /\ synced' = synced /\ tried' = tried /\ attempts' = attempts
      /\ flushFailed' = flushFailed /\ powerLost' = powerLost
  BY Zenon DEF CopyCell, readerVars, historyVars
<1>2. /\ record \in tried /\ record \in Writable /\ tried \in SUBSET Writable
      /\ currentOffset + Total(record) <= FileSize
      /\ i \in currentOffset .. currentOffset + Total(record) - 1
      /\ mem \in [Offsets -> Cell] /\ currentOffset \in Nat /\ ~powerLost
      /\ ~flushFailed => \A r, s \in tried : r = s
  <2>1. /\ record \in tried /\ tried \in SUBSET Writable
        /\ currentOffset + Total(record) <= FileSize
        /\ todo \subseteq currentOffset .. currentOffset + Total(record) - 1
        /\ powerLost => wstate = "closed"
        /\ ~flushFailed => \A r, s \in tried : r = s
    BY <1>1, Zenon DEF WalInv, WriterInv
  <2>2. mem \in [Offsets -> Cell] /\ currentOffset \in 0 .. FileSize
    BY Zenon DEF WalInv, TypeOK
  <2>3. currentOffset \in Nat
    BY <2>2
  <2>4. ~powerLost
    BY <1>1, <2>1
  <2>5. QED
    BY <1>1, <2>1, <2>2, <2>3, <2>4, Zenon
<1>3. /\ mem' \in [Offsets -> Cell]
      /\ mem'[i] = serialize(record)[i - currentOffset + 1]
      /\ \A k \in Offsets : k # i => mem'[k] = mem[k]
      /\ TailOf(mem, currentOffset, tried) => TailOf(mem', currentOffset, tried)
      /\ HeadersOf(mem, currentOffset, tried) => HeadersOf(mem', currentOffset, tried)
  <2> DEFINE c == serialize(record)[i - currentOffset + 1]
  <2>1. c \in Cell
    <3>1. Total(record) \in Nat
      BY <1>2, RecordFacts, Zenon
    <3>2. i - currentOffset + 1 \in 1 .. Total(record)
      BY <3>1, <1>2
    <3>3. QED
      BY <3>2, <1>2, SerializeInCell, Zenon
  <2>2. mem' = [mem EXCEPT ![i] = c]
    BY <1>1, Zenon
  <2>3. c = serialize(record)[i - currentOffset + 1]
    BY Zenon
  <2> HIDE DEF c
  <2>4. /\ mem' \in [Offsets -> Cell]
        /\ mem'[i] = c /\ \A k \in Offsets : k # i => mem'[k] = mem[k]
    BY <2>1, <2>2, <1>2, Zenon
  <2>5. QED
    BY <2>3, <2>4, <1>2, TailCopy, Zenon
<1>4. TypeOK'
  BY <1>1, <1>3, Zenon DEF WalInv, TypeOK
<1>5. WriterInv'
  BY <1>1, Zenon DEF WalInv, WriterInv
<1>6. \A k \in 0 .. currentOffset - 1 : mem'[k] = mem[k]
  <2>1. \A k \in 0 .. currentOffset - 1 : k \in Offsets /\ k # i
    BY <1>2, SizeAssumption DEF Offsets
  <2>2. QED
    BY <2>1, <1>3, Zenon
<1>7. FileInv'
  <2>1. Stored(mem', appended', IF powerLost' THEN synced' ELSE Len(appended'))
    <3>1. Stored(mem, appended, IF powerLost THEN synced ELSE Len(appended))
      BY Zenon DEF WalInv, FileInv
    <3>2. QED
      BY <1>1, <3>1, <1>6, OffsetInFile, StoredAgree, Zenon
  <2>2. ASSUME NEW k \in (currentOffset .. currentOffset + Total(record) - 1) \ todo'
        PROVE  mem'[k] = serialize(record)[k - currentOffset + 1]
    <3>1. k \in Offsets
      <4>1. Total(record) \in Nat
        BY <1>2, RecordFacts, Zenon
      <4>2. k \in currentOffset .. currentOffset + Total(record) - 1
        BY Zenon
      <4>3. FileSize \in Nat
        BY SizeAssumption, Zenon
      <4>4. QED
        BY <1>2, <4>1, <4>2, <4>3 DEF Offsets
    <3>2. k # i => k \notin todo
      BY <1>1, Zenon
    <3>3. k # i => mem[k] = serialize(record)[k - currentOffset + 1]
      BY <1>1, <3>2, Zenon DEF WalInv, FileInv
    <3>4. QED
      BY <1>3, <3>1, <3>3, Zenon
  <2>3. QED
    BY <1>1, <1>3, <2>1, <2>2, Zenon DEF WalInv, FileInv
<1>8. HeaderInv'
  BY <1>1, <1>3, Zenon DEF WalInv, HeaderInv
<1>9. ReaderTypes'
  BY <1>1, Zenon DEF WalInv, ReaderTypes
<1>10. ReaderInv'
  <2>1. SUFFICES ASSUME ~flushFailed
                 PROVE  /\ Stored(mem', delivered, Len(delivered))
                        /\ header # <<>> =>
                             \A j \in 1 .. HeaderCells : header[j] \in {Zero, mem'[roffset + j - 1]}
    BY <1>1, Zenon DEF WalInv, ReaderInv
  <2>2. /\ \/ Len(delivered) <= Len(appended) /\ delivered = SubSeq(appended, 1, Len(delivered))
           \/ \E r \in tried : delivered = Append(appended, r)
        /\ roffset = Start(delivered)[Len(delivered)]
        /\ Stored(mem, delivered, Len(delivered))
        /\ header # <<>> =>
             \A j \in 1 .. HeaderCells : header[j] \in {Zero, mem[roffset + j - 1]}
    BY <2>1, Zenon DEF WalInv, ReaderInv
  <2>3. mem[i] = Zero \/ mem[i] = mem'[i]
    <3>1. TailOf(mem, currentOffset, tried)
      BY <2>1, Zenon DEF WalInv, FileInv
    <3>2. i \in currentOffset .. FileSize - 1
      BY <1>2 DEF Offsets
    <3>3. QED
      BY <3>1, <3>2, <2>1, <1>2, <1>3, Zenon DEF TailOf
  <2>4. header # <<>> => \A j \in 1 .. HeaderCells : header[j] \in {Zero, mem'[roffset + j - 1]}
    <3>1. SUFFICES ASSUME header # <<>>, NEW j \in 1 .. HeaderCells
                   PROVE  header[j] \in {Zero, mem'[roffset + j - 1]}
      BY Zenon
    <3>2. roffset + j - 1 \in Offsets
      <4>1. /\ NextOffset(roffset, header) <= FileSize /\ SizeOf(header[2]) \in Nat
            /\ roffset \in 0 .. FileSize
        <5>1. header \in [1 .. HeaderCells -> Cell] /\ 2 \in 1 .. HeaderCells
          BY <3>1 DEF WalInv, ReaderTypes, HeaderCells
        <5>2. QED
          BY <3>1, <5>1, CellIsSized, Zenon DEF WalInv, ReaderTypes, TypeOK
      <4>2. QED
        BY <4>1, SizeAssumption DEF NextOffset, record_total_size, HeaderCells, Offsets
    <3>3. CASE roffset + j - 1 = i
      BY <3>1, <3>3, <2>2, <2>3, Zenon
    <3>4. CASE roffset + j - 1 # i
      BY <3>1, <3>2, <3>4, <2>2, <1>3, Zenon
    <3>5. QED
      BY <3>3, <3>4, Zenon
  <2>5. CASE Len(delivered) <= Len(appended) /\ delivered = SubSeq(appended, 1, Len(delivered))
    <3>1. delivered \in Seq(Writable) /\ Start(delivered)[Len(delivered)] <= currentOffset
      BY <2>5, OffsetInFile, StartPrefix
    <3>2. \A k \in 0 .. Start(delivered)[Len(delivered)] - 1 : mem'[k] = mem[k]
      <4>1. Start(delivered)[Len(delivered)] \in Nat
        BY <3>1, StartOrder
      <4>2. QED
        BY <4>1, <3>1, <1>2, <1>6
    <3>3. QED
      BY <3>1, <3>2, <2>2, <2>4, StoredAgree, Zenon
  <2>6. CASE \E r \in tried : delivered = Append(appended, r)
    <3>1. delivered = Append(appended, record)
      BY <2>6, <2>1, <1>2, Zenon
    <3>2. mem'[i] = mem[i]
      <4>1. Len(delivered) = Len(appended) + 1 /\ Len(appended) \in Nat
        BY <3>1
      <4>2. Laid(mem, Start(delivered)[Len(appended)], record)
        <5>1. delivered[Len(appended) + 1] = record /\ (Len(appended) + 1) - 1 = Len(appended)
          BY <3>1
        <5>2. Len(appended) + 1 \in 1 .. Len(delivered) /\ Len(appended) + 1 <= Len(delivered)
          BY <4>1
        <5>3. QED
          BY <5>1, <5>2, <2>2, Zenon DEF Stored
      <4>3. Start(delivered)[Len(appended)] = currentOffset
        BY <3>1, <1>2, OffsetInFile, StartAppend
      <4>4. i - currentOffset + 1 \in 1 .. Total(record) /\ currentOffset + (i - currentOffset + 1) - 1 = i
        <5>1. Total(record) \in Nat
          BY <1>2, RecordFacts, Zenon
        <5>2. QED
          BY <5>1, <1>2
      <4>5. QED
        BY <4>2, <4>3, <4>4, <1>3, Zenon DEF Laid
    <3>3. mem' = mem
      <4>1. \A k \in Offsets : mem'[k] = mem[k]
        BY <3>2, <1>3, Zenon
      <4>2. QED
        BY <4>1, <1>2, <1>3, SameFile, Zenon
    <3>4. QED
      BY <3>3, <2>2, Zenon
  <2>7. QED
    BY <2>2, <2>5, <2>6, Zenon
<1>11. QED
  BY <1>4, <1>5, <1>7, <1>8, <1>9, <1>10, Zenon DEF WalInv

\* An append() whose flush fails keeps the invariant: its record stays one of
\* those tried.
LEMMA FlushFailsStep == WalInv /\ AppendFlushFails => WalInv'
<1> SUFFICES ASSUME WalInv, AppendFlushFails PROVE WalInv'
  BY Zenon
<1>1. /\ wstate = "copy" /\ todo = {} /\ flushOnAppend
      /\ wstate' = "idle" /\ record' = <<>> /\ flushFailed' = TRUE
      /\ mem' = mem /\ disk' = disk /\ flushOnAppend' = flushOnAppend
      /\ currentOffset' = currentOffset /\ nextSequence' = nextSequence
      /\ recordsWritten' = recordsWritten /\ todo' = todo
      /\ ropen' = ropen /\ roffset' = roffset /\ recordsRead' = recordsRead
      /\ header' = header /\ delivered' = delivered
      /\ appended' = appended /\ synced' = synced /\ tried' = tried /\ attempts' = attempts
      /\ powerLost' = powerLost
  BY Zenon DEF AppendFlushFails, fileVars, readerVars
<1>2. TypeOK'
  BY <1>1, Zenon DEF WalInv, TypeOK
<1>3. WriterInv'
  <2>1. Len(appended) <= attempts
    <3>1. Len(appended) \in Nat /\ attempts \in 0 .. MaxAttempts /\ Len(appended) < attempts
      BY <1>1 DEF WalInv, WriterInv, TypeOK
    <3>2. QED
      BY <3>1
  <2>2. QED
    BY <1>1, <2>1, Zenon DEF WalInv, WriterInv
<1>4. FileInv' /\ HeaderInv'
  BY <1>1, Zenon DEF WalInv, FileInv, HeaderInv
<1>5. ReaderTypes' /\ ReaderInv'
  BY <1>1, Zenon DEF WalInv, ReaderTypes, ReaderInv
<1>6. QED
  BY <1>2, <1>3, <1>4, <1>5, Zenon DEF WalInv

\* The end of append() keeps the invariant: all cells of the record are in
\* the file, and what was tried is now appended.
LEMMA AppendOkStep == WalInv /\ AppendOk => WalInv'
<1> SUFFICES ASSUME WalInv, AppendOk PROVE WalInv'
  BY Zenon
<1>1. /\ wstate = "copy" /\ todo = {}
      /\ disk' = IF flushOnAppend THEN mem ELSE disk
      /\ synced' = IF flushOnAppend THEN Len(appended) + 1 ELSE synced
      /\ currentOffset' = currentOffset + Total(record)
      /\ nextSequence' = nextSequence + 1 /\ recordsWritten' = recordsWritten + 1
      /\ appended' = Append(appended, record) /\ tried' = {}
      /\ wstate' = "idle" /\ record' = <<>>
      /\ mem' = mem /\ flushOnAppend' = flushOnAppend /\ todo' = todo
      /\ ropen' = ropen /\ roffset' = roffset /\ recordsRead' = recordsRead
      /\ header' = header /\ delivered' = delivered
      /\ attempts' = attempts /\ flushFailed' = flushFailed /\ powerLost' = powerLost
  BY Zenon DEF AppendOk, readerVars, Total
<1>2. /\ record \in tried /\ record \in Writable /\ record \in Record /\ tried \in SUBSET Writable
      /\ record.sequence = Len(appended) /\ Len(appended) < attempts
      /\ currentOffset + Total(record) <= FileSize
      /\ mem \in [Offsets -> Cell] /\ disk \in [Offsets -> Cell] /\ ~powerLost
      /\ ~flushFailed => \A r, s \in tried : r = s
      /\ nextSequence = Len(appended) /\ recordsWritten = Len(appended)
      /\ attempts \in 0 .. MaxAttempts /\ synced \in 0 .. Len(appended)
      /\ appended \in Seq(Record) /\ flushOnAppend \in BOOLEAN /\ flushFailed \in BOOLEAN
      /\ flushFailed => flushOnAppend
  BY <1>1, Zenon DEF WalInv, WriterInv, TypeOK, Writable
<1>3. /\ appended \in Seq(Writable) /\ Len(appended) \in Nat /\ currentOffset \in Nat
      /\ currentOffset = Start(appended)[Len(appended)] /\ Total(record) \in Nat
  BY <1>2, OffsetInFile, RecordFacts, Zenon
<1>4. /\ appended' \in Seq(Writable) /\ Len(appended') = Len(appended) + 1
      /\ \A k \in 1 .. Len(appended) : appended'[k] = appended[k]
      /\ appended'[Len(appended) + 1] = record
      /\ Start(appended')[Len(appended) + 1] = currentOffset'
  <2>1. appended' = Append(appended, record) /\ currentOffset' = currentOffset + Total(record)
    BY <1>1, Zenon
  <2>2. Start(Append(appended, record))[Len(appended) + 1] = currentOffset + Total(record)
    BY <1>2, <1>3, StartAppend, Zenon
  <2>3. record \in Writable
    BY <1>2, Zenon
  <2>4. QED
    BY <1>3, <2>1, <2>2, <2>3
<1>5. TypeOK'
  <2>1. appended' \in Seq(Record)
    <3>1. appended' = Append(appended, record) /\ appended \in Seq(Record) /\ record \in Record
      BY <1>1, <1>2, Zenon
    <3>2. QED
      BY <3>1
  <2>2. currentOffset' \in 0 .. FileSize
    <3>1. currentOffset' = currentOffset + Total(record) /\ currentOffset + Total(record) <= FileSize
      BY <1>1, <1>2, Zenon
    <3>2. QED
      BY <1>3, <3>1, SizeAssumption
  <2>3. synced' \in 0 .. Len(appended')
    <3>1. synced' = Len(appended) + 1 \/ synced' = synced
      BY <1>1, Zenon
    <3>2. QED
      BY <1>2, <1>3, <1>4, <3>1
  <2>4. nextSequence' \in 0 .. MaxAttempts /\ recordsWritten' \in 0 .. MaxAttempts
    <3>1. nextSequence' = Len(appended) + 1 /\ recordsWritten' = Len(appended) + 1
      BY <1>1, <1>2, Zenon
    <3>2. Len(appended) < attempts /\ attempts \in 0 .. MaxAttempts
      BY <1>2, Zenon
    <3>3. QED
      BY <1>3, <3>1, <3>2, SizeAssumption
  <2>5. QED
    BY <1>1, <2>1, <2>2, <2>3, <2>4, Zenon DEF WalInv, TypeOK
<1>6. WriterInv'
  <2>1. ASSUME NEW k \in 1 .. Len(appended') PROVE appended'[k].sequence = k - 1
    <3>1. CASE k \in 1 .. Len(appended)
      BY <3>1, <1>4, Zenon DEF WalInv, WriterInv
    <3>2. CASE k = Len(appended) + 1
      BY <3>2, <1>2, <1>4
    <3>3. QED
      BY <3>1, <3>2, <1>4
  <2>2. QED
    BY <1>1, <1>2, <1>4, <2>1 DEF WriterInv
<1>7. Laid(mem, currentOffset, record)
  <2>1. SUFFICES ASSUME NEW j \in 1 .. Total(record)
                 PROVE  mem[currentOffset + j - 1] = serialize(record)[j]
    BY Zenon DEF Laid
  <2> DEFINE i == currentOffset + j - 1
  <2>2. i \in (currentOffset .. currentOffset + Total(record) - 1) \ todo /\ i - currentOffset + 1 = j
    BY <1>1, <1>3, CellIndex, Zenon
  <2> HIDE DEF i
  <2>3. mem[i] = serialize(record)[i - currentOffset + 1]
    BY <1>1, <2>2, Zenon DEF WalInv, FileInv
  <2>4. QED
    BY <2>2, <2>3, Zenon DEF i
<1>8. Stored(mem, appended, Len(appended)) /\ Stored(disk, appended, synced)
  BY <1>2, Zenon DEF WalInv, FileInv
<1>9. Stored(mem', appended', Len(appended'))
  <2>1. Stored(mem, appended, Len(appended) + 1)
    BY <1>8 DEF Stored
  <2>2. QED
    BY <2>1, <1>1, <1>3, <1>4, <1>7, StoredAppend
<1>10. Stored(disk', appended', synced')
  <2>1. CASE flushOnAppend
    BY <2>1, <1>1, <1>9
  <2>2. CASE ~flushOnAppend
    <3>1. Partly(disk, currentOffset, record)
      <4>1. TailOf(disk, currentOffset, tried) /\ \A x, y \in tried : x = y
        BY <2>2, <1>2, Zenon DEF WalInv, FileInv
      <4>2. QED
        BY <4>1, <1>2, <1>3, TailPartly, Zenon
    <3>2. Stored(disk, Append(appended, record), synced)
      <4>1. synced \in 0 .. Len(appended)
        BY <1>2, Zenon
      <4>2. synced \in 0 .. Len(appended) + 1 /\ synced # Len(appended) + 1
        BY <4>1, <1>3
      <4>3. QED
        BY <4>2, <3>1, <1>2, <1>3, <1>8, StoredAppend, Zenon
    <3>3. QED
      BY <3>2, <2>2, <1>1, Zenon
  <2>3. QED
    BY <2>1, <2>2, Zenon
<1>11. FileInv'
  <2>1. ASSUME ~flushFailed
        PROVE  TailOf(mem, currentOffset', {}) /\ TailOf(disk, currentOffset', {})
    <3>1. /\ TailOf(mem, currentOffset, tried) /\ TailOf(disk, currentOffset, tried)
          /\ \A x, y \in tried : x = y
      BY <2>1, <1>2, Zenon DEF WalInv, FileInv
    <3>2. QED
      BY <3>1, <1>1, <1>2, <1>3, TailAfter, Zenon
  <2>2. ~flushFailed' => TailOf(mem', currentOffset', tried') /\ TailOf(disk', currentOffset', tried')
    BY <2>1, <1>1, Zenon
  <2>3. QED
    BY <1>1, <1>2, <1>9, <1>10, <2>2, Zenon DEF FileInv
<1>12. HeaderInv'
  <2>1. ASSUME DataPayloads \/ SameSize
        PROVE  HeadersOf(mem, currentOffset', {}) /\ HeadersOf(disk, currentOffset', {})
    <3>1. HeadersOf(mem, currentOffset, tried) /\ HeadersOf(disk, currentOffset, tried)
      BY <2>1, Zenon DEF WalInv, HeaderInv
    <3>2. Apart(tried) /\ tried \in SUBSET Writable /\ record \in tried
      BY <2>1, <1>1, AlwaysApart, Zenon DEF WalInv, WriterInv
    <3>3. QED
      BY <3>1, <3>2, <1>1, <1>2, <1>3, HeadersAfter, Zenon
  <2>2. QED
    BY <2>1, <1>1, Zenon DEF HeaderInv
<1>13. ReaderTypes'
  BY <1>1, Zenon DEF WalInv, ReaderTypes
<1>14. ReaderInv'
  <2>1. SUFFICES ASSUME ~flushFailed
                 PROVE  Len(delivered) <= Len(appended') /\ delivered = SubSeq(appended', 1, Len(delivered))
    BY <1>1, Zenon DEF WalInv, ReaderInv
  <2>2. CASE Len(delivered) <= Len(appended) /\ delivered = SubSeq(appended, 1, Len(delivered))
    <3>1. Len(delivered) <= Len(appended')
      BY <2>2, <1>4
    <3>2. SubSeq(appended', 1, Len(delivered)) = SubSeq(appended, 1, Len(delivered))
      BY <2>2, <1>1
    <3>3. QED
      BY <2>2, <3>1, <3>2, Zenon
  <2>3. CASE \E r \in tried : delivered = Append(appended, r)
    <3>1. delivered = appended'
      BY <2>3, <2>1, <1>1, <1>2, Zenon
    <3>2. SubSeq(appended', 1, Len(appended')) = appended' /\ Len(appended') \in Nat
      BY <1>4
    <3>3. QED
      BY <3>1, <3>2
  <2>4. QED
    BY <2>1, <2>2, <2>3, Zenon DEF WalInv, ReaderInv
<1>15. QED
  BY <1>5, <1>6, <1>11, <1>12, <1>13, <1>14, Zenon DEF WalInv

\* flush() keeps the invariant.
LEMMA FlushStep == WalInv /\ Flush => WalInv'
<1> SUFFICES ASSUME WalInv, Flush PROVE WalInv'
  BY Zenon
<1>1. /\ wstate = "idle" /\ disk' = mem /\ synced' = Len(appended)
      /\ mem' = mem /\ wstate' = wstate /\ flushOnAppend' = flushOnAppend
      /\ currentOffset' = currentOffset /\ nextSequence' = nextSequence
      /\ recordsWritten' = recordsWritten /\ record' = record /\ todo' = todo
      /\ ropen' = ropen /\ roffset' = roffset /\ recordsRead' = recordsRead
      /\ header' = header /\ delivered' = delivered
      /\ appended' = appended /\ tried' = tried /\ attempts' = attempts
      /\ flushFailed' = flushFailed /\ powerLost' = powerLost
  BY Zenon DEF Flush, writerVars, readerVars
<1>2. ~powerLost /\ flushFailed \in BOOLEAN /\ Len(appended) \in Nat
  BY <1>1 DEF WalInv, WriterInv, TypeOK
<1>3. TypeOK'
  BY <1>1 DEF WalInv, TypeOK
<1>4. WriterInv'
  BY <1>1, Zenon DEF WalInv, WriterInv
<1>5. FileInv' /\ HeaderInv'
  BY <1>1, <1>2, Zenon DEF WalInv, FileInv, HeaderInv
<1>6. ReaderTypes' /\ ReaderInv'
  BY <1>1, Zenon DEF WalInv, ReaderTypes, ReaderInv
<1>7. QED
  BY <1>3, <1>4, <1>5, <1>6, Zenon DEF WalInv

\* What can be on the disk when each page is the old one or the one in memory.
LEMMA DiskMixed ==
  ASSUME WalInv, NEW f, \A i \in Offsets : f[i] \in {mem[i], disk[i]}
  PROVE  /\ Stored(f, appended, synced)
         /\ ~flushFailed => TailOf(f, currentOffset, tried)
         /\ DataPayloads \/ SameSize => HeadersOf(f, currentOffset, tried)
<1> DEFINE n == IF powerLost THEN synced ELSE Len(appended)
<1>1. synced \in Nat /\ n \in Nat /\ synced <= n
  BY DEF WalInv, TypeOK
<1>2. Stored(mem, appended, n) /\ Stored(disk, appended, synced)
  BY Zenon DEF WalInv, FileInv
<1> HIDE DEF n
<1>3. Stored(f, appended, synced)
  BY <1>1, <1>2, OffsetInFile, StoredMix, Zenon
<1>4. ASSUME ~flushFailed PROVE TailOf(f, currentOffset, tried)
  <2>1. TailOf(mem, currentOffset, tried) /\ TailOf(disk, currentOffset, tried)
    BY <1>4, Zenon DEF WalInv, FileInv
  <2>2. QED
    BY <2>1, OffsetInFile, TailMix, Zenon
<1>5. ASSUME DataPayloads \/ SameSize PROVE HeadersOf(f, currentOffset, tried)
  <2>1. HeadersOf(mem, currentOffset, tried) /\ HeadersOf(disk, currentOffset, tried)
    BY <1>5, Zenon DEF WalInv, HeaderInv
  <2>2. QED
    BY <2>1, OffsetInFile, TailMix, Zenon
<1>6. QED
  BY <1>3, <1>4, <1>5, Zenon

\* The system writing back a page keeps the invariant.
LEMMA WriteBackStep == \A page \in Pages : WalInv /\ WriteBack(page) => WalInv'
<1> SUFFICES ASSUME NEW page \in Pages, WalInv, WriteBack(page) PROVE WalInv'
  BY Zenon
<1>1. /\ disk' = [i \in Offsets |-> IF i \div PageSize = page THEN mem[i] ELSE disk[i]]
      /\ mem' = mem /\ wstate' = wstate /\ flushOnAppend' = flushOnAppend
      /\ currentOffset' = currentOffset /\ nextSequence' = nextSequence
      /\ recordsWritten' = recordsWritten /\ record' = record /\ todo' = todo
      /\ ropen' = ropen /\ roffset' = roffset /\ recordsRead' = recordsRead
      /\ header' = header /\ delivered' = delivered
      /\ appended' = appended /\ synced' = synced /\ tried' = tried /\ attempts' = attempts
      /\ flushFailed' = flushFailed /\ powerLost' = powerLost
  BY Zenon DEF WriteBack, writerVars, readerVars, historyVars
<1>2. mem \in [Offsets -> Cell] /\ disk \in [Offsets -> Cell]
  BY Zenon DEF WalInv, TypeOK
<1>3. disk' \in [Offsets -> Cell] /\ \A i \in Offsets : disk'[i] \in {mem[i], disk[i]}
  BY <1>1, <1>2, Zenon
<1>4. /\ Stored(disk', appended, synced)
      /\ ~flushFailed => TailOf(disk', currentOffset, tried)
      /\ DataPayloads \/ SameSize => HeadersOf(disk', currentOffset, tried)
  BY <1>3, DiskMixed, Zenon
<1>5. TypeOK'
  BY <1>1, Zenon DEF WalInv, TypeOK
<1>6. WriterInv'
  <2>1. powerLost => disk' = disk
    <3>1. ASSUME powerLost PROVE \A i \in Offsets : disk'[i] = disk[i]
      BY <3>1, <1>3, Zenon DEF WalInv, WriterInv
    <3>2. QED
      BY <3>1, <1>2, <1>3
  <2>2. QED
    BY <1>1, <2>1, Zenon DEF WalInv, WriterInv
<1>7. FileInv' /\ HeaderInv'
  BY <1>1, <1>4, Zenon DEF WalInv, FileInv, HeaderInv
<1>8. ReaderTypes' /\ ReaderInv'
  BY <1>1, Zenon DEF WalInv, ReaderTypes, ReaderInv
<1>9. QED
  BY <1>5, <1>6, <1>7, <1>8, Zenon DEF WalInv

\* The writer ends: the file and the records are as they were.
LEMMA ClosingStep ==
  ASSUME WalInv, Closing
  PROVE  /\ appended' = appended /\ synced' = synced /\ tried' = tried /\ attempts' = attempts
         /\ flushFailed' = flushFailed /\ flushOnAppend' = flushOnAppend
         /\ currentOffset' = currentOffset /\ nextSequence' = nextSequence
         /\ recordsWritten' = recordsWritten
         /\ wstate' = "closed" /\ record' = <<>> /\ todo' = {}
         /\ (powerLost' => mem' = disk') => WriterInv'
<1>1. /\ appended' = appended /\ synced' = synced /\ tried' = tried /\ attempts' = attempts
      /\ flushFailed' = flushFailed /\ flushOnAppend' = flushOnAppend
      /\ currentOffset' = currentOffset /\ nextSequence' = nextSequence
      /\ recordsWritten' = recordsWritten
      /\ wstate' = "closed" /\ record' = <<>> /\ todo' = {}
  BY Zenon DEF Closing
<1>2. Len(appended) <= attempts
  <2>1. Len(appended) \in Nat /\ attempts \in 0 .. MaxAttempts
    BY DEF WalInv, TypeOK
  <2>2. QED
    BY <2>1 DEF WalInv, WriterInv
<1>3. (powerLost' => mem' = disk') => WriterInv'
  BY <1>1, <1>2, Zenon DEF WalInv, WriterInv
<1>4. QED
  BY <1>1, <1>3, Zenon

\* Closing the writer keeps the invariant, whether its msync works or not.
LEMMA CloseStep == WalInv /\ Close => WalInv'
<1> SUFFICES ASSUME WalInv, Close PROVE WalInv'
  BY Zenon
<1>1. /\ wstate = "idle" /\ disk' \in {mem, disk} /\ Closing
      /\ mem' = mem /\ ropen' = ropen /\ roffset' = roffset /\ recordsRead' = recordsRead
      /\ header' = header /\ delivered' = delivered /\ powerLost' = powerLost
  BY Zenon DEF Close, readerVars
<1>2. ~powerLost /\ flushFailed \in BOOLEAN
  BY <1>1, Zenon DEF WalInv, WriterInv, TypeOK
<1>3. /\ Stored(disk', appended, synced)
      /\ ~flushFailed => TailOf(disk', currentOffset, tried)
      /\ DataPayloads \/ SameSize => HeadersOf(disk', currentOffset, tried)
  BY <1>1, DiskMixed, Zenon
<1>4. TypeOK'
  BY <1>1, ClosingStep, Zenon DEF WalInv, TypeOK
<1>5. WriterInv'
  BY <1>1, <1>2, ClosingStep, Zenon
<1>6. FileInv' /\ HeaderInv'
  BY <1>1, <1>3, ClosingStep, Zenon DEF WalInv, FileInv, HeaderInv
<1>7. ReaderTypes' /\ ReaderInv'
  BY <1>1, ClosingStep, Zenon DEF WalInv, ReaderTypes, ReaderInv
<1>8. QED
  BY <1>4, <1>5, <1>6, <1>7, Zenon DEF WalInv

\* A kill of the writer, also in the middle of append(), keeps the invariant.
LEMMA KillStep == WalInv /\ Kill => WalInv'
<1> SUFFICES ASSUME WalInv, Kill PROVE WalInv'
  BY Zenon
<1>1. /\ wstate \in {"idle", "copy"} /\ Closing
      /\ mem' = mem /\ disk' = disk
      /\ ropen' = ropen /\ roffset' = roffset /\ recordsRead' = recordsRead
      /\ header' = header /\ delivered' = delivered /\ powerLost' = powerLost
  BY Zenon DEF Kill, readerVars, fileVars
<1>2. ~powerLost /\ flushFailed \in BOOLEAN
  BY <1>1, Zenon DEF WalInv, WriterInv, TypeOK
<1>3. TypeOK'
  BY <1>1, ClosingStep, Zenon DEF WalInv, TypeOK
<1>4. WriterInv'
  BY <1>1, <1>2, ClosingStep, Zenon
<1>5. FileInv' /\ HeaderInv'
  BY <1>1, ClosingStep, Zenon DEF WalInv, FileInv, HeaderInv
<1>6. ReaderTypes' /\ ReaderInv'
  BY <1>1, ClosingStep, Zenon DEF WalInv, ReaderTypes, ReaderInv
<1>7. QED
  BY <1>3, <1>4, <1>5, <1>6, Zenon DEF WalInv

\* A power loss keeps the invariant: the file is what was on the disk.
LEMMA PowerLossStep == WalInv /\ PowerLoss => WalInv'
<1> SUFFICES ASSUME WalInv, PowerLoss PROVE WalInv'
  BY Zenon
<1>1. /\ mem' = disk /\ powerLost' = TRUE /\ Closing /\ disk' = disk
      /\ ropen' = FALSE /\ roffset' = 0 /\ recordsRead' = 0 /\ header' = <<>> /\ delivered' = <<>>
  BY Zenon DEF PowerLoss
<1>2. TypeOK'
  BY <1>1, ZeroTypes, ClosingStep, Zenon DEF WalInv, TypeOK
<1>3. WriterInv'
  BY <1>1, ClosingStep, Zenon
<1>4. FileInv' /\ HeaderInv'
  BY <1>1, ClosingStep, Zenon DEF WalInv, FileInv, HeaderInv
<1>5. ReaderTypes' /\ ReaderInv'
  BY <1>1, OffsetInFile, ClosingStep, ReaderFresh, Zenon
<1>6. QED
  BY <1>2, <1>3, <1>4, <1>5, Zenon DEF WalInv

\* Opening a reader keeps the invariant.
LEMMA ReaderOpenStep == WalInv /\ ReaderOpen => WalInv'
<1> SUFFICES ASSUME WalInv, ReaderOpen PROVE WalInv'
  BY Zenon
<1>1. /\ UNCHANGED <<fileVars, writerVars, historyVars>>
      /\ ropen' = TRUE /\ roffset' = roffset /\ recordsRead' = recordsRead
      /\ header' = header /\ delivered' = delivered
  BY Zenon DEF ReaderOpen
<1>2. WriterInv' /\ FileInv' /\ HeaderInv'
  BY <1>1, WriterUnchanged, Zenon DEF WalInv
<1>3. TypeOK'
  BY <1>1, Zenon DEF WalInv, TypeOK, fileVars, writerVars, historyVars
<1>4. ReaderTypes' /\ ReaderInv'
  BY <1>1, Zenon DEF WalInv, ReaderTypes, ReaderInv, fileVars, historyVars
<1>5. QED
  BY <1>2, <1>3, <1>4, Zenon DEF WalInv

\* reset() and closing the reader keep the invariant.
LEMMA ReaderBackStep == WalInv /\ (ReaderReset \/ ReaderClose) => WalInv'
<1> SUFFICES ASSUME WalInv, ReaderReset \/ ReaderClose PROVE WalInv'
  BY Zenon
<1>1. /\ UNCHANGED <<fileVars, writerVars, historyVars>>
      /\ ropen' \in BOOLEAN /\ roffset' = 0 /\ recordsRead' = 0 /\ delivered' = <<>> /\ header' = <<>>
  BY Zenon DEF ReaderReset, ReaderClose, WalInv, TypeOK
<1>2. WriterInv' /\ FileInv' /\ HeaderInv'
  BY <1>1, WriterUnchanged, Zenon DEF WalInv
<1>3. TypeOK'
  BY <1>1, ZeroTypes, Zenon DEF WalInv, TypeOK, fileVars, writerVars, historyVars
<1>4. appended' \in Seq(Writable)
  BY <1>1, OffsetInFile, Zenon DEF historyVars
<1>5. QED
  BY <1>1, <1>2, <1>3, <1>4, ReaderFresh, Zenon DEF WalInv

\* The first half of next() keeps the invariant: the header it copies is that
\* of the file, for now.
LEMMA NextHeaderStep == WalInv /\ NextHeader => WalInv'
<1> SUFFICES ASSUME WalInv, NextHeader PROVE WalInv'
  BY Zenon
<1> DEFINE h == HeaderAt(mem, roffset)
<1>1. /\ ropen /\ header = <<>>
      /\ header' = IF HeaderStatus(mem, roffset) = "ok" THEN h ELSE <<>>
      /\ UNCHANGED <<fileVars, writerVars, historyVars>>
      /\ ropen' = ropen /\ roffset' = roffset /\ recordsRead' = recordsRead
      /\ delivered' = delivered
  BY Zenon DEF NextHeader
<1>2. WriterInv' /\ FileInv' /\ HeaderInv'
  BY <1>1, WriterUnchanged, Zenon DEF WalInv
<1>3. TypeOK'
  BY <1>1, Zenon DEF WalInv, TypeOK, fileVars, writerVars, historyVars
<1>4. roffset \in 0 .. FileSize /\ mem \in [Offsets -> Cell] /\ mem' = mem /\ ropen \in BOOLEAN
  BY <1>1, Zenon DEF WalInv, TypeOK, fileVars
<1>5. ASSUME HeaderStatus(mem, roffset) = "ok"
      PROVE  /\ h \in [1 .. HeaderCells -> Cell] /\ validate_header_shape(h)
             /\ NextOffset(roffset, h) <= FileSize
  <2>1. NextOffset(roffset, h) <= FileSize
    <3>1. NextOffset(roffset, h) \in roffset + 4 .. FileSize
      BY <1>4, <1>5, OffsetInFile, NextAdvances, Zenon
    <3> HIDE DEF h
    <3>2. QED
      BY <3>1
  <2>2. ~(FileSize - roffset < HeaderCells) /\ validate_header_shape(h)
    BY <1>5, Zenon DEF HeaderStatus
  <2>3. \A j \in 1 .. HeaderCells : roffset + j - 1 \in Offsets
    BY <2>2, <1>4, SizeAssumption DEF HeaderCells, Offsets
  <2>4. h \in [1 .. HeaderCells -> Cell]
    BY <2>3, <1>4, Zenon DEF HeaderAt
  <2>5. QED
    BY <2>1, <2>2, <2>4, Zenon
<1>6. \A j \in 1 .. HeaderCells : h[j] = mem[roffset + j - 1]
  BY HeaderAtCells, Zenon
<1> HIDE DEF h
<1>7. ReaderTypes'
  BY <1>1, <1>5, Zenon DEF WalInv, ReaderTypes
<1>8. ReaderInv'
  <2>1. header' # <<>> =>
          \A j \in 1 .. HeaderCells : header'[j] \in {Zero, mem'[roffset' + j - 1]}
    BY <1>1, <1>4, <1>6, Zenon
  <2>2. appended' = appended /\ tried' = tried /\ flushFailed' = flushFailed
    BY <1>1, Zenon DEF historyVars
  <2>3. QED
    BY <1>1, <1>4, <2>1, <2>2, Zenon DEF WalInv, ReaderInv
<1>9. QED
  BY <1>2, <1>3, <1>7, <1>8, Zenon DEF WalInv

Seen(f, o, h) == \A j \in 1 .. HeaderCells : h[j] \in {Zero, f[o + j - 1]}
HeadOf(f, o, r) == \A j \in 1 .. HeaderCells : f[o + j - 1] \in {Zero, serialize(r)[j]}

\* A record whose header was copied and whose payload passed the check lies in
\* the file, although the file may have changed in between.
LEMMA ReadIsLaid ==
  ASSUME NEW f, NEW o \in Nat, NEW r \in Writable, NEW h,
         Seen(f, o, h), HeadOf(f, o, r), validate_header_shape(h), PayloadStatus(f, o, h) = "ok"
  PROVE  /\ Laid(f, o, r)
         /\ NextRecord(f, o, h) = r
         /\ NextOffset(o, h) = o + Total(r)
<1>1. \A j \in {1, 2, 3, 4} : /\ h[j] = Zero \/ h[j] = f[o + j - 1]
                              /\ f[o + j - 1] = Zero \/ f[o + j - 1] = serialize(r)[j]
  <2>1. {1, 2, 3, 4} = 1 .. HeaderCells
    BY DEF HeaderCells
  <2>2. ASSUME NEW j \in {1, 2, 3, 4} PROVE h[j] = Zero \/ h[j] = f[o + j - 1]
    BY <2>1, Zenon DEF Seen
  <2>3. ASSUME NEW j \in {1, 2, 3, 4} PROVE f[o + j - 1] = Zero \/ f[o + j - 1] = serialize(r)[j]
    BY <2>1, Zenon DEF HeadOf
  <2>4. QED
    BY <2>2, <2>3, Zenon
<1>2. \A j \in {1, 2, 3, 4} : h[j] \in {Zero, serialize(r)[j]}
  BY <1>1, Zenon
<1>3. /\ \A j \in {2, 3, 4} : h[j] = serialize(r)[j]
      /\ PayloadAt(f, o, Len(r.payload)) = r.payload
      /\ NextRecord(f, o, h) = r
      /\ NextOffset(o, h) = o + Total(r)
  <2>1. (\A j \in {1, 3, 4} : h[j] \in {Zero, serialize(r)[j]}) /\ h[2] \in {Zero, serialize(r)[2]}
    BY <1>2, Zenon
  <2>2. QED
    BY <2>1, OkMeansRead, Zenon
<1>4. h[1] # Zero
  BY CellFacts, Zenon DEF validate_header_shape
<1>5. h[1] = serialize(r)[1]
  BY <1>2, <1>4, Zenon
<1>6. \A j \in {1, 2, 3, 4} : f[o + j - 1] = serialize(r)[j]
  <2>1. SUFFICES ASSUME NEW j \in {1, 2, 3, 4} PROVE f[o + j - 1] = serialize(r)[j]
    BY Zenon
  <2>2. h[j] = serialize(r)[j]
    BY <1>3, <1>5, Zenon
  <2>3. QED
    BY <2>2, <1>1, Zenon
<1>7. \A j \in 1 .. Total(r) : j > 4 => f[o + j - 1] = serialize(r)[j]
  BY <1>3, PayloadAtCells, Zenon
<1>8. Laid(f, o, r)
  <2>1. SUFFICES ASSUME NEW j \in 1 .. Total(r) PROVE f[o + j - 1] = serialize(r)[j]
    BY Zenon DEF Laid
  <2>2. QED
    BY <1>6, <1>7
<1>9. QED
  BY <1>3, <1>8, Zenon

\* A next() that returns a record returns the one after those it has returned:
\* the next appended one, or after all of them the one being appended.
LEMMA ReaderReads ==
  ASSUME WalInv, ~flushFailed, header # <<>>, PayloadStatus(mem, roffset, header) = "ok"
  PROVE  /\ delivered \in Seq(Writable)
         /\ \E r \in Writable :
              /\ NextRecord(mem, roffset, header) = r
              /\ NextOffset(roffset, header) = roffset + Total(r)
              /\ Laid(mem, roffset, r)
              /\ \/ /\ Len(delivered) + 1 <= Len(appended)
                    /\ Append(delivered, r) = SubSeq(appended, 1, Len(delivered) + 1)
                 \/ r \in tried /\ delivered = appended
<1> DEFINE n == Len(delivered)
<1>1. /\ \/ n <= Len(appended) /\ delivered = SubSeq(appended, 1, n)
         \/ \E r \in tried : delivered = Append(appended, r)
      /\ roffset = Start(delivered)[n] /\ roffset \in 0 .. FileSize
      /\ \A j \in 1 .. HeaderCells : header[j] \in {Zero, mem[roffset + j - 1]}
      /\ header \in [1 .. HeaderCells -> Cell] /\ validate_header_shape(header)
      /\ NextOffset(roffset, header) <= FileSize
      /\ delivered \in Seq(Range(delivered))
      /\ tried \in SUBSET Writable /\ \A x, y \in tried : x = y
      /\ TailOf(mem, currentOffset, tried)
  BY Zenon DEF WalInv, ReaderInv, ReaderTypes, WriterInv, FileInv, TypeOK
<1>2. /\ n \in Nat /\ appended \in Seq(Writable) /\ Len(appended) \in Nat /\ currentOffset \in Nat
      /\ currentOffset = Start(appended)[Len(appended)] /\ currentOffset <= FileSize
  BY OffsetInFile
<1>r. /\ roffset \in Nat /\ validate_header_shape(header)
      /\ Seen(mem, roffset, header) /\ PayloadStatus(mem, roffset, header) = "ok"
  BY <1>1 DEF Seen
<1>3. \A j \in 1 .. HeaderCells : roffset + j - 1 \in roffset .. FileSize - 1
  <2>1. SizeOf(header[2]) \in Nat
    <3>1. header[2] \in Cell
      BY <1>1 DEF HeaderCells
    <3>2. QED
      BY <3>1, CellIsSized, Zenon
  <2>2. roffset + HeaderCells + SizeOf(header[2]) <= FileSize
    <3>1. NextOffset(roffset, header) <= FileSize
      BY <1>1, Zenon
    <3>2. QED
      BY <1>r, <2>1, <3>1 DEF NextOffset, record_total_size, HeaderCells
  <2>3. QED
    BY <1>r, <2>1, <2>2, SizeAssumption DEF HeaderCells
<1>4. roffset \in roffset .. FileSize - 1 /\ mem[roffset] # Zero
  <2>1. 1 \in 1 .. HeaderCells /\ roffset + 1 - 1 = roffset
    BY <1>r DEF HeaderCells
  <2>2. header[1] # Zero
    BY <1>r, CellFacts, Zenon DEF validate_header_shape
  <2>3. header[1] = mem[roffset]
    BY <1>r, <2>1, <2>2, Zenon DEF Seen
  <2>4. QED
    BY <1>3, <2>1, <2>2, <2>3, Zenon
<1>5. CASE n < Len(appended) /\ delivered = SubSeq(appended, 1, n)
  <2> DEFINE r == appended[n + 1]
  <2>1. n + 1 \in 1 .. Len(appended) /\ (n + 1) - 1 = n /\ n <= Len(appended) /\ n + 1 <= Len(appended)
    BY <1>5
  <2>2. delivered \in Seq(Writable) /\ roffset = Start(appended)[n]
    <3>1. delivered \in Seq(Writable) /\ Start(delivered)[n] = Start(appended)[n]
      <4>1. delivered \in Seq(Writable)
        BY <1>2, <1>5
      <4>2. Start(delivered)[n] = Start(appended)[n]
        BY <1>2, <1>5, StartPrefix
      <4>3. QED
        BY <4>1, <4>2, Zenon
    <3>2. QED
      BY <1>1, <3>1, Zenon
  <2>3. r \in Writable /\ Total(r) \in Nat /\ Total(r) >= 4
    <3>1. r \in Writable
      BY <1>2, <2>1
    <3> HIDE DEF r
    <3>2. QED
      BY <3>1, RecordFacts, Zenon
  <2>4. Partly(mem, roffset, r)
    <3>1. Stored(mem, appended, IF powerLost THEN synced ELSE Len(appended))
      BY Zenon DEF WalInv, FileInv
    <3>2. \/ Laid(mem, Start(appended)[(n + 1) - 1], appended[n + 1])
          \/ Partly(mem, Start(appended)[(n + 1) - 1], appended[n + 1])
      BY <2>1, <3>1, Zenon DEF Stored
    <3>3. QED
      BY <2>2, <3>2, LaidIsPartly
  <2> HIDE DEF r
  <2>5. HeadOf(mem, roffset, r)
    BY <2>3, <2>4 DEF Partly, HeaderCells, HeadOf
  <2>6. /\ Laid(mem, roffset, r) /\ NextRecord(mem, roffset, header) = r
        /\ NextOffset(roffset, header) = roffset + Total(r)
    BY <1>r, <2>3, <2>5, ReadIsLaid
  <2>7. Append(delivered, r) = SubSeq(appended, 1, n + 1)
    BY <1>5 DEF r
  <2>8. QED
    BY <2>1, <2>2, <2>3, <2>6, <2>7, Zenon
<1>6. CASE n = Len(appended) /\ delivered = SubSeq(appended, 1, n)
  <2>1. delivered = appended /\ roffset = currentOffset
    BY <1>1, <1>2, <1>6, SubSeqWhole, Zenon
  <2>2. PICK r \in tried : TRUE
    BY <1>1, <1>4, <2>1, Zenon DEF TailOf
  <2>3. HeadOf(mem, roffset, r)
    <3>1. SUFFICES ASSUME NEW j \in 1 .. HeaderCells PROVE mem[roffset + j - 1] \in {Zero, serialize(r)[j]}
      BY Zenon DEF HeadOf
    <3> DEFINE i == roffset + j - 1
    <3>2. i \in currentOffset .. FileSize - 1 /\ i - currentOffset + 1 = j
      <4>1. HeaderCells \in Nat
        BY DEF HeaderCells
      <4>2. i - currentOffset + 1 = j
        BY <1>2, <2>1, <4>1, CellIndex, Zenon
      <4>3. QED
        BY <1>3, <2>1, <4>2, Zenon
    <3> HIDE DEF i
    <3>3. mem[i] = Zero \/ \E x \in tried : mem[i] = serialize(x)[j]
      BY <1>1, <3>2, Zenon DEF TailOf
    <3>4. QED
      BY <1>1, <3>3, Zenon DEF i
  <2>4. /\ Laid(mem, roffset, r) /\ NextRecord(mem, roffset, header) = r
        /\ NextOffset(roffset, header) = roffset + Total(r)
    <3>1. r \in Writable
      BY <1>1, Zenon
    <3>2. QED
      BY <1>r, <2>3, <3>1, ReadIsLaid
  <2>5. QED
    BY <1>1, <1>2, <2>1, <2>4, Zenon
<1>7. CASE \E r \in tried : delivered = Append(appended, r)
  <2>1. PICK r \in tried : delivered = Append(appended, r)
    BY <1>7, Zenon
  <2>2. roffset = currentOffset + Total(r) /\ Total(r) \in Nat
    <3>1. /\ r \in Writable /\ Len(delivered) = Len(appended) + 1
          /\ Start(delivered)[Len(appended) + 1] = Start(appended)[Len(appended)] + Total(r)
      BY <1>1, <1>2, <2>1, StartAppend, Zenon
    <3>2. QED
      BY <1>1, <1>2, <3>1, RecordFacts, Zenon
  <2>3. roffset \in currentOffset .. FileSize - 1
    BY <1>2, <1>4, <2>2
  <2>4. \A x \in tried : ~(roffset < currentOffset + Total(x))
    BY <1>1, <2>2
  <2>5. mem[roffset] = Zero
    BY <1>1, <2>3, <2>4, Zenon DEF TailOf
  <2>6. QED
    BY <1>4, <2>5, Zenon
<1>8. QED
  BY <1>1, <1>5, <1>6, <1>7

\* The second half of next() keeps the invariant.
LEMMA NextPayloadStep == WalInv /\ NextPayload => WalInv'
<1> SUFFICES ASSUME WalInv, NextPayload PROVE WalInv'
  BY Zenon
<1> DEFINE x == NextRecord(mem, roffset, header)
           q == NextOffset(roffset, header)
<1>1. /\ header # <<>> /\ header' = <<>> /\ ropen' = ropen
      /\ UNCHANGED <<fileVars, writerVars, historyVars>>
      /\ mem' = mem /\ appended' = appended /\ tried' = tried /\ flushFailed' = flushFailed
  BY Zenon DEF NextPayload, fileVars, historyVars
<1>2. WriterInv' /\ FileInv' /\ HeaderInv'
  BY <1>1, WriterUnchanged, Zenon DEF WalInv
<1>3. ropen \in BOOLEAN /\ ropen /\ delivered \in Seq(Range(delivered)) /\ recordsRead = Len(delivered)
  BY <1>1, Zenon DEF WalInv, TypeOK, ReaderTypes
<1>4. CASE PayloadStatus(mem, roffset, header) # "ok"
  <2>1. delivered' = delivered /\ roffset' = roffset /\ recordsRead' = recordsRead
    BY <1>4, Zenon DEF NextPayload
  <2>2. TypeOK'
    BY <1>1, <2>1, Zenon DEF WalInv, TypeOK, fileVars, writerVars, historyVars
  <2>3. ReaderTypes' /\ ReaderInv'
    BY <1>1, <2>1, Zenon DEF WalInv, ReaderTypes, ReaderInv
  <2>4. QED
    BY <1>2, <2>2, <2>3, Zenon DEF WalInv
<1>5. CASE PayloadStatus(mem, roffset, header) = "ok"
  <2>1. delivered' = Append(delivered, x) /\ roffset' = q /\ recordsRead' = recordsRead + 1
    BY <1>5, Zenon DEF NextPayload
  <2>2. q \in 0 .. FileSize
    <3>1. /\ header \in [1 .. HeaderCells -> Cell] /\ 2 \in 1 .. HeaderCells
          /\ q <= FileSize /\ roffset \in 0 .. FileSize
      BY <1>1 DEF WalInv, ReaderTypes, TypeOK, HeaderCells
    <3>2. SizeOf(header[2]) \in Nat
      BY <3>1, CellIsSized, Zenon
    <3>3. QED
      BY <3>1, <3>2 DEF NextOffset, record_total_size, HeaderCells
  <2> HIDE DEF x, q
  <2>3. Len(delivered') = Len(delivered) + 1 /\ Len(delivered) \in Nat /\ delivered' \in Seq(Range(delivered'))
    <3>1. delivered \in Seq(Range(delivered) \cup {x}) /\ Len(delivered) \in Nat
      BY <1>3
    <3>2. delivered' \in Seq(Range(delivered) \cup {x}) /\ Len(delivered') = Len(delivered) + 1
      BY <2>1, <3>1
    <3>3. delivered' \in Seq(Range(delivered'))
      BY <3>2 DEF Range
    <3>4. QED
      BY <3>2, <3>3
  <2>4. TypeOK'
    BY <1>1, <2>1, <2>2 DEF WalInv, TypeOK, fileVars, writerVars, historyVars
  <2>5. ReaderTypes'
    BY <1>1, <1>3, <2>3, Zenon DEF ReaderTypes
  <2>6. ReaderInv'
    <3>1. SUFFICES ASSUME ~flushFailed
                   PROVE  /\ \/ /\ Len(delivered') <= Len(appended)
                                /\ delivered' = SubSeq(appended, 1, Len(delivered'))
                             \/ \E r \in tried : delivered' = Append(appended, r)
                          /\ roffset' = Start(delivered')[Len(delivered')]
                          /\ Stored(mem, delivered', Len(delivered'))
      BY <1>1, Zenon DEF ReaderInv
    <3>2. /\ delivered \in Seq(Writable) /\ x \in Writable
          /\ q = roffset + Total(x) /\ Laid(mem, roffset, x)
          /\ \/ /\ Len(delivered) + 1 <= Len(appended)
                /\ Append(delivered, x) = SubSeq(appended, 1, Len(delivered) + 1)
             \/ x \in tried /\ delivered = appended
      BY <1>1, <1>5, <3>1, ReaderReads, Zenon DEF x, q
    <3>3. roffset = Start(delivered)[Len(delivered)] /\ Stored(mem, delivered, Len(delivered))
      BY <3>1, Zenon DEF WalInv, ReaderInv
    <3>4. roffset' = Start(delivered')[Len(delivered')]
      <4>1. Start(Append(delivered, x))[Len(delivered) + 1] = Start(delivered)[Len(delivered)] + Total(x)
        BY <3>2, StartAppend, Zenon
      <4>2. roffset' = roffset + Total(x) /\ delivered' = Append(delivered, x)
        BY <2>1, <3>2, Zenon
      <4>3. QED
        BY <3>3, <4>1, <4>2
    <3>5. Stored(mem, delivered', Len(delivered'))
      <4>1. Stored(mem, delivered, Len(delivered) + 1) /\ Len(delivered) + 1 \in 0 .. Len(delivered) + 1
        BY <3>3 DEF Stored
      <4>2. QED
        BY <2>1, <3>2, <3>3, <4>1, StoredAppend
    <3>6. QED
      BY <2>1, <3>2, <3>4, <3>5
  <2>7. QED
    BY <1>2, <2>4, <2>5, <2>6, Zenon DEF WalInv
<1>6. QED
  BY <1>4, <1>5, Zenon

\* A step that changes nothing keeps the invariant.
LEMMA StutterInv == ASSUME WalInv, UNCHANGED vars PROVE WalInv'
<1>1. UNCHANGED <<fileVars, writerVars, historyVars>> /\ UNCHANGED <<readerVars, mem, appended>>
      /\ tried' = tried /\ flushFailed' = flushFailed
  BY Zenon DEF vars, fileVars, historyVars
<1>2. WriterInv' /\ FileInv' /\ HeaderInv'
  BY <1>1, WriterUnchanged, Zenon DEF WalInv
<1>3. flushFailed \in BOOLEAN /\ tried \subseteq tried'
  BY <1>1, Zenon DEF WalInv, TypeOK
<1>4. ReaderTypes' /\ ReaderInv'
  BY <1>1, <1>3, ReaderUnchanged, Zenon DEF WalInv
<1>5. TypeOK'
  BY <1>1, Zenon DEF WalInv, TypeOK, fileVars, writerVars, historyVars, readerVars
<1>6. QED
  BY <1>2, <1>4, <1>5, Zenon DEF WalInv

\* Every step keeps the invariant.
LEMMA NextInv == ASSUME WalInv, [Next]_vars PROVE WalInv'
<1>1. CASE Create \/ CreateFails
  BY <1>1, CreateStep, Zenon
<1>2. ASSUME NEW p \in Payload, AppendRefused(p) PROVE WalInv'
  BY <1>2, StutterInv, Zenon DEF AppendRefused
<1>3. ASSUME NEW p \in Payload, AppendStart(p) PROVE WalInv'
  BY <1>3, AppendStartStep, Zenon
<1>4. ASSUME NEW i \in Offsets, CopyCell(i) PROVE WalInv'
  BY <1>4, CopyCellStep, Zenon
<1>5. CASE AppendOk
  BY <1>5, AppendOkStep, Zenon
<1>6. CASE AppendFlushFails
  BY <1>6, FlushFailsStep, Zenon
<1>7. CASE Flush
  BY <1>7, FlushStep, Zenon
<1>8. ASSUME NEW page \in Pages, WriteBack(page) PROVE WalInv'
  BY <1>8, WriteBackStep, Zenon
<1>9. CASE Close \/ Kill \/ PowerLoss
  BY <1>9, CloseStep, KillStep, PowerLossStep, Zenon
<1>10. CASE ReaderOpen \/ NextHeader \/ NextPayload \/ ReaderReset \/ ReaderClose
  BY <1>10, ReaderOpenStep, NextHeaderStep, NextPayloadStep, ReaderBackStep, Zenon
<1>11. CASE UNCHANGED vars
  BY <1>11, StutterInv, Zenon
<1>12. QED
  BY <1>1, <1>2, <1>3, <1>4, <1>5, <1>6, <1>7, <1>8, <1>9, <1>10, <1>11, Zenon DEF Next

-----------------------------------------------------------------------------
(***************************************************************************)
(* The theorems.                                                           *)
(***************************************************************************)

(***************************************************************************)
(* The invariant of the log holds in every state of every behaviour, for   *)
(* any file size, page size, set of payloads and number of appends: where  *)
(* the records lie in the mapping and on the disk, what can follow them,   *)
(* and where the reader stands among them.                                 *)
(***************************************************************************)
THEOREM WalInvariant == Spec => []WalInv
<1>1. Init => WalInv
  BY InitInv, Zenon
<1>2. WalInv /\ [Next]_vars => WalInv'
  BY NextInv, Zenon
<1>3. QED
  BY <1>1, <1>2, PTL DEF Spec

(***************************************************************************)
(* No offset of WalWriter and WalReader passes the end of the file, and    *)
(* records_read_ counts the records that next() has returned.              *)
(***************************************************************************)
THEOREM WalTypes == Spec => []TypeOK
<1>1. WalInv => TypeOK
  BY Zenon DEF WalInv
<1>2. QED
  BY <1>1, WalInvariant, PTL

\* What lies behind the records of a writer between two calls is zero.
LEMMA TailIsZero ==
  ASSUME WalInv, wstate = "idle", ~flushFailed
  PROVE  NextStatus(mem, currentOffset) = "empty"
<1>1. TailOf(mem, currentOffset, {}) /\ currentOffset \in 0 .. FileSize
  BY Zenon DEF WalInv, WriterInv, FileInv, TypeOK
<1>2. \A i \in currentOffset .. FileSize - 1 : mem[i] = Zero
  BY <1>1, Zenon DEF TailOf
<1>3. QED
  BY <1>1, <1>2, NextOfZeros, Zenon

\* Short of a power loss, all appended records are in the file.
LEMMA AppendedLaid ==
  ASSUME WalInv, ~powerLost
  PROVE  \A k \in 1 .. Len(appended) : Laid(mem, Start(appended)[k - 1], appended[k])
<1>1. Stored(mem, appended, Len(appended)) /\ Len(appended) \in Nat
  BY DEF WalInv, FileInv
<1>2. QED
  BY <1>1 DEF Stored

(***************************************************************************)
(* Between two calls of a WalWriter none of whose flushes has failed       *)
(* inside append(), WalReader::replay() visits exactly the records         *)
(* appended, numbered from 0, and ends with empty at the writer's offset.  *)
(***************************************************************************)
THEOREM ReplayIsClean == Spec => []CleanReplay
<1>1. ASSUME WalInv, wstate = "idle", ~flushFailed
      PROVE  /\ Replay(mem) = [records |-> appended, status |-> "empty", end |-> currentOffset]
             /\ \A i \in DOMAIN appended : appended[i].sequence = i - 1
  <2>1. ~powerLost
    BY <1>1, Zenon DEF WalInv, WriterInv
  <2>2. NextStatus(mem, currentOffset) = "empty"
    BY <1>1, TailIsZero, Zenon
  <2>3. Replay(mem) = [records |-> appended, status |-> NextStatus(mem, Start(appended)[Len(appended)]),
                       end |-> Start(appended)[Len(appended)]]
    <3>1. \A k \in 1 .. Len(appended) : Laid(mem, Start(appended)[k - 1], appended[k])
      BY <1>1, <2>1, AppendedLaid, Zenon
    <3>2. /\ IsFile(mem) /\ appended \in Seq(Writable)
          /\ Start(appended)[Len(appended)] <= FileSize
          /\ NextStatus(mem, Start(appended)[Len(appended)]) # "ok"
      BY <1>1, <2>2, OffsetInFile, Zenon
    <3>3. QED
      BY <3>1, <3>2, ReplayEnds, Zenon
  <2>4. \A i \in DOMAIN appended : appended[i].sequence = i - 1
    BY <1>1 DEF WalInv, WriterInv
  <2>5. QED
    BY <1>1, <2>2, <2>3, <2>4, OffsetInFile, Zenon
<1>2. WalInv => CleanReplay
  BY <1>1, Zenon DEF CleanReplay
<1>3. QED
  BY <1>2, WalInvariant, PTL

\* The reader has returned records of the writer.
LEMMA DeliveredWritable ==
  ASSUME WalInv, ~flushFailed
  PROVE  delivered \in Seq(Writable) /\ Len(delivered) \in Nat
<1>1. CASE Len(delivered) <= Len(appended) /\ delivered = SubSeq(appended, 1, Len(delivered))
  <2>1. delivered \in Seq(Writable)
    BY <1>1, OffsetInFile
  <2>2. QED
    BY <2>1
<1>2. CASE \E r \in tried : delivered = Append(appended, r)
  <2>1. tried \in SUBSET Writable /\ appended \in Seq(Writable)
    BY Zenon DEF WalInv, WriterInv
  <2>2. QED
    BY <1>2, <2>1
<1>3. QED
  BY <1>1, <1>2, Zenon DEF WalInv, ReaderInv

(***************************************************************************)
(* A WalReader left open while a writer appends, and while next() is       *)
(* interleaved with append()'s memcpy calls, has returned a prefix of what *)
(* replay() would visit now: it skips no record, repeats none and makes    *)
(* none up.                                                                *)
(***************************************************************************)
THEOREM ReaderIsPrefix == Spec => []ReaderFollows
<1>1. ASSUME WalInv, ~flushFailed
      PROVE  \E n \in 0 .. Len(Replay(mem).records) : delivered = SubSeq(Replay(mem).records, 1, n)
  <2> DEFINE o == Start(delivered)[Len(delivered)]
             e == ReplayFrom(mem)[o]
  <2>1. delivered \in Seq(Writable) /\ Len(delivered) \in Nat
    BY <1>1, DeliveredWritable, Zenon
  <2>2. o <= FileSize /\ \A k \in 1 .. Len(delivered) : Laid(mem, Start(delivered)[k - 1], delivered[k])
    <3>1. roffset = o /\ roffset \in 0 .. FileSize /\ Stored(mem, delivered, Len(delivered))
      BY <1>1, Zenon DEF WalInv, ReaderInv, TypeOK
    <3>2. QED
      BY <3>1 DEF Stored
  <2>3. IsFile(mem)
    BY <1>1, OffsetInFile, Zenon
  <2>4. /\ e \in Replays(mem)
        /\ Replay(mem) = [records |-> delivered \o e.records, status |-> e.status, end |-> e.end]
    BY <2>1, <2>2, <2>3, ReplayLaid, Zenon
  <2>5. Replay(mem).records = delivered \o e.records /\ e.records \in Seq(Found(mem))
    <3> HIDE DEF e
    <3> QED
      BY <2>4 DEF Replays
  <2> DEFINE A == Writable \cup Found(mem)
             t == e.records
  <2>6. delivered \in Seq(A) /\ t \in Seq(A)
    BY <2>1, <2>5
  <2> HIDE DEF A, t
  <2>7. \E n \in 0 .. Len(delivered \o t) : delivered = SubSeq(delivered \o t, 1, n)
    <3>1. SubSeq(delivered \o t, 1, Len(delivered)) = delivered
      BY <2>6
    <3>2. Len(delivered) \in 0 .. Len(delivered \o t)
      OBVIOUS
    <3>3. QED
      BY <3>1, <3>2, Zenon
  <2>8. QED
    BY <2>5, <2>7, Zenon DEF t
<1>2. WalInv => ReaderFollows
  BY <1>1, Zenon DEF ReaderFollows
<1>3. QED
  BY <1>2, WalInvariant, PTL

(***************************************************************************)
(* Once append() has returned, next() of a WalReader left open returns the *)
(* record it could not read before, and returns empty only after the last  *)
(* one.                                                                    *)
(***************************************************************************)
THEOREM ReaderReachesEnd == Spec => []ReaderCatchesUp
<1>1. ASSUME WalInv, wstate = "idle", ~flushFailed
      PROVE  NextStatus(mem, roffset) = IF Len(delivered) < Len(appended) THEN "ok" ELSE "empty"
  <2> DEFINE n == Len(delivered)
  <2>1. /\ n \in Nat /\ Len(appended) \in Nat /\ appended \in Seq(Writable)
        /\ delivered \in Seq(Writable)
    BY <1>1, OffsetInFile, DeliveredWritable, Zenon
  <2>2. ~powerLost /\ tried = {}
    BY <1>1, Zenon DEF WalInv, WriterInv
  <2>3. n <= Len(appended) /\ delivered = SubSeq(appended, 1, n) /\ roffset = Start(delivered)[n]
    BY <1>1, <2>2, Zenon DEF WalInv, ReaderInv
  <2>4. roffset = Start(appended)[n]
    <3>1. Start(delivered)[n] = Start(appended)[n]
      BY <2>1, <2>3, StartPrefix
    <3>2. QED
      BY <2>3, <3>1, Zenon
  <2>5. CASE n < Len(appended)
    <3>1. n + 1 \in 1 .. Len(appended) /\ (n + 1) - 1 = n
      BY <2>5
    <3>2. Laid(mem, Start(appended)[(n + 1) - 1], appended[n + 1])
      BY <1>1, <2>2, <3>1, AppendedLaid, Zenon
    <3>3. Laid(mem, roffset, appended[n + 1])
      BY <2>4, <3>2
    <3>4. appended[n + 1] \in Writable /\ roffset \in Nat
      BY <1>1, <2>1, <3>1 DEF WalInv, TypeOK
    <3>5. roffset + Total(appended[n + 1]) <= FileSize
      <4>1. Start(appended)[n] + Total(appended[n + 1]) <= Start(appended)[Len(appended)]
        BY <2>1, <2>5, StartOrder
      <4>2. Start(appended)[Len(appended)] <= FileSize /\ Start(appended)[Len(appended)] \in Nat
        BY <1>1, OffsetInFile, Zenon
      <4>3. Total(appended[n + 1]) \in Nat
        BY <3>4, RecordFacts, Zenon
      <4>4. QED
        BY <2>4, <3>4, <4>1, <4>2, <4>3, SizeAssumption
    <3>6. NextStatus(mem, roffset) = "ok"
      BY <3>3, <3>4, <3>5, NextOfLaid, Zenon
    <3>7. QED
      BY <2>5, <3>6, Zenon
  <2>6. CASE ~(n < Len(appended))
    <3>1. n = Len(appended)
      BY <2>3, <2>6
    <3>2. roffset = currentOffset
      BY <1>1, <2>4, <3>1, OffsetInFile, Zenon
    <3>3. QED
      BY <1>1, <2>6, <3>2, TailIsZero, Zenon
  <2>7. QED
    BY <2>5, <2>6, Zenon
<1>2. WalInv => ReaderCatchesUp
  BY <1>1, Zenon DEF ReaderCatchesUp
<1>3. QED
  BY <1>2, WalInvariant, PTL

-----------------------------------------------------------------------------
(***************************************************************************)
(* The log implements DurableLog.                                          *)
(***************************************************************************)

\* A failed flush has left cells that may read as a record.
Garbled == flushFailed /\ ~(DataPayloads \/ SameSize)

\* Otherwise the header cells behind the records are of the records tried.
LEMMA HeadersKnown ==
  WalInv /\ ~Garbled => /\ HeadersOf(mem, currentOffset, tried)
                        /\ HeadersOf(disk, currentOffset, tried)
                        /\ Apart(tried)
<1> SUFFICES ASSUME WalInv, ~Garbled
             PROVE  /\ HeadersOf(mem, currentOffset, tried)
                    /\ HeadersOf(disk, currentOffset, tried)
                    /\ Apart(tried)
  BY Zenon
<1>1. CASE DataPayloads \/ SameSize
  <2>1. tried \in SUBSET Writable
    BY Zenon DEF WalInv, WriterInv
  <2>2. QED
    BY <1>1, <2>1, AlwaysApart, Zenon DEF WalInv, HeaderInv
<1>2. CASE ~flushFailed
  <2>1. TailOf(mem, currentOffset, tried) /\ TailOf(disk, currentOffset, tried)
    BY <1>2, Zenon DEF WalInv, FileInv
  <2>2. \A r, t \in tried : r = t
    BY <1>2, Zenon DEF WalInv, WriterInv
  <2>3. QED
    BY <2>1, <2>2, TailHeaders, Zenon DEF Apart
<1>3. QED
  BY <1>1, <1>2, Zenon DEF Garbled

\* A file that holds all of s replays s first.
LEMMA ReplayBegins ==
  ASSUME NEW f \in [Offsets -> Cell], NEW s \in Seq(Writable),
         Start(s)[Len(s)] <= FileSize, Stored(f, s, Len(s))
  PROVE  Log!Begins(s, Replay(f).records)
<1>1. IsFile(f) /\ Len(s) \in Nat
  BY CellsAreFile
<1>2. \A k \in 1 .. Len(s) : Laid(f, Start(s)[k - 1], s[k])
  <2>1. \A k \in 1 .. Len(s) : k <= Len(s)
    BY <1>1
  <2>2. QED
    BY <2>1, Zenon DEF Stored
<1> DEFINE e == ReplayFrom(f)[Start(s)[Len(s)]]
<1>3. e \in Replays(f) /\ Replay(f) = [records |-> s \o e.records, status |-> e.status, end |-> e.end]
  BY <1>1, <1>2, ReplayLaid, Zenon
<1> HIDE DEF e
<1>4. Replay(f).records = s \o e.records /\ e.records \in Seq(Found(f))
  BY <1>3 DEF Replays
<1> DEFINE t == e.records
<1> HIDE DEF t
<1>5. t \in Seq(Found(f)) /\ Replay(f).records = s \o t
  BY <1>4, Zenon DEF t
<1>6. /\ s = SubSeq(s \o t, 1, Len(s)) /\ Len(s) \in 0 .. Len(s \o t)
  BY <1>1, <1>5
<1>7. QED
  BY <1>5, <1>6, Zenon DEF Log!Begins

\* After a failed flush everything acknowledged has been flushed, and stays.
LEMMA GarbledBegins ==
  WalInv /\ Garbled => Log!Begins(appended, Replay(mem).records) /\ Log!Begins(appended, Replay(disk).records)
<1> SUFFICES ASSUME WalInv, Garbled
             PROVE  Log!Begins(appended, Replay(mem).records) /\ Log!Begins(appended, Replay(disk).records)
  BY Zenon
<1>1. synced = Len(appended)
  BY Zenon DEF WalInv, WriterInv, Garbled
<1>2. Stored(mem, appended, Len(appended)) /\ Stored(disk, appended, Len(appended))
  BY <1>1, Zenon DEF WalInv, FileInv
<1>3. mem \in [Offsets -> Cell] /\ disk \in [Offsets -> Cell]
  BY Zenon DEF WalInv, TypeOK
<1>4. QED
  BY <1>2, <1>3, OffsetInFile, ReplayBegins, Zenon

\* What a replay of the disk returns.
LEMMA ReplayOfDisk ==
  ASSUME WalInv, ~Garbled
  PROVE  Replay(disk).records \in {SubSeq(appended, 1, n) : n \in synced .. Len(appended)}
                                   \cup {Append(appended, r) : r \in tried}
<1>1. synced \in 0 .. Len(appended) /\ tried \in SUBSET Writable
  BY Zenon DEF WalInv, TypeOK, WriterInv
<1>2. Stored(disk, appended, synced)
  BY Zenon DEF WalInv, FileInv
<1>3. HeadersOf(disk, Start(appended)[Len(appended)], tried) /\ Apart(tried)
  BY OffsetInFile, HeadersKnown, Zenon
<1>4. QED
  BY <1>1, <1>2, <1>3, OffsetInFile, ReplayBetween, Zenon

\* A file that holds all of s replays s and at most one record more.
LEMMA ReplayWhole ==
  ASSUME NEW f \in [Offsets -> Cell], NEW s \in Seq(Writable), NEW tr \in SUBSET Writable,
         Start(s)[Len(s)] <= FileSize, Stored(f, s, Len(s)), HeadersOf(f, Start(s)[Len(s)], tr),
         Apart(tr)
  PROVE  Replay(f).records \in {s} \cup {Append(s, r) : r \in tr}
<1>1. Len(s) \in Nat /\ SubSeq(s, 1, Len(s)) = s /\ IsFile(f)
  BY CellsAreFile
<1>2. Len(s) \in 0 .. Len(s)
  OBVIOUS
<1>3. Replay(f).records \in {SubSeq(s, 1, n) : n \in Len(s) .. Len(s)} \cup {Append(s, r) : r \in tr}
  BY <1>1, <1>2, ReplayBetween, Zenon
<1>4. QED
  BY <1>3

\* With the writer's machine up, all that was appended is there.
LEMMA ReplayOfWriter ==
  WalInv /\ ~Garbled /\ ~powerLost =>
    Replay(mem).records \in {appended} \cup {Append(appended, r) : r \in tried}
<1> SUFFICES ASSUME WalInv, ~Garbled, ~powerLost
             PROVE  Replay(mem).records \in {appended} \cup {Append(appended, r) : r \in tried}
  BY Zenon
<1>1. mem \in [Offsets -> Cell]
  BY Zenon DEF WalInv, TypeOK
<1>2. tried \in SUBSET Writable /\ Stored(mem, appended, Len(appended))
  BY Zenon DEF WalInv, WriterInv, FileInv
<1>3. HeadersOf(mem, Start(appended)[Len(appended)], tried) /\ Apart(tried)
  BY OffsetInFile, HeadersKnown, Zenon
<1>4. QED
  BY <1>1, <1>2, <1>3, OffsetInFile, ReplayWhole, Zenon

\* And after a step.
LEMMA ReplayOfWriterNext ==
  /\ WalInv' /\ ~Garbled' /\ ~powerLost' =>
       Replay(mem').records \in {appended'} \cup {Append(appended', r) : r \in tried'}
  /\ WalInv' /\ Garbled' => Log!Begins(appended', Replay(mem').records)
<1>1. (WalInv /\ ~Garbled /\ ~powerLost =>
         Replay(mem).records \in {appended} \cup {Append(appended, r) : r \in tried})'
  BY ReplayOfWriter, PTL
<1>2. (WalInv /\ Garbled => Log!Begins(appended, Replay(mem).records))'
  <2>1. WalInv /\ Garbled => Log!Begins(appended, Replay(mem).records)
    BY GarbledBegins, Zenon
  <2>2. QED
    BY <2>1, PTL
<1>3. QED
  BY <1>1, <1>2, Zenon

\* The log starts as DurableLog does.
LEMMA LogInitial == Init => Log!LogInit
BY EmptyFile DEF Init, Log!LogInit

\* create() is New, also when it fails.
LEMMA LogNew == WalInv /\ (Create \/ CreateFails) => Log!New
BY EmptyFile DEF Create, CreateFails, Log!New

\* The start of append() is Try, of the record it makes.
LEMMA LogTry == \A p \in Payload : WalInv /\ WalInv' /\ AppendStart(p) => Log!LogNext
<1> SUFFICES ASSUME NEW p \in Payload, WalInv, WalInv', AppendStart(p) PROVE Log!LogNext
  BY Zenon
<1>1. record' \in Record
  BY Zenon DEF AppendStart, WalInv, WriterInv, Writable
<1>2. Log!Try(record')
  BY DEF AppendStart, Log!Try, fileVars
<1>3. QED
  BY <1>1, <1>2, Zenon DEF Log!LogNext

\* Each memcpy of append() is Write: a replay returns what was appended, and
\* after it at most the record that is then complete.
LEMMA LogWrite == \A i \in Offsets : WalInv /\ WalInv' /\ CopyCell(i) => Log!Write \/ Log!GarbledWrite
<1> SUFFICES ASSUME NEW i \in Offsets, WalInv, WalInv', CopyCell(i)
             PROVE  Log!Write \/ Log!GarbledWrite
  BY Zenon
<1>1. /\ wstate = "copy" /\ wstate' = wstate /\ appended' = appended /\ synced' = synced
      /\ tried' = tried /\ powerLost' = powerLost /\ flushFailed' = flushFailed
  BY Zenon DEF CopyCell, historyVars
<1>2. ~powerLost' /\ Garbled' = Garbled
  BY <1>1, Zenon DEF WalInv, WriterInv, Garbled
<1>3. \/ Replay(mem').records \in {appended'} \cup {Append(appended', r) : r \in tried'}
      \/ Garbled /\ Log!Begins(appended', Replay(mem').records)
  BY <1>2, ReplayOfWriterNext, Zenon
<1>4. QED
  BY <1>1, <1>3 DEF Log!Write, Log!GarbledWrite, Garbled

\* The end of append() is Acknowledge: a replay already returns the record.
LEMMA LogAcknowledge == WalInv /\ WalInv' /\ AppendOk => Log!Acknowledge \/ Log!GarbledAcknowledge
<1> SUFFICES ASSUME WalInv, WalInv', AppendOk
             PROVE  Log!Acknowledge \/ Log!GarbledAcknowledge
  BY Zenon
<1>1. /\ wstate = "copy" /\ wstate' = "idle" /\ mem' = mem /\ tried' = {} /\ powerLost' = powerLost
      /\ appended' = Append(appended, record) /\ flushFailed' = flushFailed
      /\ synced' = synced \/ synced' = Len(appended) + 1
  BY Zenon DEF AppendOk
<1>2. ~powerLost' /\ record \in Writable /\ record \in tried /\ appended \in Seq(Writable)
  BY <1>1, Zenon DEF WalInv, WriterInv
<1>3. Garbled' = Garbled
  BY <1>1, Zenon DEF Garbled
<1>4. synced' \in {synced, Len(appended')} /\ appended' # appended
  BY <1>1, <1>2
<1>5. \/ appended' = Replay(mem).records
      \/ Garbled /\ Log!Begins(appended', Replay(mem).records)
  BY <1>1, <1>2, <1>3, ReplayOfWriterNext, Zenon
<1>6. QED
  BY <1>1, <1>2, <1>4, <1>5 DEF Log!Acknowledge, Log!GarbledAcknowledge, Garbled

\* Every end of the writer is Stop: what is lost was not flushed, and is lost
\* from the end, whichever pages were on the disk.
LEMMA LogStop == WalInv /\ (Close \/ Kill \/ PowerLoss) => Log!Stop \/ Log!GarbledStop
<1> SUFFICES ASSUME WalInv, Close \/ Kill \/ PowerLoss
             PROVE  Log!Stop \/ Log!GarbledStop
  BY Zenon
<1> DEFINE Outcomes == {SubSeq(appended, 1, n) : n \in synced .. Len(appended)}
                         \cup {Append(appended, r) : r \in tried}
<1>1. /\ appended' = appended /\ synced' = synced /\ tried' = tried /\ wstate' = "closed"
      /\ flushFailed' = flushFailed
  BY Zenon DEF Close, Kill, PowerLoss, Closing
<1>2. CASE Garbled
  <2>1. mem' = mem \/ mem' = disk
    BY Zenon DEF Close, Kill, PowerLoss, fileVars
  <2>2. Log!Begins(appended, Replay(mem').records)
    BY <1>2, <2>1, GarbledBegins, Zenon
  <2>3. QED
    BY <1>1, <1>2, <2>2 DEF Log!GarbledStop, Garbled
<1>3. CASE ~Garbled
  <2>1. Replay(mem').records \in Outcomes
    <3>1. CASE Close \/ Kill
      <4>1. mem' = mem /\ ~powerLost /\ synced \in 0 .. Len(appended) /\ Len(appended) \in Nat
        BY <3>1 DEF Close, Kill, fileVars, WalInv, WriterInv, TypeOK
      <4>2. Replay(mem).records \in {appended} \cup {Append(appended, r) : r \in tried}
        BY <1>3, <4>1, ReplayOfWriter, Zenon
      <4>3. Len(appended) \in synced .. Len(appended) /\ SubSeq(appended, 1, Len(appended)) = appended
        BY <4>1, OffsetInFile
      <4>4. QED
        BY <4>1, <4>2, <4>3, Zenon
    <3>2. CASE PowerLoss
      <4>1. mem' = disk
        BY <3>2, Zenon DEF PowerLoss
      <4>2. QED
        BY <1>3, <4>1, ReplayOfDisk, Zenon
    <3>3. QED
      BY <3>1, <3>2, Zenon
  <2> HIDE DEF Outcomes
  <2>2. QED
    BY <1>1, <2>1 DEF Log!Stop, Outcomes
<1>4. QED
  BY <1>2, <1>3, Zenon

\* A flush that fails inside append() is Garble, or no step at all.
LEMMA LogGarble == WalInv /\ AppendFlushFails => Log!Garble \/ UNCHANGED Log!logVars
<1> SUFFICES ASSUME WalInv, AppendFlushFails PROVE Log!Garble \/ UNCHANGED Log!logVars
  BY Zenon
<1>1. /\ wstate = "copy" /\ wstate' = "idle" /\ flushFailed' = TRUE
      /\ UNCHANGED <<mem, appended, synced, tried>>
  BY Zenon DEF AppendFlushFails, fileVars
<1>2. tried # {} /\ flushFailed \in BOOLEAN
  BY <1>1, Zenon DEF WalInv, WriterInv, TypeOK
<1>3. CASE DataPayloads \/ SameSize
  BY <1>1, <1>3 DEF Log!logVars
<1>4. CASE ~(DataPayloads \/ SameSize)
  BY <1>1, <1>2, <1>4 DEF Log!Garble
<1>5. QED
  BY <1>3, <1>4, Zenon

\* A step that changes neither the file nor what was appended is none of
\* DurableLog.
LEMMA LogStutter ==
  ASSUME UNCHANGED <<mem, appended, synced, tried, flushFailed>>,
         (wstate \in {"idle", "copy"}) <=> (wstate' \in {"idle", "copy"})
  PROVE  UNCHANGED Log!logVars
BY DEF Log!logVars

\* Every step is a step of DurableLog, or none.
LEMMA LogStep ==
  ASSUME WalInv, WalInv', [Next]_vars
  PROVE  [Log!LogNext]_(Log!logVars)
<1>1. CASE Create \/ CreateFails
  BY <1>1, LogNew, Zenon DEF Log!LogNext
<1>2. ASSUME NEW p \in Payload, AppendStart(p) PROVE Log!LogNext
  BY <1>2, LogTry, Zenon
<1>3. ASSUME NEW i \in Offsets, CopyCell(i) PROVE Log!LogNext
  BY <1>3, LogWrite, Zenon DEF Log!LogNext
<1>4. CASE AppendOk
  BY <1>4, LogAcknowledge, Zenon DEF Log!LogNext
<1>5. CASE Flush
  <2>1. Log!Sync
    BY <1>5, Zenon DEF Flush, Log!Sync, writerVars
  <2>2. QED
    BY <2>1, Zenon DEF Log!LogNext
<1>6. CASE Close \/ Kill \/ PowerLoss
  BY <1>6, LogStop, Zenon DEF Log!LogNext
<1>7. CASE AppendFlushFails
  BY <1>7, LogGarble, Zenon DEF Log!LogNext
<1>8. CASE \/ (\E page \in Pages : WriteBack(page))
           \/ (\E p \in Payload : AppendRefused(p)) \/ UNCHANGED vars
  BY <1>8, LogStutter, Zenon
     DEF WriteBack, AppendRefused, vars, fileVars, writerVars, historyVars
<1>9. CASE ReaderOpen \/ NextHeader \/ NextPayload \/ ReaderReset \/ ReaderClose
  BY <1>9, LogStutter, Zenon
     DEF ReaderOpen, NextHeader, NextPayload, ReaderReset, ReaderClose, fileVars, writerVars, historyVars
<1>10. QED
  BY <1>1, <1>2, <1>3, <1>4, <1>5, <1>6, <1>7, <1>8, <1>9, Zenon DEF Next

(***************************************************************************)
(* WalWriter, WalReader and the ways a writer ends implement DurableLog,   *)
(* for payloads of any bytes and sizes: what replay() visits is what was   *)
(* acknowledged, in order, and at most one record more; a kill or a power  *)
(* loss costs only acknowledged records that no flush covered, and only    *)
(* from the end.  When a flush inside append() has failed, what follows    *)
(* the acknowledged records may read as anything, but only if payloads     *)
(* differ in size and one of them holds what looks like a header.          *)
(***************************************************************************)
THEOREM WalImplementsLog == Spec => ImplementsDurableLog
<1>1. Init => Log!LogInit
  BY LogInitial, Zenon
<1>2. WalInv /\ WalInv' /\ [Next]_vars => [Log!LogNext]_(Log!logVars)
  BY LogStep, Zenon
<1>3. QED
  BY <1>1, <1>2, WalInvariant, PTL DEF Spec, ImplementsDurableLog, Log!LogSpec

=============================================================================
