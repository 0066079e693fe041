------------------------- MODULE ZeroCopySpscProofs -------------------------
(***************************************************************************)
(* The zero-copy queue, for every Capacity, word size and set of           *)
(* Reservation objects.  Its producer does what the ring's does, and also  *)
(* constructs over an object, cancels and moves its reservation; the ring's*)
(* lemmas are used with the progress of the reservations for ppc.          *)
(***************************************************************************)
EXTENDS ZeroCopySpsc, TLAPS

\* No query is made.
P == INSTANCE SpscRingBufferProofs WITH
       ppc <- ReservationPc, asker <- "none", qhead <- 0, answer <- <<>>,
       knewTail <- <<>>, knewHead <- <<>>, oldHead <- 0, oldTail <- 0

\* The ring the model uses is the ring the lemmas are about.
LEMMA SameInv == Ring!IndInv <=> P!IndInv
BY Zenon DEF Ring!IndInv, P!IndInv, Ring!TypeOK, P!TypeOK, Ring!CountersInv, P!CountersInv,
       Ring!ViewsInv, P!ViewsInv, Ring!ObjectsInv, P!ObjectsInv, Ring!Slots, P!Slots,
       Ring!Thread, P!Thread, Ring!Slot, P!Slot, Ring!Word, P!Word, Ring!First, P!First

\* The same of the next state.
LEMMA SameInvNext == Ring!IndInv' <=> P!IndInv'
BY Zenon DEF Ring!IndInv, P!IndInv, Ring!TypeOK, P!TypeOK, Ring!CountersInv, P!CountersInv,
       Ring!ViewsInv, P!ViewsInv, Ring!ObjectsInv, P!ObjectsInv, Ring!Slots, P!Slots,
       Ring!Thread, P!Thread, Ring!Slot, P!Slot, Ring!Word, P!Word, Ring!First, P!First

\* The producer's load of tail_, read in both instances.
LEMMA SameLoadTail == Ring!LoadTail <=> P!LoadTail
BY Zenon DEF Ring!LoadTail, P!LoadTail, Ring!Acquire, P!Acquire, Ring!Full, P!Full,
       Ring!Word, P!Word, Ring!WordSub, P!WordSub

\* The consumer's steps, read in both instances.
LEMMA SameConsumer == Ring!Consumer <=> P!Consumer
BY Zenon DEF Ring!Consumer, P!Consumer, Ring!LoadHead, P!LoadHead, Ring!MoveOut, P!MoveOut,
       Ring!MoveOutThrows, P!MoveOutThrows, Ring!Destroy, P!Destroy,
       Ring!PublishTail, P!PublishTail, Ring!Acquire, P!Acquire, Ring!Access, P!Access,
       Ring!Without, P!Without, Ring!Thread, P!Thread, Ring!Release, P!Release,
       Ring!Slot, P!Slot, Ring!Word, P!Word, Ring!producerVars, P!producerVars

\* Construction and destruction, read in both instances.
LEMMA SameEnd ==
  /\ Ring!DestroyRemaining <=> P!DestroyRemaining
  /\ Ring!Destroyed <=> P!Destroyed
  /\ Ring!Init <=> P!Init
BY Zenon DEF Ring!DestroyRemaining, P!DestroyRemaining, Ring!Destroyed, P!Destroyed,
       Ring!Init, P!Init, Ring!Slots, P!Slots, Ring!Thread, P!Thread, Ring!Slot, P!Slot,
       Ring!Word, P!Word, Ring!vars, P!vars, Ring!producerVars, P!producerVars,
       Ring!consumerVars, P!consumerVars

\* The slot of a position, read in both instances.
LEMMA SameSlot == \A n : Ring!Slot(n) = P!Slot(n)
BY Zenon DEF Ring!Slot, P!Slot, Ring!Word, P!Word

\* An access of a slot by the producer, read in both instances.
LEMMA SameAccess == \A s : Ring!Access("producer", s) <=> P!Access("producer", s)
BY Zenon DEF Ring!Access, P!Access, Ring!Without, P!Without, Ring!Thread, P!Thread

\* Every step of the ring itself keeps its invariant.
LEMMA RingStep == Ring!IndInv /\ (P!Next \/ UNCHANGED P!vars) => Ring!IndInv'
  BY P!NextIndInv, RingAssumption, SameInv, SameInvNext, Zenon

\* The progress of the producer, from the one object that holds a slot.
LEMMA PcOfHeld ==
  ASSUME ReservationInv, NEW r \in Handle, res[r].held
  PROVE  /\ ReservationPc = IF res[r].constructed THEN "publish" ELSE "construct"
         /\ \A s \in Handle : s # r => ~res[s].held
         /\ res[r].index = head
  BY Zenon DEF ReservationInv, OneReservation, ReservationPc

\* The producer is idle exactly when no object holds a slot.
LEMMA PcOfFree ==
  (\A r \in Handle : ~res[r].held) <=> ReservationPc = "idle"
  BY Zenon DEF ReservationPc

-----------------------------------------------------------------------------
\* A new queue has no reservation.
LEMMA InitInv == Init => ReservationInv
<1>1. SUFFICES ASSUME Init PROVE ReservationInv
  BY Zenon
<1>2. P!Init /\ active = FALSE /\ res = [r \in Handle |-> Empty]
  BY <1>1, SameEnd, Zenon DEF Init
<1>3. Ring!IndInv
  BY <1>2, P!InitIndInv, RingAssumption, SameInv, Zenon
<1>4. /\ res \in [Handle -> [held : BOOLEAN, index : 0 .. MaxPushes, constructed : BOOLEAN]]
      /\ OneReservation
  BY <1>2, RingAssumption DEF Empty, OneReservation
<1>5. QED
  BY <1>2, <1>3, <1>4, Zenon DEF ReservationInv

\* try_reserve takes the flag, and keeps it exactly if the slot is free.
LEMMA TryReserveInv ==
  ASSUME ReservationInv, NEW r \in Handle, TryReserve(r)
  PROVE  ReservationInv'
<1>1. /\ ~active /\ ~res[r].held /\ Ring!LoadTail
      /\ \/ res' = [res EXCEPT ![r] = Reserved(head)] /\ active' = TRUE
         \/ UNCHANGED <<active, res>>
  BY Zenon DEF TryReserve, zeroCopyVars
<1>2. Ring!IndInv'
  BY <1>1, SameLoadTail, RingStep, Zenon DEF ReservationInv, P!Next, P!Producer
<1>3. /\ \A s \in Handle : ~res[s].held
      /\ active \in BOOLEAN
      /\ res \in [Handle -> [held : BOOLEAN, index : 0 .. MaxPushes, constructed : BOOLEAN]]
  BY <1>1, Zenon DEF ReservationInv, OneReservation
<1>4. head \in Nat /\ head < MaxPushes /\ head' = head /\ tail' = tail
  BY <1>1, Zenon DEF ReservationInv, Ring!IndInv, Ring!TypeOK, Ring!LoadTail
<1>5. CASE UNCHANGED <<active, res>>
  BY <1>2, <1>3, <1>5, <1>1, Zenon DEF ReservationInv, OneReservation
<1>6. CASE res' = [res EXCEPT ![r] = Reserved(head)] /\ active' = TRUE
  <2>1. res' \in [Handle -> [held : BOOLEAN, index : 0 .. MaxPushes, constructed : BOOLEAN]]
    BY <1>3, <1>4, <1>6, RingAssumption DEF Reserved
  <2>2. \A s \in Handle : res'[s] = IF s = r THEN Reserved(head) ELSE res[s]
    BY <1>3, <1>6, Zenon
  <2>3. ReservationPc' = "construct"
    BY <1>3, <2>2 DEF ReservationPc, Reserved
  <2>4. head' - tail' < Capacity
    <3>1. /\ head' \in Nat /\ tail' \in Nat /\ seenTail' \in Nat /\ Capacity \in Nat
          /\ seenTail' <= tail' /\ head' < seenTail' + Capacity
      <4>1. Ring!TypeOK' /\ Ring!CountersInv'
        BY <1>2, Zenon DEF Ring!IndInv
      <4>2. head' \in Nat /\ tail' \in Nat /\ seenTail' \in Nat
        BY <4>1, Zenon DEF Ring!TypeOK
      <4>3. /\ seenTail' <= tail'
            /\ ReservationPc' # "idle" => head' < seenTail' + Capacity
        BY <4>1, Zenon DEF Ring!CountersInv
      <4>4. QED
        BY <2>3, <4>2, <4>3, RingAssumption, Zenon
    <3>2. \A h, t, u, c \in Nat : u <= t /\ h < u + c => h - t < c
      OBVIOUS
    <3>3. QED
      BY <3>1, <3>2, Zenon
  <2>5. OneReservation'
    BY <1>3, <1>4, <1>6, <2>2, <2>4, Zenon DEF OneReservation, Reserved
  <2>6. QED
    BY <1>2, <1>6, <2>1, <2>5, Zenon DEF ReservationInv
<1>7. QED
  BY <1>1, <1>5, <1>6, Zenon

\* construct, whether it leaves an object or throws, and cancel of an object:
\* the holder of the slot at head touches it.
LEMMA TouchInv ==
  ASSUME ReservationInv, NEW r \in Handle, res[r].held, NEW x \in Value \cup {Raw},
         InSlot(r, x), ReservationPc # "idle",
         ReservationPc' \in {"idle", "construct", "publish"},
         x \in Value <=> ReservationPc' = "publish"
  PROVE  Ring!IndInv'
<1>1. P!IndInv /\ res[r].index = head
  BY SameInv, PcOfHeld, Zenon DEF ReservationInv
<1>2. /\ P!Access("producer", P!Slot(head))
      /\ buffer' = [buffer EXCEPT ![P!Slot(head)] = x]
      /\ UNCHANGED <<head, seenTail, tail, seenHead, cpc, out, alive>>
  BY <1>1, SameAccess, SameSlot, Zenon DEF InSlot
<1>3. P!IndInv'
  BY <1>1, <1>2, P!ProducerTouchInv, RingAssumption, Zenon
<1>4. QED
  BY <1>3, SameInvNext, Zenon

\* The holder of the slot constructs in it, or the constructor throws.
LEMMA ConstructInv ==
  ASSUME ReservationInv, NEW r \in Handle, NEW x \in Value \cup {Raw}, res[r].held,
         NEW c \in BOOLEAN, c <=> x \in Value,
         res' = [res EXCEPT ![r].constructed = c], InSlot(r, x), active' = active
  PROVE  ReservationInv'
<1>1. /\ res[r].held /\ res' = [res EXCEPT ![r].constructed = c]
      /\ InSlot(r, x) /\ active' = active
      /\ active \in BOOLEAN /\ OneReservation
      /\ res \in [Handle -> [held : BOOLEAN, index : 0 .. MaxPushes, constructed : BOOLEAN]]
  BY Zenon DEF ReservationInv
<1>2. res' \in [Handle -> [held : BOOLEAN, index : 0 .. MaxPushes, constructed : BOOLEAN]]
  BY <1>1
<1>3. /\ \A s \in Handle : res'[s].held = res[s].held /\ res'[s].index = res[s].index
      /\ res'[r].constructed = c
  BY <1>1
<1>4. \A s \in Handle : s # r => ~res[s].held
  BY <1>1, PcOfHeld, Zenon
<1>5. ReservationPc # "idle"
  BY <1>1, Zenon DEF ReservationPc
<1>6. ReservationPc' = IF c THEN "publish" ELSE "construct"
  BY <1>1, <1>3, <1>4, Zenon DEF ReservationPc
<1>7. Ring!IndInv'
  BY <1>1, <1>5, <1>6, TouchInv, Zenon
<1>8. OneReservation'
  BY <1>1, <1>3 DEF OneReservation, InSlot
<1>9. QED
  BY <1>1, <1>2, <1>7, <1>8, Zenon DEF ReservationInv

\* commit is the ring's store of head_.
LEMMA CommitIsPublish ==
  ASSUME ReservationInv, NEW r \in Handle, Commit(r)
  PROVE  /\ P!PublishHead
         /\ \A s \in Handle : res'[s] = IF s = r THEN Empty ELSE res[s]
         /\ \A s \in Handle : s # r => ~res[s].held
         /\ active' = FALSE
<1>1. /\ res[r].held /\ res[r].constructed /\ StoreHead(res[r].index + 1)
      /\ active' = FALSE /\ res' = [res EXCEPT ![r] = Empty]
  BY Zenon DEF Commit
<1>2. /\ ReservationPc = "publish" /\ res[r].index = head
      /\ \A s \in Handle : s # r => ~res[s].held
  BY <1>1, PcOfHeld, Zenon
<1>3. \A s \in Handle : res'[s] = IF s = r THEN Empty ELSE res[s]
  BY <1>1, Zenon DEF ReservationInv
<1>4. ReservationPc' = "idle"
  BY <1>2, <1>3 DEF ReservationPc, Empty
<1>5. P!PublishHead
  BY <1>1, <1>2, <1>4, Zenon DEF StoreHead, P!PublishHead, P!Release, Ring!Release, P!consumerVars
<1>6. QED
  BY <1>1, <1>2, <1>3, <1>5, Zenon

\* commit is the ring's store of head_, and ends the reservation.
LEMMA CommitInv ==
  ASSUME ReservationInv, NEW r \in Handle, Commit(r)
  PROVE  ReservationInv'
<1>1. /\ P!PublishHead /\ active' = FALSE
      /\ \A s \in Handle : res'[s] = IF s = r THEN Empty ELSE res[s]
      /\ \A s \in Handle : s # r => ~res[s].held
  BY CommitIsPublish, Zenon
<1>2. Ring!IndInv'
  BY <1>1, RingStep, Zenon DEF ReservationInv, P!Next, P!Producer
<1>3. \A s \in Handle : ~res'[s].held
  BY <1>1 DEF Empty
<1>4. res' \in [Handle -> [held : BOOLEAN, index : 0 .. MaxPushes, constructed : BOOLEAN]]
  BY RingAssumption DEF Commit, ReservationInv, Empty
<1>5. QED
  BY <1>1, <1>2, <1>3, <1>4, Zenon DEF ReservationInv, OneReservation

\* A cancelled reservation leaves no other behind: nothing is moved into the
\* object that held the only one.
LEMMA CancelIsLast ==
  ASSUME ReservationInv, NEW r \in Handle, res[r].held, NEW s,
         \/ s = [res EXCEPT ![r] = Empty]
         \/ \E o \in Handle : o # r /\ s = MoveFrom(r, o)
  PROVE  /\ s \in [Handle -> [held : BOOLEAN, index : 0 .. MaxPushes, constructed : BOOLEAN]]
         /\ \A h \in Handle : ~s[h].held
<1>1. /\ res \in [Handle -> [held : BOOLEAN, index : 0 .. MaxPushes, constructed : BOOLEAN]]
      /\ Empty \in [held : BOOLEAN, index : 0 .. MaxPushes, constructed : BOOLEAN]
      /\ ~Empty.held
  BY RingAssumption DEF ReservationInv, Empty
<1>2. \A h \in Handle : h # r => ~res[h].held
  BY PcOfHeld, Zenon
<1>3. CASE s = [res EXCEPT ![r] = Empty]
  BY <1>1, <1>2, <1>3, Zenon
<1>4. ASSUME NEW o \in Handle, o # r, s = MoveFrom(r, o)
      PROVE  /\ s \in [Handle -> [held : BOOLEAN, index : 0 .. MaxPushes,
                                  constructed : BOOLEAN]]
             /\ \A h \in Handle : ~s[h].held
  <2>1. s = [res EXCEPT ![r] = res[o], ![o] = Empty]
    BY <1>4, Zenon DEF MoveFrom
  <2>2. QED
    BY <1>1, <1>2, <1>4, <2>1, Zenon
<1>5. QED
  BY <1>3, <1>4, Zenon

\* cancel destroys what the slot holds and ends the reservation, whatever the objects are left as.
LEMMA CancelThenInv ==
  ASSUME ReservationInv, NEW r \in Handle, res[r].held, NEW s, CancelThen(r, s),
         s \in [Handle -> [held : BOOLEAN, index : 0 .. MaxPushes, constructed : BOOLEAN]],
         \A h \in Handle : ~s[h].held
  PROVE  ReservationInv'
<1>1. res' = s /\ active' = FALSE
  BY Zenon DEF CancelThen
<1>2. ReservationPc' = "idle"
  BY <1>1, Zenon DEF ReservationPc
<1>3. ReservationPc = IF res[r].constructed THEN "publish" ELSE "construct"
  BY PcOfHeld, Zenon
<1>4. Ring!IndInv'
  <2>1. CASE res[r].constructed /\ InSlot(r, Raw)
    BY <1>2, <1>3, <2>1, TouchInv, RingAssumption, Zenon
  <2>2. CASE /\ ~res[r].constructed
             /\ UNCHANGED <<head, tail, headMsgs, tailMsgs, seenHead, seenTail, view, buffer,
                            out, cpc, alive>>
    <3>1. P!IndInv
      BY SameInv, Zenon DEF ReservationInv
    <3>2. ReservationPc = "construct"
      BY <1>3, <2>2, Zenon
    <3>3. P!IndInv'
      BY <1>2, <2>2, <3>1, <3>2, P!GiveUpInv, RingAssumption, Zenon
    <3>4. QED
      BY <3>3, SameInvNext, Zenon
  <2>3. QED
    BY <2>1, <2>2, Zenon DEF CancelThen
<1>5. QED
  BY <1>1, <1>4, Zenon DEF ReservationInv, OneReservation

\* A move into an empty object hands the reservation over.
LEMMA HandOver ==
  ASSUME ReservationInv, NEW r \in Handle, NEW o \in Handle, r # o, ~res[r].held,
         res[o].held, res' = MoveFrom(r, o)
  PROVE  /\ res' \in [Handle -> [held : BOOLEAN, index : 0 .. MaxPushes,
                                 constructed : BOOLEAN]]
         /\ res'[r] = res[o]
         /\ \A h \in Handle : h # r => ~res'[h].held
         /\ ReservationPc' = ReservationPc
<1>1. /\ res \in [Handle -> [held : BOOLEAN, index : 0 .. MaxPushes, constructed : BOOLEAN]]
      /\ Empty \in [held : BOOLEAN, index : 0 .. MaxPushes, constructed : BOOLEAN]
      /\ ~Empty.held
  BY RingAssumption DEF ReservationInv, Empty
<1>2. res' = [res EXCEPT ![r] = res[o], ![o] = Empty]
  BY Zenon DEF MoveFrom
<1>3. \A h \in Handle : h # o => ~res[h].held
  BY PcOfHeld, Zenon
<1>4. /\ res' \in [Handle -> [held : BOOLEAN, index : 0 .. MaxPushes, constructed : BOOLEAN]]
      /\ res'[r] = res[o]
      /\ \A h \in Handle : h # r => ~res'[h].held
  BY <1>1, <1>2, <1>3, Zenon
<1>5. ReservationPc = IF res[o].constructed THEN "publish" ELSE "construct"
  BY PcOfHeld, Zenon
<1>6. ReservationPc' = IF res[o].constructed THEN "publish" ELSE "construct"
  BY <1>4, Zenon DEF ReservationPc
<1>7. QED
  BY <1>4, <1>5, <1>6, Zenon

\* A move hands the slot over, or cancels what the target held.
LEMMA MoveInv ==
  ASSUME ReservationInv, NEW r \in Handle, NEW o \in Handle, Move(r, o)
  PROVE  ReservationInv'
<1>1. r # o
  BY Zenon DEF Move
<1>2. CASE res[r].held /\ CancelThen(r, MoveFrom(r, o))
  BY <1>1, <1>2, CancelIsLast, CancelThenInv, Zenon
<1>3. CASE /\ ~res[r].held /\ res[o].held
           /\ res' = MoveFrom(r, o)
           /\ UNCHANGED <<head, tail, headMsgs, tailMsgs, seenHead, seenTail, view, buffer, out,
                          cpc, alive, active>>
  <2>1. /\ res' \in [Handle -> [held : BOOLEAN, index : 0 .. MaxPushes,
                                constructed : BOOLEAN]]
        /\ res'[r] = res[o]
        /\ \A h \in Handle : h # r => ~res'[h].held
        /\ ReservationPc' = ReservationPc
    BY <1>1, <1>3, HandOver, Zenon
  <2>2. Ring!IndInv'
    BY <1>3, <2>1, RingStep, Zenon DEF ReservationInv, P!vars
  <2>3. OneReservation'
    BY <1>3, <2>1, Zenon DEF ReservationInv, OneReservation
  <2>4. QED
    BY <1>3, <2>1, <2>2, <2>3, Zenon DEF ReservationInv
<1>4. QED
  BY <1>2, <1>3, Zenon DEF Move

\* The consumer and the destructor leave the reservations alone.
LEMMA OthersInv ==
  ReservationInv /\ (try_consume \/ destroy_remaining \/ Destroyed) => ReservationInv'
<1>1. SUFFICES ASSUME ReservationInv, try_consume \/ destroy_remaining \/ Destroyed
               PROVE  ReservationInv'
  BY Zenon
<1>2. /\ UNCHANGED <<active, res>>
      /\ P!Consumer \/ P!DestroyRemaining \/ P!Destroyed
  BY <1>1, SameConsumer, SameEnd, Zenon DEF try_consume, destroy_remaining, Destroyed, zeroCopyVars
<1>3. Ring!IndInv'
  BY <1>1, <1>2, RingStep, Zenon DEF ReservationInv, P!Next
<1>4. head' = head /\ tail \in Nat /\ tail' \in Nat /\ head \in Nat /\ tail' >= tail
  <2>1. Ring!TypeOK /\ Ring!TypeOK'
    BY <1>1, <1>3, Zenon DEF ReservationInv, Ring!IndInv
  <2>2. tail \in Nat /\ tail' \in Nat /\ head \in Nat
    BY <2>1, Zenon DEF Ring!TypeOK
  <2>3. head' = head /\ (tail' = tail \/ tail' = tail + 1)
    BY <1>2, Zenon DEF P!Consumer, P!LoadHead, P!MoveOut, P!MoveOutThrows, P!Destroy, P!PublishTail,
                P!DestroyRemaining, P!Destroyed, P!producerVars, P!consumerVars, P!vars
  <2>4. QED
    BY <2>2, <2>3
<1>5. head - tail < Capacity => head' - tail' < Capacity
  <2>1. \A h, t, u, c \in Nat : u >= t /\ h - t < c => h - u < c
    OBVIOUS
  <2>2. Capacity \in Nat
    BY RingAssumption, Zenon
  <2>3. QED
    BY <1>4, <2>1, <2>2, Zenon
<1>6. OneReservation'
  BY <1>1, <1>2, <1>4, <1>5, Zenon DEF ReservationInv, OneReservation
<1>7. QED
  BY <1>1, <1>2, <1>3, <1>6, Zenon DEF ReservationInv

\* Nothing changes.
LEMMA StutterInv == ReservationInv /\ UNCHANGED vars => ReservationInv'
<1>1. SUFFICES ASSUME ReservationInv, UNCHANGED vars PROVE ReservationInv'
  BY Zenon
<1>2. UNCHANGED <<head, tail, headMsgs, tailMsgs, seenHead, seenTail, view, buffer, out, cpc,
                  alive, active, res>>
  BY <1>1, Zenon DEF vars, zeroCopyVars
<1>3. ReservationPc' = ReservationPc
  BY <1>2, Zenon DEF ReservationPc
<1>4. Ring!IndInv'
  BY <1>1, <1>2, <1>3, RingStep, Zenon DEF ReservationInv, P!vars
<1>5. QED
  BY <1>1, <1>2, <1>4, Zenon DEF ReservationInv, OneReservation

\* Every step of the queue keeps the invariant.
LEMMA NextInv == ReservationInv /\ [Next]_vars => ReservationInv'
<1>1. SUFFICES ASSUME ReservationInv, [Next]_vars PROVE ReservationInv'
  BY Zenon
<1>2. ASSUME NEW r \in Handle, TryReserve(r) PROVE ReservationInv'
  BY <1>1, <1>2, TryReserveInv, Zenon
<1>3. ASSUME NEW r \in Handle, ConstructThrows(r) PROVE ReservationInv'
  <2>1. Raw \in Value \cup {Raw} /\ FALSE \in BOOLEAN /\ (FALSE <=> Raw \in Value)
    BY RingAssumption, Zenon
  <2>2. /\ res[r].held /\ res' = [res EXCEPT ![r].constructed = FALSE]
        /\ InSlot(r, Raw) /\ active' = active
    BY <1>3, Zenon DEF ConstructThrows
  <2>3. QED
    BY <1>1, <2>1, <2>2, ConstructInv, Zenon
<1>4. ASSUME NEW r \in Handle, Commit(r) PROVE ReservationInv'
  BY <1>1, <1>4, CommitInv, Zenon
<1>5. ASSUME NEW r \in Handle, Cancel(r) PROVE ReservationInv'
  <2>1. res[r].held /\ CancelThen(r, [res EXCEPT ![r] = Empty])
    BY <1>5, Zenon DEF Cancel
  <2>2. QED
    BY <1>1, <2>1, CancelIsLast, CancelThenInv, Zenon
<1>6. CASE TryReserveBusy
  BY <1>1, <1>6, StutterInv, Zenon DEF TryReserveBusy
<1>7. ASSUME NEW r \in Handle, NEW v \in Value, Construct(r, v) PROVE ReservationInv'
  <2>1. v \in Value \cup {Raw} /\ TRUE \in BOOLEAN /\ (TRUE <=> v \in Value)
    BY <1>7, Zenon
  <2>2. /\ res[r].held /\ res' = [res EXCEPT ![r].constructed = TRUE]
        /\ InSlot(r, v) /\ active' = active
    BY <1>7, Zenon DEF Construct
  <2>3. QED
    BY <1>1, <2>1, <2>2, ConstructInv, Zenon
<1>8. ASSUME NEW r \in Handle, NEW other \in Handle, Move(r, other) PROVE ReservationInv'
  BY <1>1, <1>8, MoveInv, Zenon
<1>9. CASE Producer
  BY <1>2, <1>3, <1>4, <1>5, <1>6, <1>7, <1>8, <1>9, Zenon DEF Producer
<1>10. QED
  BY <1>1, <1>9, OthersInv, StutterInv, Zenon DEF Next

(***************************************************************************)
(* The inductive invariant holds in every reachable state, for every       *)
(* Capacity, word size and set of Reservation objects.                     *)
(***************************************************************************)
THEOREM ReservationInvariance == Spec => []ReservationInv
  BY InitInv, NextInv, PTL DEF Spec

(***************************************************************************)
(* Every Reservation object records an index the producer may reach, and   *)
(* the flag, the counters and the slots of the ring keep their ranges.     *)
(***************************************************************************)
THEOREM ReservationTypes == Spec => []TypeOK
<1>1. ReservationInv => TypeOK
  BY Zenon DEF ReservationInv, TypeOK, Ring!IndInv
<1>2. QED
  BY <1>1, ReservationInvariance, PTL

(***************************************************************************)
(* active_reservation_ is set exactly while one object holds a slot, the   *)
(* one at head_, and the ring has room for it.                             *)
(***************************************************************************)
THEOREM SingleReservation == Spec => []OneReservation
<1>1. ReservationInv => OneReservation
  BY Zenon DEF ReservationInv
<1>2. QED
  BY <1>1, ReservationInvariance, PTL

(***************************************************************************)
(* construct, cancel and try_consume never race on a slot.                 *)
(***************************************************************************)
THEOREM ReservedSlotRaceFreedom == Spec => []RaceFree
<1>1. ReservationInv => RaceFree
  <2>1. SUFFICES ASSUME ReservationInv PROVE RaceFree
    BY Zenon
  <2>2. P!RaceFree
    BY <2>1, SameInv, P!SafeFromViews, RingAssumption, Zenon DEF ReservationInv
  <2>3. Ring!RaceFree
    BY <2>2, SameSlot, Zenon DEF Ring!RaceFree, P!RaceFree
  <2>4. ASSUME NEW r \in Handle, res[r].held
        PROVE  Ring!Slot(res[r].index) \in view["producer"]
    <3>1. res[r].index = head /\ ReservationPc # "idle"
      BY <2>1, <2>4, PcOfHeld, Zenon
    <3>2. /\ head \in Nat /\ seenTail \in Nat /\ head < seenTail + Capacity
          /\ \A n \in head .. seenTail + Capacity - 1 : Ring!Slot(n) \in view["producer"]
      BY <2>1, <3>1, Zenon DEF ReservationInv, Ring!IndInv, Ring!TypeOK, Ring!CountersInv,
                        Ring!ViewsInv
    <3>3. head \in head .. seenTail + Capacity - 1
      BY <3>2, RingAssumption
    <3>4. QED
      BY <3>1, <3>2, <3>3, Zenon
  <2>5. QED
    BY <2>3, <2>4, Zenon DEF RaceFree
<1>2. QED
  BY <1>1, ReservationInvariance, PTL

(***************************************************************************)
(* constructed_ says whether an object is in the reserved slot: none is    *)
(* leaked by construct over it, cancel or a move, none destroyed twice.    *)
(***************************************************************************)
THEOREM ReservedSlotLifetime == Spec => []ObjectLifetime
<1>1. ReservationInv => ObjectLifetime
  <2>1. SUFFICES ASSUME ReservationInv PROVE ObjectLifetime
    BY Zenon
  <2>2. P!ObjectLifetime
    BY <2>1, SameInv, P!LifetimeFromObjects, RingAssumption, Zenon DEF ReservationInv
  <2>3. Ring!ObjectLifetime
    BY <2>2, SameSlot, Zenon DEF Ring!ObjectLifetime, P!ObjectLifetime, Ring!First, P!First,
                          Ring!Slots, P!Slots
  <2>4. ASSUME NEW r \in Handle, res[r].held
        PROVE  IF res[r].constructed THEN buffer[Ring!Slot(res[r].index)] \in Value
                                     ELSE buffer[Ring!Slot(res[r].index)] = Raw
    <3>1. /\ res[r].index = head
          /\ ReservationPc = IF res[r].constructed THEN "publish" ELSE "construct"
      BY <2>1, <2>4, PcOfHeld, Zenon
    <3>2. alive
      BY <2>1, <3>1, Zenon DEF ReservationInv, Ring!IndInv, Ring!CountersInv
    <3>3. ReservationPc = "publish" => buffer[Ring!Slot(head)] \in Value
      BY <2>1, <3>2, Zenon DEF ReservationInv, Ring!IndInv, Ring!ObjectsInv
    <3>4. ReservationPc = "construct" => buffer[Ring!Slot(head)] = Raw
      BY <2>3, Zenon DEF Ring!ObjectLifetime
    <3>5. QED
      BY <3>1, <3>3, <3>4, Zenon
  <2>5. QED
    BY <2>3, <2>4, Zenon DEF ObjectLifetime
<1>2. QED
  BY <1>1, ReservationInvariance, PTL

(***************************************************************************)
(* Refinement: every step of the queue is a step of the bounded FIFO or    *)
(* leaves it as it is.                                                     *)
(***************************************************************************)
LEMMA SameFifo ==
  /\ P!Fifo!FifoInit <=> Ring!Fifo!FifoInit
  /\ P!Fifo!FifoNext <=> Ring!Fifo!FifoNext
  /\ (UNCHANGED P!Fifo!fifoVars) <=> (UNCHANGED Ring!Fifo!fifoVars)
  BY SameSlot, Zenon
     DEF P!Fifo!FifoInit, Ring!Fifo!FifoInit, P!Fifo!FifoNext, Ring!Fifo!FifoNext,
         P!Fifo!fifoVars, Ring!Fifo!fifoVars, P!Fifo!ProducerObserve,
         Ring!Fifo!ProducerObserve, P!Fifo!Push, Ring!Fifo!Push, P!Fifo!ConsumerObserve,
         Ring!Fifo!ConsumerObserve, P!Fifo!Pop, Ring!Fifo!Pop, P!Fifo!Drop, Ring!Fifo!Drop,
         P!FifoQueue, Ring!FifoQueue, P!FifoHidden, Ring!FifoHidden, P!FifoPending,
         Ring!FifoPending, P!Elements, Ring!Elements, P!First, Ring!First

\* Construction, cancellation and hand-over are invisible, as the slot at head
\* is outside the queue.
LEMMA TouchFifo ==
  ASSUME ReservationInv, NEW r \in Handle, res[r].held, NEW x, InSlot(r, x)
  PROVE  UNCHANGED P!Fifo!fifoVars
<1>1. P!IndInv /\ res[r].index = head /\ ReservationPc # "idle"
  BY SameInv, PcOfHeld, Zenon DEF ReservationInv
<1>2. /\ buffer' = [buffer EXCEPT ![P!Slot(head)] = x]
      /\ UNCHANGED <<head, seenTail, tail, seenHead, cpc, out, alive>>
  BY <1>1, SameSlot, Zenon DEF InSlot
<1>3. QED
  BY <1>1, <1>2, P!ProducerTouchFifo, RingAssumption, Zenon

\* A step that leaves the ring's counters, slots and consumer alone leaves the queue alone.
LEMMA UntouchedFifo ==
  UNCHANGED <<head, tail, seenHead, seenTail, buffer, out, cpc, alive>>
    => UNCHANGED P!Fifo!fifoVars
<1>1. SUFFICES ASSUME UNCHANGED <<head, tail, seenHead, seenTail, buffer, out, cpc, alive>>
               PROVE  UNCHANGED P!Fifo!fifoVars
  BY Zenon
<1>2. P!First' = P!First
  BY <1>1, Zenon DEF P!First
<1>3. QED
  BY <1>1, <1>2, P!SilentFifo, RingAssumption, Zenon

\* A cancelled slot was never part of the queue.
LEMMA CancelFifo ==
  ASSUME ReservationInv, NEW r \in Handle, res[r].held, NEW s, CancelThen(r, s)
  PROVE  UNCHANGED P!Fifo!fifoVars
  BY TouchFifo, UntouchedFifo, Zenon DEF CancelThen

\* Every step is one of BoundedFifo or changes nothing of it.
LEMMA NextFifo ==
  ReservationInv /\ [Next]_vars => P!Fifo!FifoNext \/ UNCHANGED P!Fifo!fifoVars
<1>1. SUFFICES ASSUME ReservationInv, [Next]_vars
               PROVE  P!Fifo!FifoNext \/ UNCHANGED P!Fifo!fifoVars
  BY Zenon
<1>2. ASSUME P!Next PROVE P!Fifo!FifoNext \/ UNCHANGED P!Fifo!fifoVars
  <2>1. P!IndInv
    BY <1>1, SameInv, Zenon DEF ReservationInv
  <2>2. QED
    BY <1>2, <2>1, P!NextFifo, RingAssumption, Zenon
<1>3. CASE Producer
  <2>1. ASSUME NEW r \in Handle, TryReserve(r) PROVE P!Next
    BY <2>1, SameLoadTail, Zenon DEF TryReserve, P!Next, P!Producer
  <2>2. ASSUME NEW r \in Handle, ConstructThrows(r) PROVE UNCHANGED P!Fifo!fifoVars
    BY <1>1, <2>2, TouchFifo, Zenon DEF ConstructThrows
  <2>3. ASSUME NEW r \in Handle, Commit(r) PROVE P!Next
    BY <1>1, <2>3, CommitIsPublish, Zenon DEF P!Next, P!Producer
  <2>4. ASSUME NEW r \in Handle, Cancel(r) PROVE UNCHANGED P!Fifo!fifoVars
    BY <1>1, <2>4, CancelFifo, Zenon DEF Cancel
  <2>5. CASE TryReserveBusy
    BY <2>5, UntouchedFifo, Zenon DEF TryReserveBusy, vars
  <2>6. ASSUME NEW r \in Handle, NEW v \in Value, Construct(r, v)
        PROVE  UNCHANGED P!Fifo!fifoVars
    BY <1>1, <2>6, TouchFifo, Zenon DEF Construct
  <2>7. ASSUME NEW r \in Handle, NEW other \in Handle, Move(r, other)
        PROVE  UNCHANGED P!Fifo!fifoVars
    BY <1>1, <2>7, CancelFifo, UntouchedFifo, Zenon DEF Move
  <2>8. QED
    BY <1>2, <1>3, <2>1, <2>2, <2>3, <2>4, <2>5, <2>6, <2>7, Zenon DEF Producer
<1>4. CASE try_consume \/ destroy_remaining \/ Destroyed
  BY <1>2, <1>4, SameConsumer, SameEnd, Zenon DEF try_consume, destroy_remaining, Destroyed, P!Next
<1>5. CASE UNCHANGED vars
  BY <1>5, UntouchedFifo, Zenon DEF vars
<1>6. QED
  BY <1>1, <1>3, <1>4, <1>5, Zenon DEF Next

(***************************************************************************)
(* What is committed, and nothing else, comes out of try_consume, once and *)
(* in order, whatever is constructed over, cancelled or moved in between.  *)
(***************************************************************************)
THEOREM CommittedInOrder == Spec => ImplementsFifo
<1>1. Init => Ring!Fifo!FifoInit
  BY SameEnd, SameFifo, P!InitFifo, RingAssumption, Zenon DEF Init
<1>2. ReservationInv /\ [Next]_vars => [Ring!Fifo!FifoNext]_(Ring!Fifo!fifoVars)
  BY NextFifo, SameFifo, Zenon
<1>3. QED
  BY <1>1, <1>2, ReservationInvariance, PTL
     DEF Spec, ImplementsFifo, Ring!ImplementsFifo, Ring!Fifo!FifoSpec

=============================================================================
