---------------------------- MODULE ZeroCopySpsc ----------------------------
(***************************************************************************)
(* aether::ZeroCopySpsc<T, Capacity>: the producer reserves the next slot, *)
(* constructs in place, and commits or cancels.  The state is that of the  *)
(* ring, with the producer's progress held in Reservation objects that can *)
(* be moved, assigned over and destroyed.  The consumer is the ring's.     *)
(*                                                                         *)
(* The producer calls construct only on a reservation that holds a slot,   *)
(* and the queue is destroyed only when none does, as the class demands.   *)
(***************************************************************************)
EXTENDS Integers

CONSTANTS Capacity, WordSize, Value, Raw, Moved, MaxPushes,
          Handle          \* the Reservation objects of the producer

\* Those of the ring.
ASSUME RingAssumption ==
  /\ Capacity \in Nat /\ Capacity >= 2
  /\ WordSize \in Nat /\ \E k \in 2 .. WordSize : WordSize = k * Capacity
  /\ Raw \notin Value /\ Moved \notin Value /\ Raw # Moved
  /\ MaxPushes \in Nat

VARIABLES head, tail, headMsgs, tailMsgs, seenHead, seenTail, view, buffer, out, cpc, alive,
          active,         \* active_reservation_
          res             \* queue_ # nullptr, index_ and constructed_ of each object

zeroCopyVars == <<active, res>>

Empty == [held |-> FALSE, index |-> 0, constructed |-> FALSE]
Reserved(i) == [held |-> TRUE, index |-> i, constructed |-> FALSE]

\* Where the producer of the ring would be.
ReservationPc ==
  IF \E r \in Handle : res[r].held /\ res[r].constructed THEN "publish"
  ELSE IF \E r \in Handle : res[r].held THEN "construct"
  ELSE "idle"

Ring == INSTANCE SpscRingBuffer WITH ppc <- ReservationPc

vars == <<head, tail, headMsgs, tailMsgs, seenHead, seenTail, view, buffer, out, cpc, alive,
          zeroCopyVars>>

\* Every variable has its type.
TypeOK ==
  /\ Ring!TypeOK
  /\ active \in BOOLEAN
  /\ res \in [Handle -> [held : BOOLEAN, index : 0 .. MaxPushes, constructed : BOOLEAN]]

Init ==
  /\ active = FALSE
  /\ res = [r \in Handle |-> Empty]
  /\ Ring!Init

(***************************************************************************)
(* try_reserve into the empty object r.  The compare-exchange fails while  *)
(* a reservation is active; on a full queue the flag goes back to false.   *)
(***************************************************************************)
TryReserveRelaxed(r) ==
  /\ alive /\ head < MaxPushes /\ ~active /\ ~res[r].held
  /\ res' = [res EXCEPT ![r] = Reserved(head)] /\ active' = TRUE
  /\ seenTail' = tail /\ tailMsgs' = [v \in tail .. tail |-> tailMsgs[v]]
  /\ ~Ring!Full(Ring!Word(head), Ring!Word(tail))
  /\ UNCHANGED <<head, tail, headMsgs, seenHead, view, buffer, out, cpc, alive>>
TryReserve(r) ==
  /\ ~active /\ ~res[r].held
  /\ \/ res' = [res EXCEPT ![r] = Reserved(head)] /\ active' = TRUE
     \/ UNCHANGED zeroCopyVars
  /\ Ring!LoadTail

TryReserveBusy ==
  /\ alive /\ active
  /\ UNCHANGED vars

\* The producer touches the slot of r, leaving c in it.
InSlotUnmasked(r, c) ==
  /\ Ring!Access("producer", res[r].index)
  /\ buffer' = [buffer EXCEPT ![res[r].index] = c]
  /\ UNCHANGED <<head, seenTail, tail, seenHead, cpc, out, alive>>
InSlot(r, c) ==
  /\ Ring!Access("producer", Ring!Slot(res[r].index))
  /\ buffer' = [buffer EXCEPT ![Ring!Slot(res[r].index)] = c]
  /\ UNCHANGED <<head, seenTail, tail, seenHead, cpc, out, alive>>

\* construct: an object already there is destroyed first.
Construct(r, v) ==
  /\ res[r].held
  /\ res' = [res EXCEPT ![r].constructed = TRUE]
  /\ InSlot(r, v)
  /\ UNCHANGED active

ConstructThrows(r) ==
  /\ res[r].held
  /\ res' = [res EXCEPT ![r].constructed = FALSE]
  /\ InSlot(r, Raw)
  /\ UNCHANGED active

\* commit: head_ is set to index_ + 1, then the flag is cleared.
StoreHead(h) ==
  /\ head' = h
  /\ headMsgs' = [v \in seenHead .. h |->
                    IF v = h THEN Ring!Release("producer") ELSE headMsgs[v]]
  /\ UNCHANGED <<seenTail, tail, tailMsgs, seenHead, view, buffer, out, cpc, alive>>

CommitKeepsSlot(r) ==
  /\ res[r].held /\ res[r].constructed
  /\ StoreHead(res[r].index + 1)
  /\ active' = FALSE
  /\ UNCHANGED res
Commit(r) ==
  /\ res[r].held /\ res[r].constructed
  /\ StoreHead(res[r].index + 1)
  /\ active' = FALSE
  /\ res' = [res EXCEPT ![r] = Empty]

\* The object r gives up its slot (cancel), and then holds what s says.
CancelLeaks(r, s) ==
  /\ res' = s
  /\ active' = FALSE
  /\ UNCHANGED <<head, tail, headMsgs, tailMsgs, seenHead, seenTail, view, buffer, out, cpc,
                 alive>>
CancelThen(r, s) ==
  /\ res' = s
  /\ active' = FALSE
  /\ \/ res[r].constructed /\ InSlot(r, Raw)
     \/ /\ ~res[r].constructed
        /\ UNCHANGED <<head, tail, headMsgs, tailMsgs, seenHead, seenTail, view, buffer, out,
                       cpc, alive>>

\* cancel, the destructor of a reservation.
Cancel(r) == res[r].held /\ CancelThen(r, [res EXCEPT ![r] = Empty])

\* r = std::move(other), which cancels what r holds; construction by move is
\* the case of an empty r.
CopyFrom(r, other) == [res EXCEPT ![r] = res[other]]
MoveFrom(r, other) == [res EXCEPT ![r] = res[other], ![other] = Empty]

Move(r, other) ==
  /\ r # other
  /\ \/ res[r].held /\ CancelThen(r, MoveFrom(r, other))
     \/ /\ ~res[r].held /\ res[other].held
        /\ res' = MoveFrom(r, other)
        /\ UNCHANGED <<head, tail, headMsgs, tailMsgs, seenHead, seenTail, view, buffer, out,
                       cpc, alive, active>>

Producer ==
  \/ \E r \in Handle : TryReserve(r) \/ ConstructThrows(r) \/ Commit(r) \/ Cancel(r)
  \/ TryReserveBusy
  \/ \E r \in Handle, v \in Value : Construct(r, v)
  \/ \E r, other \in Handle : Move(r, other)

try_consume == UNCHANGED zeroCopyVars /\ Ring!Consumer

destroy_remaining == UNCHANGED zeroCopyVars /\ Ring!DestroyRemaining

Destroyed == UNCHANGED zeroCopyVars /\ Ring!Destroyed

Next == Producer \/ try_consume \/ destroy_remaining \/ Destroyed

Spec == Init /\ [][Next]_vars

-----------------------------------------------------------------------------
(***************************************************************************)
(* The flag is set exactly while one object holds a slot, that slot is the *)
(* one the next element belongs in, and it is free.  Moves, assignments,   *)
(* failed reservations and exceptions never lose or copy the reservation.  *)
(***************************************************************************)
OneReservation ==
  /\ active <=> \E r \in Handle : res[r].held
  /\ \A r, s \in Handle : res[r].held /\ res[s].held => r = s
  /\ \A r \in Handle : res[r].held => res[r].index = head /\ head - tail < Capacity

(***************************************************************************)
(* The slot under reservation and the slot being consumed are never        *)
(* touched by a thread that does not know of their last use.               *)
(***************************************************************************)
RaceFree ==
  /\ Ring!RaceFree
  /\ \A r \in Handle : res[r].held => Ring!Slot(res[r].index) \in view["producer"]

(***************************************************************************)
(* A reservation and its slot agree on whether there is an object; an      *)
(* object that is constructed over, cancelled or never committed is        *)
(* destroyed, and none outlives the queue.                                 *)
(***************************************************************************)
ObjectLifetime ==
  /\ Ring!ObjectLifetime
  /\ \A r \in Handle : res[r].held =>
       IF res[r].constructed THEN buffer[Ring!Slot(res[r].index)] \in Value
                             ELSE buffer[Ring!Slot(res[r].index)] = Raw

(***************************************************************************)
(* What is committed, and nothing else, comes out, once and in order.      *)
(***************************************************************************)
ImplementsFifo == Ring!ImplementsFifo

-----------------------------------------------------------------------------
\* The inductive invariant: the ring's, read with the progress of the
\* reservations for the producer's, and that there is only one.
ReservationInv ==
  /\ Ring!IndInv
  /\ active \in BOOLEAN
  /\ res \in [Handle -> [held : BOOLEAN, index : 0 .. MaxPushes, constructed : BOOLEAN]]
  /\ OneReservation

=============================================================================
