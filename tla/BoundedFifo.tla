---------------------------- MODULE BoundedFifo ----------------------------
(***************************************************************************)
(* What a single-producer/single-consumer queue of Capacity elements       *)
(* promises its two threads: elements come out in the order they went in,  *)
(* none is lost or duplicated, and there are never more than Capacity.     *)
(*                                                                         *)
(* Each side may learn late what the other did.  hidden counts the freed   *)
(* places the producer has not observed yet, pending the stored elements   *)
(* the consumer has not observed yet.  A late producer may find the queue  *)
(* full too long and a late consumer may find it empty too long; neither   *)
(* is ever wrong in the other direction.                                   *)
(***************************************************************************)
EXTENDS Naturals, Sequences

CONSTANTS Capacity, Value, NoValue

VARIABLES queue, hidden, pending, out

fifoVars == <<queue, hidden, pending, out>>

\* Every variable has its type; elements and unseen free places fit in Capacity.
FifoTypeOK ==
  /\ queue \in Seq(Value)
  /\ hidden \in Nat /\ Len(queue) + hidden <= Capacity
  /\ pending \in 0 .. Len(queue)
  /\ out \in Value \cup {NoValue}

FifoInit ==
  /\ queue = <<>>
  /\ hidden = 0
  /\ pending = 0
  /\ out = NoValue

\* The producer learns of some of the places freed since it last looked.
ProducerObserve ==
  /\ hidden' \in 0 .. hidden
  /\ UNCHANGED <<queue, pending, out>>

Push(v) ==
  /\ Len(queue) + hidden < Capacity
  /\ queue' = Append(queue, v)
  /\ pending' = pending + 1
  /\ UNCHANGED <<hidden, out>>

\* The consumer learns of some of the elements stored since it last looked.
ConsumerObserve ==
  /\ pending' \in 0 .. pending
  /\ UNCHANGED <<queue, hidden, out>>

Pop ==
  /\ pending < Len(queue)
  /\ out' = Head(queue)
  /\ queue' = Tail(queue)
  /\ hidden' = hidden + 1
  /\ UNCHANGED pending

\* The destructor drops what is left.
Drop ==
  /\ queue' = <<>>
  /\ hidden' = 0
  /\ pending' = 0
  /\ UNCHANGED out

FifoNext ==
  \/ ProducerObserve
  \/ \E v \in Value : Push(v)
  \/ ConsumerObserve
  \/ Pop
  \/ Drop

FifoSpec == FifoInit /\ [][FifoNext]_fifoVars

=============================================================================
