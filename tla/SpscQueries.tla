---------------------------- MODULE SpscQueries ----------------------------
(***************************************************************************)
(* empty(), full() and size_approx() of SpscRingBuffer: an acquire load of *)
(* head_, then one of tail_, made by the producer, the consumer or a third *)
(* thread while the others go on.                                          *)
(*                                                                         *)
(* The owners' loads obey what they read before.  The third thread also    *)
(* synchronises: a store of head_ it reads tells it what the producer knew *)
(* of tail_ then, and the other way round.                                 *)
(***************************************************************************)
EXTENDS SpscRingBuffer

VARIABLES asker, qhead,       \* the query in progress: who, the head_ it loaded
          answer,             \* the last query: who, both counters it loaded
          knewTail,           \* per store of head_: the producer's seenTail
          knewHead,           \* per store of tail_: the consumer's seenHead
          oldHead, oldTail    \* the oldest stores the third thread may read

Askers == {"producer", "consumer", "observer"}

queryVars == <<asker, qhead, answer, oldHead, oldTail>>
knowledgeVars == <<knewTail, knewHead>>
allVars == <<vars, queryVars, knowledgeVars>>

NoAnswer == [by |-> "none", head |-> 0, tail |-> 0]
Larger(m, n) == IF m > n THEN m ELSE n

\* size_approx(), empty() and full(), from what the query loaded.
size_approx(q) == WordSub(Word(q.head), Word(q.tail))
empty(q) == Word(q.head) = Word(q.tail)
fullOffByOne(q) == size_approx(q) > Capacity
full(q) == size_approx(q) >= Capacity

QueriesInit ==
  /\ Init
  /\ asker = "none" /\ qhead = 0 /\ answer = NoAnswer
  /\ knewTail = [v \in 0 .. 0 |-> 0] /\ knewHead = [v \in 0 .. 0 |-> 0]
  /\ oldHead = 0 /\ oldTail = 0

(***************************************************************************)
(* The first load, of head_.  The producer reads its own last store.       *)
(***************************************************************************)
QueryStarts(t, h) ==
  /\ alive /\ asker = "none"
  /\ asker' = t /\ qhead' = h
  /\ UNCHANGED <<answer, knowledgeVars>>

ProducerAsks ==
  /\ ppc = "idle"
  /\ QueryStarts("producer", head)
  /\ UNCHANGED <<vars, oldHead, oldTail>>

ConsumerAsks ==
  /\ cpc = "idle"
  /\ \E h \in seenHead .. head :
       /\ QueryStarts("consumer", h)
       /\ seenHead' = h
       /\ headMsgs' = [v \in h .. head |-> headMsgs[v]]
       /\ Acquire("consumer", headMsgs[h])
  /\ UNCHANGED <<head, tail, tailMsgs, seenTail, buffer, out, ppc, cpc, alive, oldHead, oldTail>>

\* A relaxed load of head_ tells nothing of tail_.
ObserverAsksRelaxed ==
  /\ \E h \in oldHead .. head : QueryStarts("observer", h) /\ oldHead' = h
  /\ UNCHANGED <<vars, oldTail>>

ObserverAsks ==
  /\ \E h \in oldHead .. head :
       /\ QueryStarts("observer", h)
       /\ oldHead' = h
       /\ oldTail' = Larger(oldTail, knewTail[h])
  /\ UNCHANGED vars

(***************************************************************************)
(* The second load, of tail_, and the answer.                              *)
(***************************************************************************)
QueryEnds(t, n) ==
  /\ asker = t
  /\ asker' = "none" /\ qhead' = 0
  /\ answer' = [by |-> t, head |-> qhead, tail |-> n]
  /\ UNCHANGED knowledgeVars

ProducerAnswered ==
  /\ \E n \in seenTail .. tail :
       /\ QueryEnds("producer", n)
       /\ seenTail' = n
       /\ tailMsgs' = [v \in n .. tail |-> tailMsgs[v]]
       /\ Acquire("producer", tailMsgs[n])
  /\ UNCHANGED <<head, tail, headMsgs, seenHead, buffer, out, ppc, cpc, alive, oldHead, oldTail>>

ConsumerAnswered ==
  /\ QueryEnds("consumer", tail)
  /\ UNCHANGED <<vars, oldHead, oldTail>>

ObserverAnswered ==
  /\ \E n \in oldTail .. tail :
       /\ QueryEnds("observer", n)
       /\ oldTail' = n
       /\ oldHead' = Larger(oldHead, knewHead[n])
  /\ UNCHANGED vars

(***************************************************************************)
(* The ring's own steps: an owner inside a query takes none.               *)
(***************************************************************************)
QueueStep ==
  /\ \/ Producer /\ asker # "producer"
     \/ Consumer /\ asker # "consumer"
     \/ DestroyRemaining /\ asker = "none"
     \/ Destroyed
  /\ knewTail' = [v \in 0 .. head' |-> IF v \in DOMAIN knewTail THEN knewTail[v] ELSE seenTail]
  /\ knewHead' = [v \in 0 .. tail' |-> IF v \in DOMAIN knewHead THEN knewHead[v] ELSE seenHead]
  /\ UNCHANGED queryVars

QueriesNext ==
  \/ ProducerAsks \/ ConsumerAsks \/ ObserverAsks
  \/ ProducerAnswered \/ ConsumerAnswered \/ ObserverAnswered
  \/ QueueStep

QueriesSpec == QueriesInit /\ [][QueriesNext]_allVars

-----------------------------------------------------------------------------
(***************************************************************************)
(* What an owner is told stays true until it acts: after full() returned   *)
(* false the producer's next try_push succeeds, whichever tail_ it loads,  *)
(* and after empty() returned false the consumer's next try_pop does.      *)
(* PersistentBroker::try_publish relies on the first.                      *)
(***************************************************************************)
AnswerLasts ==
  /\ answer.by = "producer" /\ answer.head = head /\ ~full(answer) =>
       \A t \in seenTail .. tail : ~Full(Word(head), Word(t))
  /\ answer.by = "consumer" /\ answer.tail = tail /\ ~empty(answer) =>
       \A h \in seenHead .. head : Word(h) # Word(tail)

(***************************************************************************)
(* An owner's size_approx() is between 0 and Capacity.  A third thread's   *)
(* is too, unless the consumer passed the head_ it had loaded: then the    *)
(* difference wraps, and full() is true of a queue that is not.            *)
(***************************************************************************)
SizeInRange ==
  \/ answer.by = "observer" /\ answer.tail > answer.head
  \/ size_approx(answer) <= Capacity

-----------------------------------------------------------------------------
(***************************************************************************)
(* The inductive invariant: the ring's own, and what each query relies on. *)
(***************************************************************************)

\* What the query in progress loaded: the producer's own store, the one the
\* consumer read last, or one whose tail_ the third thread cannot read past.
AskerInv ==
  /\ asker \in Askers \cup {"none"} /\ (asker # "none" => alive)
  /\ asker = "producer" => ppc = "idle" /\ qhead = head
  /\ asker = "consumer" => cpc = "idle" /\ qhead = seenHead
  /\ asker = "observer" => qhead \in 0 .. head /\ qhead <= oldTail + Capacity

\* A store of head_ was made by a producer that knew of a tail_ at most
\* Capacity behind it.
KnowledgeInv ==
  /\ oldHead \in 0 .. head /\ oldTail \in 0 .. tail
  /\ knewTail \in [0 .. head -> 0 .. tail] /\ knewHead \in [0 .. tail -> 0 .. head]
  /\ \A v \in 0 .. head : v <= knewTail[v] + Capacity

\* The last answer: what an owner loaded is not newer than what it has seen.
AnswerInv ==
  /\ answer \in [by : Askers \cup {"none"}, head : Nat, tail : Nat]
  /\ answer.head <= answer.tail + Capacity
  /\ answer.by # "observer" => answer.tail <= answer.head
  /\ answer.by = "producer" => answer.tail <= seenTail
  /\ answer.by = "consumer" => answer.head <= seenHead

QueriesInv == IndInv /\ AskerInv /\ KnowledgeInv /\ AnswerInv

=============================================================================
