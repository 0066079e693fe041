--------------------------- MODULE SpscRingBuffer ---------------------------
(***************************************************************************)
(* aether::SpscRingBuffer<T, Capacity>: a ring of raw slots, a counter     *)
(* head_ only the producer stores and a counter tail_ only the consumer    *)
(* stores, read by the other side with acquire loads.                      *)
(*                                                                         *)
(* Counters.  head and tail count the stores made to head_ and tail_.  The *)
(* std::size_t the code computes with is Word(head), Word(tail), which     *)
(* wraps at WordSize.                                                      *)
(*                                                                         *)
(* Memory.  A load of the other side's counter may return any value not    *)
(* older than the last one this thread read (coherence).  Slots are not    *)
(* atomic.  view[t] is the set of slots whose latest access happens before *)
(* thread t's next step.  A release store attaches the storing thread's    *)
(* view to the value; an acquire load adds the view attached to the value  *)
(* it returns.  A thread that accesses a slot outside its view is in a     *)
(* data race.                                                              *)
(***************************************************************************)
EXTENDS Integers

CONSTANTS Capacity,    \* the template argument
          WordSize,    \* number of values of std::size_t
          Value,       \* the values of T that are pushed
          Raw,         \* slot contents: storage with no object in it
          Moved,       \* slot contents: an object that was moved from
          MaxPushes    \* bound on the number of successful pushes

ASSUME CapacityAssumption == Capacity \in Nat /\ Capacity >= 2
ASSUME WordAssumption ==
  WordSize \in Nat /\ \E k \in 2 .. WordSize : WordSize = k * Capacity
ASSUME ValueAssumption == Raw \notin Value /\ Moved \notin Value /\ Raw # Moved
ASSUME MaxPushesAssumption == MaxPushes \in Nat

VARIABLES head,      \* stores made to head_
          tail,      \* stores made to tail_
          headMsgs,  \* the stores to head_ the consumer can still read
          tailMsgs,  \* the stores to tail_ the producer can still read
          seenHead,  \* the store to head_ the consumer read last
          seenTail,  \* the store to tail_ the producer read last
          view,      \* per thread: slots whose latest access it knows
          buffer,    \* contents of the slots
          out,       \* the consumer's output argument
          ppc,       \* where the producer is in try_emplace
          cpc,       \* where the consumer is in try_pop
          alive      \* the destructor has not run

vars == <<head, tail, headMsgs, tailMsgs, seenHead, seenTail, view, buffer,
          out, ppc, cpc, alive>>

producerVars == <<head, headMsgs, seenTail, ppc>>
consumerVars == <<tail, tailMsgs, seenHead, cpc, out>>

Slots == 0 .. Capacity - 1
Thread == {"producer", "consumer"}

\* Every variable has its type; head_ and tail_ have a store for each value the
\* other side can still read.
TypeOK ==
  /\ head \in Nat /\ tail \in Nat
  /\ seenHead \in Nat /\ seenTail \in Nat
  /\ headMsgs \in [seenHead .. head -> SUBSET Slots]
  /\ tailMsgs \in [seenTail .. tail -> SUBSET Slots]
  /\ view \in [Thread -> SUBSET Slots]
  /\ buffer \in [Slots -> Value \cup {Raw, Moved}]
  /\ out \in Value \cup {Raw}
  /\ ppc \in {"idle", "construct", "publish"}
  /\ cpc \in {"idle", "move", "destroy", "retire"}
  /\ alive \in BOOLEAN

(***************************************************************************)
(* Word arithmetic and slots.                                              *)
(***************************************************************************)
Word(n) == n % WordSize

WordSubNoWrap(a, b) == a - b
WordSub(a, b) == (a - b) % WordSize

FullOffByOne(h, t) == WordSub(h, t) > Capacity
Full(h, t) == WordSub(h, t) >= Capacity

\* index & mask_, for a power of two Capacity.
SlotPastEnd(n) == Word(n) % (Capacity + 1)
Slot(n) == Word(n) % Capacity

(***************************************************************************)
(* Thread t accesses slot s: no one else knows of this access yet, and no  *)
(* store made before it carries it.                                        *)
(***************************************************************************)
Without(msgs, s) == [v \in DOMAIN msgs |-> msgs[v] \ {s}]

Access(t, s) ==
  /\ view' = [u \in Thread |-> IF u = t THEN view[u] \cup {s} ELSE view[u] \ {s}]
  /\ headMsgs' = Without(headMsgs, s)
  /\ tailMsgs' = Without(tailMsgs, s)

\* The view a release store attaches, and what an acquire load does with it.
ReleaseNothing(t) == {}
Release(t) == view[t]

AcquireNothing(t, msg) == UNCHANGED view
Acquire(t, msg) == view' = [view EXCEPT ![t] = @ \cup msg]

-----------------------------------------------------------------------------
Init ==
  /\ head = 0 /\ tail = 0
  /\ seenHead = 0 /\ seenTail = 0
  /\ headMsgs = [v \in 0 .. 0 |-> Slots]
  /\ tailMsgs = [v \in 0 .. 0 |-> Slots]
  /\ view = [t \in Thread |-> Slots]
  /\ buffer = [s \in Slots |-> Raw]
  /\ out = Raw
  /\ ppc = "idle" /\ cpc = "idle"
  /\ alive = TRUE

(***************************************************************************)
(* Producer: try_push and try_emplace.                                     *)
(***************************************************************************)

\* The relaxed load of head_ returns the producer's own last store.
LoadTail ==
  /\ alive /\ ppc = "idle" /\ head < MaxPushes
  /\ \E t \in seenTail .. tail :
       /\ seenTail' = t
       /\ tailMsgs' = [v \in t .. tail |-> tailMsgs[v]]
       /\ Acquire("producer", tailMsgs[t])
       /\ ppc' = IF Full(Word(head), Word(t)) THEN "idle" ELSE "construct"
  /\ UNCHANGED <<head, headMsgs, buffer, alive, tail, seenHead, cpc, out>>

Construct(v) ==
  /\ ppc = "construct"
  /\ Access("producer", Slot(head))
  /\ buffer' = [buffer EXCEPT ![Slot(head)] = v]
  /\ ppc' = "publish"
  /\ UNCHANGED <<head, seenTail, tail, seenHead, cpc, out, alive>>

\* T's constructor throws: the storage was touched, no object lives in it.
ConstructThrows ==
  /\ ppc = "construct"
  /\ Access("producer", Slot(head))
  /\ ppc' = "idle"
  /\ UNCHANGED <<head, seenTail, tail, seenHead, cpc, out, buffer, alive>>

PublishHead ==
  /\ ppc = "publish"
  /\ head' = head + 1
  /\ headMsgs' = [v \in seenHead .. head + 1 |->
                    IF v = head + 1 THEN Release("producer") ELSE headMsgs[v]]
  /\ ppc' = "idle"
  /\ UNCHANGED <<seenTail, view, buffer, alive, consumerVars>>

(***************************************************************************)
(* Consumer: try_pop.                                                      *)
(***************************************************************************)
LoadHead ==
  /\ alive /\ cpc = "idle"
  /\ \E h \in seenHead .. head :
       /\ seenHead' = h
       /\ headMsgs' = [v \in h .. head |-> headMsgs[v]]
       /\ Acquire("consumer", headMsgs[h])
       /\ cpc' = IF Word(tail) = Word(h) THEN "idle" ELSE "move"
  /\ UNCHANGED <<tail, tailMsgs, out, buffer, alive, head, seenTail, ppc>>

MoveOut ==
  /\ cpc = "move"
  /\ Access("consumer", Slot(tail))
  /\ out' = buffer[Slot(tail)]
  /\ buffer' = [buffer EXCEPT ![Slot(tail)] = Moved]
  /\ cpc' = "destroy"
  /\ UNCHANGED <<tail, seenHead, head, seenTail, ppc, alive>>

\* T's move assignment throws and leaves its source as it was.
MoveOutThrows ==
  /\ cpc = "move"
  /\ Access("consumer", Slot(tail))
  /\ cpc' = "idle"
  /\ UNCHANGED <<tail, seenHead, out, head, seenTail, ppc, buffer, alive>>

Destroy ==
  /\ cpc = "destroy"
  /\ Access("consumer", Slot(tail))
  /\ buffer' = [buffer EXCEPT ![Slot(tail)] = Raw]
  /\ cpc' = "retire"
  /\ UNCHANGED <<tail, seenHead, out, head, seenTail, ppc, alive>>

PublishTail ==
  /\ cpc = "retire"
  /\ tail' = tail + 1
  /\ tailMsgs' = [v \in seenTail .. tail + 1 |->
                    IF v = tail + 1 THEN Release("consumer") ELSE tailMsgs[v]]
  /\ cpc' = "idle"
  /\ UNCHANGED <<seenHead, out, view, buffer, alive, producerVars>>

(***************************************************************************)
(* The destructor runs after both threads stopped using the queue: its     *)
(* relaxed loads return the latest stores.                                 *)
(***************************************************************************)
DestroyRemaining ==
  /\ alive /\ ppc = "idle" /\ cpc = "idle"
  /\ buffer' = [s \in Slots |->
                  IF \E n \in tail .. head - 1 : Slot(n) = s THEN Raw ELSE buffer[s]]
  /\ alive' = FALSE
  /\ UNCHANGED <<view, producerVars, consumerVars>>

Destroyed == ~alive /\ UNCHANGED vars

Producer == LoadTail \/ (\E v \in Value : Construct(v)) \/ ConstructThrows \/ PublishHead
Consumer == LoadHead \/ MoveOut \/ MoveOutThrows \/ Destroy \/ PublishTail

Next == Producer \/ Consumer \/ DestroyRemaining \/ Destroyed

Spec == Init /\ [][Next]_vars

-----------------------------------------------------------------------------
\* The first element not yet moved out.
First == IF cpc \in {"destroy", "retire"} THEN tail + 1 ELSE tail

(***************************************************************************)
(* No data race on a slot: a thread about to access a slot knows of every  *)
(* earlier access to it, by the release/acquire pairs on head_ and tail_.  *)
(***************************************************************************)
RaceFree ==
  /\ ppc = "construct" => Slot(head) \in view["producer"]
  /\ cpc \in {"move", "destroy"} => Slot(tail) \in view["consumer"]

(***************************************************************************)
(* Every object is constructed in raw storage, moved from once while it    *)
(* holds its value, destroyed once, and none outlives the queue.           *)
(***************************************************************************)
ObjectLifetime ==
  /\ ppc = "construct" => buffer[Slot(head)] = Raw
  /\ alive => \A n \in First .. head - 1 : buffer[Slot(n)] \in Value
  /\ cpc = "destroy" => buffer[Slot(tail)] = Moved
  /\ ~alive => \A s \in Slots : buffer[s] = Raw

(***************************************************************************)
(* The ring implements the bounded FIFO: push takes effect when head_ is   *)
(* stored, pop when the object is moved out, stale loads hide progress but *)
(* never invent any.                                                       *)
(***************************************************************************)
Elements == IF alive THEN head - First ELSE 0
FifoQueue == [i \in 1 .. Elements |-> buffer[Slot(First + i - 1)]]
FifoHidden == IF alive THEN First - seenTail ELSE 0
FifoPending == IF alive THEN head - seenHead ELSE 0

Fifo == INSTANCE BoundedFifo
  WITH NoValue <- Raw, queue <- FifoQueue, hidden <- FifoHidden, pending <- FifoPending

ImplementsFifo == Fifo!FifoSpec

(***************************************************************************)
(* The inductive invariant behind the three.                               *)
(***************************************************************************)

\* What each side saw last brackets what the other did since, and the whole
\* stretch fits in the ring.
CountersInv ==
  /\ seenTail <= tail /\ tail <= seenHead /\ seenHead <= head
  /\ head <= seenTail + Capacity
  /\ ppc # "idle" => head < seenTail + Capacity
  /\ cpc # "idle" => tail < seenHead
  /\ ~alive => ppc = "idle" /\ cpc = "idle"

\* The last thread to access a slot knows of it; every store to tail_ the
\* producer can read carries the slots it frees, every store to head_ the
\* consumer can read carries the slots it fills.
ViewsInv ==
  /\ view["producer"] \cup view["consumer"] = Slots
  /\ \A n \in head .. seenTail + Capacity - 1 : Slot(n) \in view["producer"]
  /\ \A n \in tail .. seenHead - 1 : Slot(n) \in view["consumer"]
  /\ \A v \in seenTail .. tail : \A n \in head .. v + Capacity - 1 :
       Slot(n) \in tailMsgs[v] \cup view["producer"]
  /\ \A v \in seenHead .. head : \A n \in tail .. v - 1 :
       Slot(n) \in headMsgs[v] \cup view["consumer"]

\* Objects live exactly in the slots between tail and head, up to the
\* operation in progress on each side.
ObjectsInv ==
  alive =>
    /\ \A n \in First .. head - 1 : buffer[Slot(n)] \in Value
    /\ cpc = "destroy" => buffer[Slot(tail)] = Moved
    /\ cpc = "retire" => buffer[Slot(tail)] = Raw
    /\ ppc = "publish" => buffer[Slot(head)] \in Value
    /\ \A n \in head .. tail + Capacity - 1 :
         (ppc = "publish" /\ n = head) \/ buffer[Slot(n)] = Raw

IndInv ==
  /\ TypeOK
  /\ CountersInv
  /\ ViewsInv
  /\ ObjectsInv
  /\ ~alive => \A s \in Slots : buffer[s] = Raw

=============================================================================
