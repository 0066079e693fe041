---------------------------- MODULE BatchBroker ----------------------------
(***************************************************************************)
(* aether::Broker and aether::BatchBroker with their counters.            *)
(* A try_publish or try_consume of either broker does what a batch of one  *)
(* does, so all calls are batches here.  The queue is the BoundedFifo that *)
(* SpscRingBuffer implements.  A counter is incremented after the queue    *)
(* operation it counts, so the other thread, and a thread that resets the  *)
(* metrics, may run in between.                                            *)
(***************************************************************************)
EXTENDS BoundedFifo, SequencesExt

CONSTANTS Batch,       \* the sequences of values the producer publishes
          MaxOut,      \* the largest output span of the consumer
          MaxCalls,    \* bound on the publish calls, and on the calls of a broker that is invalid
          MaxEmpties   \* bound on the consume calls that find nothing

ASSUME BatchAssumption ==
  /\ Capacity \in Nat /\ MaxOut \in Nat /\ MaxCalls \in Nat /\ MaxEmpties \in Nat
  /\ \A b \in Batch : b \in Seq(Value)

VARIABLES valid,             \* config_status_.is_ok()
          ppc, messages, published,  \* try_publish_batch: the step, its arguments and count
          cpc, room, consumed,  \* try_consume_batch: the step, the size of the
                                \* span, the values consumed by this call
          counters,
          stores,            \* reset(): how many of its stores were made
          sent, got,         \* history: the values queued, how many were consumed
          calls,             \* history: the publish calls that ended
          empties,           \* history: consume calls that returned 0
          wasReset,          \* history: reset() was called
          before, after      \* history: the counters when it was called, the events
                             \* that had happened when it returned

producerVars == <<ppc, messages, published, sent, calls>>
consumerVars == <<cpc, room, consumed, got, empties>>
resetVars == <<stores, wasReset, before, after>>
vars == <<fifoVars, valid, producerVars, consumerVars, counters, resetVars>>

\* The place of each counter among the stores of reset().
StoreOf == [published |-> 1, consumed |-> 2, publish_failed_full |-> 3,
            consume_failed_empty |-> 4, publish_failed_invalid |-> 5,
            consume_failed_invalid |-> 6]
Counter == DOMAIN StoreOf
Stores == 6

\* The calls a full queue ended before the end of the batch.
CutShort(ended) ==
  {i \in DOMAIN ended : ended[i].end = "returned" /\ ended[i].count < Len(ended[i].batch)}

\* The events the counters of a valid broker count, and the one that has
\* happened in a call in progress but is not counted yet.
Counted == {"published", "consumed", "publish_failed_full", "consume_failed_empty"}
Happened(c) ==
  CASE c = "published" -> Len(sent)
    [] c = "consumed" -> got
    [] c = "publish_failed_full" -> Cardinality(CutShort(calls))
    [] c = "consume_failed_empty" -> empties
InProgress(c) ==
  IF (c = "published" /\ ppc = "count") \/ (c = "consumed" /\ cpc = "count") THEN 1 ELSE 0

Count(c) == counters' = [counters EXCEPT ![c] = @ + 1]

Init ==
  /\ FifoInit
  /\ valid \in BOOLEAN
  /\ ppc = "idle" /\ messages = <<>> /\ published = 0
  /\ cpc = "idle" /\ room = 0 /\ consumed = 0
  /\ counters = [c \in Counter |-> 0]
  /\ stores = Stores /\ wasReset = FALSE
  /\ before = [c \in Counter |-> 0] /\ after = [c \in Counted |-> 0]
  /\ sent = <<>> /\ got = 0 /\ calls = <<>> /\ empties = 0

(***************************************************************************)
(* try_publish, try_emplace, try_publish_batch.                            *)
(***************************************************************************)
PublishInvalid ==
  /\ ~valid /\ ppc = "idle" /\ counters["publish_failed_invalid"] < MaxCalls
  /\ Count("publish_failed_invalid")
  /\ UNCHANGED <<fifoVars, valid, producerVars, consumerVars, resetVars>>

\* An empty batch returns before the configuration is looked at.
PublishBatch(b) ==
  /\ valid /\ b # <<>>
  /\ ppc = "idle" /\ Len(calls) < MaxCalls
  /\ messages' = b /\ published' = 0
  /\ ppc' = "try"
  /\ UNCHANGED <<fifoVars, valid, sent, calls, consumerVars, counters, resetVars>>

\* try_publish and try_emplace, of either broker.
TryPublish(v) == PublishBatch(<<v>>)

EndCall(end) ==
  /\ ppc' = "idle"
  /\ messages' = <<>> /\ published' = 0
  /\ calls' = Append(calls, [batch |-> messages, count |-> published, end |-> end])

\* try_push looks at the consumer's progress, stale as it may be.
TryPush ==
  /\ ppc = "try" /\ published < Len(messages)
  /\ ProducerObserve
  /\ ppc' = IF Len(queue) + hidden' >= Capacity THEN "full" ELSE "store"
  /\ UNCHANGED <<valid, messages, published, sent, calls, consumerVars, counters, resetVars>>

StoreMessage ==
  /\ ppc = "store"
  /\ Push(messages[published + 1])
  /\ sent' = Append(sent, messages[published + 1])
  /\ ppc' = "count"
  /\ UNCHANGED <<valid, messages, published, calls, consumerVars, counters, resetVars>>

\* The copy throws: the exception leaves the call, the slot stays free.
CopyThrows ==
  /\ ppc = "store"
  /\ EndCall("threw")
  /\ UNCHANGED <<fifoVars, valid, sent, consumerVars, counters, resetVars>>

\* The messages are counted when the batch is through.
CountPublishedAtEnd ==
  /\ ppc = "count"
  /\ counters' = [counters EXCEPT !["published"] =
                    IF published + 1 = Len(messages) THEN @ + Len(messages) ELSE @]
  /\ published' = published + 1
  /\ ppc' = "try"
  /\ UNCHANGED <<fifoVars, valid, messages, sent, calls, consumerVars, resetVars>>
CountPublished ==
  /\ ppc = "count"
  /\ Count("published")
  /\ published' = published + 1
  /\ ppc' = "try"
  /\ UNCHANGED <<fifoVars, valid, messages, sent, calls, consumerVars, resetVars>>

\* The batch goes on with the message after the one that did not fit.
CountFullGoesOn ==
  /\ ppc = "full"
  /\ Count("publish_failed_full")
  /\ published' = published + 1
  /\ ppc' = "try"
  /\ UNCHANGED <<fifoVars, valid, messages, sent, calls, consumerVars, resetVars>>
CountFull ==
  /\ ppc = "full"
  /\ Count("publish_failed_full")
  /\ EndCall("returned")
  /\ UNCHANGED <<fifoVars, valid, sent, consumerVars, resetVars>>

PublishReturns ==
  /\ ppc = "try" /\ published = Len(messages)
  /\ EndCall("returned")
  /\ UNCHANGED <<fifoVars, valid, sent, consumerVars, counters, resetVars>>

(***************************************************************************)
(* try_consume, try_consume_batch.                                         *)
(***************************************************************************)
ConsumeInvalid ==
  /\ ~valid /\ cpc = "idle" /\ counters["consume_failed_invalid"] < MaxCalls
  /\ Count("consume_failed_invalid")
  /\ UNCHANGED <<fifoVars, valid, producerVars, consumerVars, resetVars>>

ConsumeBatch(n) ==
  /\ valid
  /\ cpc = "idle" /\ empties < MaxEmpties
  /\ room' = n /\ consumed' = 0
  /\ cpc' = "try"
  /\ UNCHANGED <<fifoVars, valid, producerVars, got, empties, counters, resetVars>>

\* try_consume, of either broker.
TryConsume == ConsumeBatch(1)

EndConsume ==
  /\ cpc' = "idle"
  /\ room' = 0 /\ consumed' = 0

\* try_pop looks at the producer's progress, stale as it may be.
TryPop ==
  /\ cpc = "try" /\ consumed < room
  /\ ConsumerObserve
  /\ cpc' = IF pending' < Len(queue) THEN "move" ELSE "empty"
  /\ UNCHANGED <<valid, producerVars, room, consumed, got, empties, counters, resetVars>>

MoveMessage ==
  /\ cpc = "move"
  /\ Pop
  /\ got' = got + 1
  /\ cpc' = "count"
  /\ UNCHANGED <<valid, producerVars, room, consumed, empties, counters, resetVars>>

\* The move assignment throws before the value is destroyed: it stays queued.
MoveThrows ==
  /\ cpc = "move"
  /\ EndConsume
  /\ UNCHANGED <<fifoVars, valid, producerVars, got, empties, counters, resetVars>>

CountConsumed ==
  /\ cpc = "count"
  /\ Count("consumed")
  /\ consumed' = consumed + 1
  /\ cpc' = "try"
  /\ UNCHANGED <<fifoVars, valid, producerVars, room, got, empties, resetVars>>

\* Every try_pop that fails is counted.
ConsumeReturnsCountingAll ==
  /\ cpc = "empty" \/ (cpc = "try" /\ consumed = room)
  /\ IF cpc = "empty" THEN Count("consume_failed_empty") ELSE UNCHANGED counters
  /\ empties' = IF consumed = 0 THEN empties + 1 ELSE empties
  /\ EndConsume
  /\ UNCHANGED <<fifoVars, valid, producerVars, got, resetVars>>
ConsumeReturns ==
  /\ cpc = "empty" \/ (cpc = "try" /\ consumed = room)
  /\ IF consumed = 0 THEN Count("consume_failed_empty") ELSE UNCHANGED counters
  /\ empties' = IF consumed = 0 THEN empties + 1 ELSE empties
  /\ EndConsume
  /\ UNCHANGED <<fifoVars, valid, producerVars, got, resetVars>>

(***************************************************************************)
(* reset_metrics, from any thread.  Its relaxed stores may be seen in      *)
(* another order; no property below relates two counters after a reset.    *)
(***************************************************************************)
ResetStart ==
  /\ ~wasReset
  /\ wasReset' = TRUE /\ stores' = 0
  /\ before' = counters
  /\ UNCHANGED <<fifoVars, valid, producerVars, consumerVars, counters, after>>

\* A counter was left out of reset().
ResetNextSkips(c) ==
  /\ stores < Stores /\ StoreOf[c] = stores + 1
  /\ counters' = [counters EXCEPT ![c] = IF c = "publish_failed_full" THEN @ ELSE 0]
  /\ stores' = stores + 1
  /\ after' = IF stores' = Stores THEN [d \in Counted |-> Happened(d)] ELSE after
  /\ UNCHANGED <<fifoVars, valid, producerVars, consumerVars, wasReset, before>>
ResetNext(c) ==
  /\ stores < Stores /\ StoreOf[c] = stores + 1
  /\ counters' = [counters EXCEPT ![c] = 0]
  /\ stores' = stores + 1
  /\ after' = IF stores' = Stores THEN [d \in Counted |-> Happened(d)] ELSE after
  /\ UNCHANGED <<fifoVars, valid, producerVars, consumerVars, wasReset, before>>

\* Both threads may have made their last call.
Idle ==
  /\ ppc = "idle" /\ cpc = "idle"
  /\ UNCHANGED vars

Producer ==
  \/ PublishInvalid
  \/ \E v \in Value : TryPublish(v)
  \/ \E b \in Batch : PublishBatch(b)
  \/ TryPush \/ StoreMessage \/ CopyThrows \/ CountPublished
  \/ CountFull \/ PublishReturns

Consumer ==
  \/ ConsumeInvalid
  \/ TryConsume
  \/ \E n \in 2 .. MaxOut : ConsumeBatch(n)
  \/ TryPop \/ MoveMessage \/ MoveThrows \/ CountConsumed \/ ConsumeReturns

Next == Producer \/ Consumer \/ ResetStart \/ (\E c \in Counter : ResetNext(c)) \/ Idle

Spec == Init /\ [][Next]_vars

-----------------------------------------------------------------------------
\* What the counts of ended calls say is queued.
Queued(ended) ==
  FlattenSeq([i \in DOMAIN ended |-> SubSeq(ended[i].batch, 1, ended[i].count)])

(***************************************************************************)
(* The count try_publish_batch returns is the length of the prefix of the  *)
(* batch that is queued: a caller that goes on with the rest loses and     *)
(* repeats nothing, whatever the consumer did meanwhile.  Neither batch    *)
(* call passes the end of its span.                                        *)
(***************************************************************************)
BatchPrefixes ==
  /\ published <= Len(messages) /\ consumed <= room
  /\ ppc = "idle" => sent = Queued(calls)

(***************************************************************************)
(* While reset() was never called, the counters of a thread that is in no  *)
(* call are exact, also after calls that threw: the values queued and the  *)
(* batches cut short by a full queue, the values taken and the calls that  *)
(* found nothing (tests/test_batch_broker.cpp and docs/metrics.md).        *)
(***************************************************************************)
ExactWhenQuiet ==
  ~wasReset =>
    /\ ppc = "idle" =>
         /\ counters["published"] = Len(sent)
         /\ counters["publish_failed_full"] = Cardinality(CutShort(calls))
    /\ cpc = "idle" =>
         counters["consumed"] = got /\ counters["consume_failed_empty"] = empties

(***************************************************************************)
(* Before a reset(), consumed is at most one ahead of published and        *)
(* published at most Capacity + 1 ahead of consumed, at every moment.  A   *)
(* snapshot the consumer or the producer itself takes shows no more: each  *)
(* counts after its release store, so the other side's next acquire load   *)
(* makes all but the last increment visible.                               *)
(***************************************************************************)
CountersClose ==
  ~wasReset =>
    /\ counters["consumed"] <= counters["published"] + 1
    /\ counters["published"] <= counters["consumed"] + Capacity + 1

(***************************************************************************)
(* A reset() that races with the threads forgets exactly the past: a       *)
(* counter it has zeroed counts nothing that was counted before reset()    *)
(* was called, and all that happens after it has returned is counted, up   *)
(* to the event in progress.  (Between the two, an event may count or not. *)
(* The counters are zeroed one by one: counters.hpp.)                      *)
(***************************************************************************)
ResetForgetsThePast ==
  wasReset => \A c \in Counted :
    /\ StoreOf[c] <= stores => counters[c] + InProgress(c) + before[c] <= Happened(c)
    /\ stores = Stores => Happened(c) <= counters[c] + InProgress(c) + after[c]

-----------------------------------------------------------------------------
Call == [batch : Seq(Value), count : Nat, end : {"returned", "threw"}]

BatchTypeOK ==
  /\ FifoTypeOK
  /\ ppc \in {"idle", "try", "store", "count", "full"}
  /\ cpc \in {"idle", "try", "move", "count", "empty"}
  /\ messages \in Seq(Value) /\ published \in 0 .. Len(messages)
  /\ ppc \in {"store", "count", "full"} => published < Len(messages)
  /\ room \in Nat /\ consumed \in 0 .. room
  /\ cpc \in {"move", "count"} => consumed < room
  /\ counters \in [Counter -> Nat]
  /\ stores \in 0 .. Stores /\ before \in [Counter -> Nat] /\ after \in [Counted -> Nat]
  /\ sent \in Seq(Value) /\ got \in Nat /\ calls \in Seq(Call) /\ empties \in Nat

\* What is queued was sent and is not consumed, and only reset() stores.
BatchInv ==
  /\ BatchTypeOK
  /\ Len(sent) = got + Len(queue)
  /\ stores < Stores => wasReset

\* The events a counter lacks: no step but the store of reset() changes it.
Missing(c) == Happened(c) - InProgress(c) - counters[c]

\* Until its store is made a counter lacks nothing; then it lacks at least what it
\* had counted when reset() was called, and at most what had happened at its end.
LedgerInv ==
  \A c \in Counted :
    /\ ~wasReset \/ stores < StoreOf[c] => Missing(c) = 0
    /\ wasReset => before[c] <= (IF stores < StoreOf[c] THEN counters[c] ELSE Missing(c))
    /\ wasReset /\ stores = Stores => Missing(c) <= after[c]

\* The values queued so far: by the calls that ended and by the one in progress.
SentInv ==
  /\ \A i \in DOMAIN calls : calls[i].count <= Len(calls[i].batch)
  /\ ppc = "idle" => published = 0
  /\ sent = Queued(calls) \o
              SubSeq(messages, 1, IF ppc = "count" THEN published + 1 ELSE published)

=============================================================================
