-------------------------- MODULE PersistentBroker --------------------------
(***************************************************************************)
(* aether::PersistentBroker<T, Capacity>: the write-ahead log composed     *)
(* with the queue.  One producer thread calls try_publish and flush, one   *)
(* consumer thread calls try_consume, the owner opens the broker while     *)
(* both are out of it, and the process may end at any step.                *)
(*                                                                         *)
(* The queue is the BoundedFifo that SpscRingBuffer implements, the log    *)
(* the DurableLog that Wal implements.  All records of a broker have the   *)
(* size of T, so the file holds a fixed number of them, and no failed      *)
(* append leaves the log garbled.                                          *)
(***************************************************************************)
EXTENDS BoundedFifo, DurableLog, SequencesExt

CONSTANTS WalCapacity,   \* how many records fit in the file
          MaxCalls       \* bound on each thread's calls

ASSUME RecordAssumption == Record = Value
ASSUME BoundsAssumption == Capacity \in Nat /\ WalCapacity \in Nat /\ MaxCalls \in Nat

VARIABLES flushOnCommit,
          openStatus,    \* open_status_: "not_open", "ok", "already_open", "error"
          ppc, value,    \* the producer's step in try_publish, and its argument
          status,        \* what try_publish returned last
          cpc,           \* the consumer's step in try_consume
          counters,
          got,           \* history: the values consumed
          calls,         \* history: calls made by the owner and the producer
          ended          \* "no", "closed" (destructor), "killed", "power" loss

openVars == <<flushOnCommit, openStatus>>
producerVars == <<ppc, value, status>>
vars == <<fifoVars, logVars, openVars, producerVars, cpc, counters, got, calls, ended>>

Counter == {"published", "consumed", "publish_failed_full", "consume_failed_empty",
            "publish_failed_invalid", "consume_failed_invalid", "wal_records_written",
            "wal_flushes", "wal_failures"}

\* Every variable has its type; the queue never holds more than Capacity values.
TypeOK ==
  /\ FifoTypeOK /\ LogTypeOK
  /\ flushOnCommit \in BOOLEAN
  /\ openStatus \in {"not_open", "ok", "already_open", "error"}
  /\ ppc \in {"idle", "append", "copy", "flush", "push", "count"}
  /\ value \in Value \cup {NoValue}
  /\ status \in {"ok", "invalid", "full", "out_of_space", "io_error", "unknown"}
  /\ cpc \in {"idle", "pop", "count"}
  /\ counters \in [Counter -> Nat]
  /\ got \in Seq(Value) /\ calls \in 0 .. MaxCalls
  /\ ended \in {"no", "closed", "killed", "power"}

Count(c) == counters' = [counters EXCEPT ![c] = @ + 1]

writerValid == up
valid == openStatus = "ok" /\ up

Init ==
  /\ FifoInit /\ LogInit
  /\ flushOnCommit = FALSE /\ openStatus = "not_open"
  /\ ppc = "idle" /\ value = NoValue /\ status = "ok"
  /\ cpc = "idle"
  /\ counters = [c \in Counter |-> 0]
  /\ got = <<>> /\ calls = 0
  /\ ended = "no"

ProducerCalls == ended = "no" /\ ppc = "idle" /\ calls < MaxCalls /\ calls' = calls + 1

(***************************************************************************)
(* open.  A second open of an open broker leaves the file alone and makes  *)
(* the broker invalid; a configuration may be refused, and the writer's    *)
(* create() may fail.                                                      *)
(***************************************************************************)
Open ==
  /\ ProducerCalls /\ cpc = "idle"
  /\ \/ /\ openStatus' = IF up THEN "already_open" ELSE "error"
        /\ UNCHANGED <<logVars, flushOnCommit>>
     \/ /\ New
        /\ openStatus' = IF up' THEN "ok" ELSE "error"
        /\ flushOnCommit' \in IF up' THEN BOOLEAN ELSE {flushOnCommit}
  /\ UNCHANGED <<fifoVars, producerVars, cpc, counters, got, ended>>

(***************************************************************************)
(* try_publish.                                                            *)
(***************************************************************************)
PublishInvalid ==
  /\ ProducerCalls /\ ~valid
  /\ Count("publish_failed_invalid")
  /\ status' = "invalid"
  /\ UNCHANGED <<fifoVars, logVars, openVars, ppc, value, cpc, got, ended>>

\* broker_.full(), on whatever progress of the consumer the producer sees.
CheckNothing(v) ==
  /\ ProducerCalls /\ valid
  /\ ppc' = "append" /\ value' = v
  /\ UNCHANGED <<status, fifoVars, counters, logVars, openVars, cpc, got, ended>>
CheckFull(v) ==
  /\ ProducerCalls /\ valid
  /\ ProducerObserve
  /\ \/ /\ Len(queue) + hidden' >= Capacity
        /\ Count("publish_failed_full")
        /\ status' = "full"
        /\ UNCHANGED <<ppc, value>>
     \/ /\ Len(queue) + hidden' < Capacity
        /\ ppc' = "append" /\ value' = v
        /\ UNCHANGED <<status, counters>>
  /\ UNCHANGED <<logVars, openVars, cpc, got, ended>>

\* try_publish returns s after a failure in or after append_to_wal.
Fails(s) ==
  /\ Count("wal_failures")
  /\ ppc' = "idle" /\ value' = NoValue /\ status' = s

AppendNoSpace ==
  /\ ppc = "append" /\ Len(acked) >= WalCapacity
  /\ Fails("out_of_space")
  /\ UNCHANGED <<fifoVars, logVars, openVars, cpc, got, calls, ended>>

AppendStart ==
  /\ ppc = "append" /\ Len(acked) < WalCapacity
  /\ Try(value)
  /\ ppc' = "copy"
  /\ UNCHANGED <<fifoVars, openVars, value, status, cpc, counters, got, calls, ended>>

AppendCopied ==
  /\ ppc = "copy"
  /\ stored' = Append(acked, value)
  /\ ppc' = "flush"
  /\ UNCHANGED <<fifoVars, acked, synced, tried, garbled, up, openVars, value, status, cpc, counters,
                 got, calls, ended>>

AppendOk ==
  /\ ppc = "flush"
  /\ Acknowledge
  /\ synced' = IF flushOnCommit THEN Len(stored) ELSE synced
  /\ Count("wal_records_written")
  /\ ppc' = "push"
  /\ UNCHANGED <<fifoVars, openVars, value, status, cpc, got, calls, ended>>

AppendIgnoresFlush ==
  /\ ppc = "flush" /\ flushOnCommit
  /\ Acknowledge /\ UNCHANGED synced
  /\ Count("wal_records_written")
  /\ ppc' = "push"
  /\ UNCHANGED <<fifoVars, openVars, value, status, cpc, got, calls, ended>>
AppendFlushFails ==
  /\ ppc = "flush" /\ flushOnCommit
  /\ Fails("io_error")
  /\ UNCHANGED <<fifoVars, logVars, openVars, cpc, got, calls, ended>>

\* broker_.try_publish(value): the queue looks at the consumer's progress once
\* more, and stores the value if it finds a place.
PushValue ==
  /\ ppc = "push"
  /\ \E h \in 0 .. hidden :
       /\ hidden' = h
       /\ IF Len(queue) + h >= Capacity
            THEN Fails("unknown") /\ UNCHANGED <<queue, pending>>
            ELSE /\ queue' = Append(queue, value) /\ pending' = pending + 1
                 /\ ppc' = "count"
                 /\ UNCHANGED <<value, status, counters>>
  /\ UNCHANGED <<out, logVars, openVars, cpc, got, calls, ended>>

\* As if the inner broker shared its counters with this one.
CountPublishedTwice ==
  /\ ppc = "count"
  /\ counters' = [counters EXCEPT !["published"] = @ + 2]
  /\ ppc' = "idle" /\ value' = NoValue /\ status' = "ok"
  /\ UNCHANGED <<fifoVars, logVars, openVars, cpc, got, calls, ended>>
CountPublished ==
  /\ ppc = "count"
  /\ Count("published")
  /\ ppc' = "idle" /\ value' = NoValue /\ status' = "ok"
  /\ UNCHANGED <<fifoVars, logVars, openVars, cpc, got, calls, ended>>

FlushLog ==
  /\ ProducerCalls
  /\ \/ valid /\ Sync /\ Count("wal_flushes")
     \/ Count("wal_failures") /\ UNCHANGED logVars
  /\ UNCHANGED <<fifoVars, openVars, producerVars, cpc, got, ended>>

(***************************************************************************)
(* try_consume.                                                            *)
(***************************************************************************)
ConsumeInvalid ==
  /\ ended = "no" /\ cpc = "idle" /\ counters["consume_failed_invalid"] < MaxCalls
  /\ ~valid
  /\ Count("consume_failed_invalid")
  /\ UNCHANGED <<fifoVars, logVars, openVars, producerVars, cpc, got, calls, ended>>

CheckEmpty ==
  /\ ended = "no" /\ cpc = "idle" /\ counters["consume_failed_empty"] < MaxCalls
  /\ valid
  /\ ConsumerObserve
  /\ \/ /\ pending' = Len(queue)
        /\ Count("consume_failed_empty")
        /\ UNCHANGED cpc
     \/ /\ pending' < Len(queue)
        /\ cpc' = "pop"
        /\ UNCHANGED counters
  /\ UNCHANGED <<logVars, openVars, producerVars, got, calls, ended>>

PopValue ==
  /\ cpc = "pop"
  /\ Pop
  /\ got' = Append(got, out')
  /\ cpc' = "count"
  /\ UNCHANGED <<logVars, openVars, producerVars, counters, calls, ended>>

CountConsumed ==
  /\ cpc = "count"
  /\ Count("consumed")
  /\ cpc' = "idle"
  /\ UNCHANGED <<fifoVars, logVars, openVars, producerVars, got, calls, ended>>

(***************************************************************************)
(* The end: the destructor, a killed process, a power loss.  The queue     *)
(* goes with the process; the file stays.  A process killed while it       *)
(* copies a record over one a failed append left behind leaves neither.    *)
(***************************************************************************)
Ends(how) ==
  /\ ended = "no" /\ ended' = how
  /\ Drop
  /\ ppc' = "idle" /\ cpc' = "idle" /\ value' = NoValue
  /\ UNCHANGED <<status, openVars, counters, got, calls>>

Destructor ==
  /\ ppc = "idle" /\ cpc = "idle"
  /\ Ends("closed")
  /\ up' = FALSE
  /\ UNCHANGED <<acked, stored, synced, tried, garbled>>

Killed ==
  /\ Ends("killed")
  /\ up' = FALSE
  /\ stored' \in {stored} \cup (IF ppc = "copy" THEN {acked} ELSE {})
  /\ UNCHANGED <<acked, synced, tried, garbled>>

PowerLoss == Ends("power") /\ Stop

Ended == ended # "no" /\ UNCHANGED vars

Producer ==
  \/ Open
  \/ PublishInvalid
  \/ \E v \in Value : CheckFull(v)
  \/ AppendNoSpace \/ AppendStart \/ AppendCopied \/ AppendOk \/ AppendFlushFails
  \/ PushValue \/ CountPublished
  \/ FlushLog

Consumer == ConsumeInvalid \/ CheckEmpty \/ PopValue \/ CountConsumed

Next == Producer \/ Consumer \/ Destructor \/ Killed \/ PowerLoss \/ Ended

Spec == Init /\ [][Next]_vars

-----------------------------------------------------------------------------
(***************************************************************************)
(* The branch "queue publish failed after WAL append" is dead: a place     *)
(* full() saw free is still free when the record is in the log.            *)
(***************************************************************************)
AppendedIsPublished == status # "unknown"

(***************************************************************************)
(* WAL before queue: what went through the queue is, in the same order,    *)
(* the beginning of the log, all of it except a value whose try_publish    *)
(* is still running; with flush_on_commit it has also been flushed.        *)
(***************************************************************************)
WalBeforeQueue ==
  ended = "no" =>
    LET through == got \o queue
    IN  /\ IsPrefix(through, acked)
        /\ ppc # "push" => Len(through) = Len(acked)
        /\ flushOnCommit => Len(through) <= synced

(***************************************************************************)
(* Whatever ended the process, a replay starts with everything the         *)
(* consumer ever got, unless the power failed before a flush covered it.   *)
(***************************************************************************)
ReplayCoversConsumed ==
  ended # "no" =>
    IsPrefix(IF ended = "power" /\ ~flushOnCommit
               THEN SubSeq(got, 1, IF synced < Len(got) THEN synced ELSE Len(got))
               ELSE got, stored)

(***************************************************************************)
(* Between calls the counters agree with the log, the queue and each       *)
(* other; while calls run, each is behind by at most the call in progress. *)
(***************************************************************************)
CountersAgree ==
  ended = "no" =>
    /\ counters["wal_records_written"] = Len(acked)
    /\ counters["consumed"] = Len(got) - (IF cpc = "count" THEN 1 ELSE 0)
    /\ ppc = "idle" => counters["published"] = counters["wal_records_written"]
    /\ ppc = "idle" /\ cpc = "idle" =>
         counters["published"] - counters["consumed"] = Len(queue)

(***************************************************************************)
(* A second open() strands the broker for good: no later call makes it     *)
(* valid again, publishes, consumes or flushes, and the values still in    *)
(* the queue reach no consumer.  They are not lost: the end of the process *)
(* leaves a log that starts with everything acknowledged, or, after a      *)
(* power loss, everything a flush had covered.                             *)
(***************************************************************************)
StrandedButLogged ==
  [][openStatus = "already_open" =>
       /\ openStatus' = "already_open"
       /\ UNCHANGED <<acked, got, synced>>
       /\ ended' = "no" => UNCHANGED <<queue, stored>>
       /\ ended' # "no" =>
            IsPrefix(SubSeq(acked, 1, IF ended' = "power" THEN synced ELSE Len(acked)), stored')]_vars

-----------------------------------------------------------------------------
(***************************************************************************)
(* The inductive invariant: what each step of try_publish may rely on.     *)
(***************************************************************************)
\* The log is what went through the queue, plus the value about to be pushed;
\* the place full() saw free stays free; a failed append leaves at most one
\* record behind; with flush_on_commit everything acknowledged is flushed.
LogInv ==
  ended = "no" =>
    /\ acked = IF ppc = "push" THEN Append(got \o queue, value) ELSE got \o queue
    /\ ppc \in {"append", "copy", "flush", "push"} =>
         value \in Value /\ Len(queue) + hidden < Capacity
    /\ ppc = "flush" => stored = Append(acked, value)
    /\ stored = acked \/ \E r \in Value : stored = Append(acked, r)
    /\ ~up => acked = <<>>
    /\ flushOnCommit => synced = Len(acked)

\* Each counter against the log and the queue, at every step of a call.
CountersInv ==
  ended = "no" =>
    /\ counters["wal_records_written"] = Len(acked)
    /\ counters["published"] = Len(acked) - (IF ppc \in {"push", "count"} THEN 1 ELSE 0)
    /\ counters["consumed"] = Len(got) - (IF cpc = "count" THEN 1 ELSE 0)

\* Every variable has its type, and the above; no thread outlives the process.
IndInv ==
  /\ TypeOK
  /\ LogInv /\ CountersInv
  /\ AppendedIsPublished /\ ReplayCoversConsumed
  /\ ended # "no" => ppc = "idle" /\ cpc = "idle"

\* A broker opened twice is up until the process ends, with no call running.
StrandedInv ==
  openStatus = "already_open" /\ ended = "no" => up /\ ppc = "idle" /\ cpc = "idle"

=============================================================================
