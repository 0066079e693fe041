----------------------------- MODULE StressSpsc -----------------------------
(***************************************************************************)
(* The two threads of stress_spsc's run_stress, and of aether_bench's run, *)
(* which does not look at the values: each repeats its try_push or         *)
(* try_publish, try_pop or try_consume until all messages are through.     *)
(* The queue is the BoundedFifo SpscRingBuffer implements, with loads that *)
(* may be stale.  SpinWait and yield only delay a retry and are left to    *)
(* the scheduler.                                                          *)
(***************************************************************************)
EXTENDS BoundedFifo

CONSTANT messages      \* the --messages option

ASSUME MessagesAssumption ==
  Capacity \in Nat /\ messages \in Nat /\ Value = 0 .. messages - 1

VARIABLES program,        \* "stress_spsc" or "bench"
          ppc, value,     \* the producer: its step and its loop variable
          cpc, expected,  \* the consumer: its step and its loop variable
          consumed, failed

producerVars == <<ppc, value>>
consumerVars == <<cpc, expected, consumed>>
vars == <<program, fifoVars, producerVars, consumerVars, failed>>

Init ==
  /\ program \in {"stress_spsc", "bench"}
  /\ FifoInit
  /\ ppc = "loop" /\ value = 0
  /\ cpc = "loop" /\ expected = 0 /\ consumed = 0
  /\ failed = FALSE

(***************************************************************************)
(* The producer.  missed is how many freed places its acquire load misses. *)
(***************************************************************************)
\* The producer tests a copy of the counter that it never loads again.
TryPushCached(missed) ==
  /\ ppc = "loop" /\ value < messages /\ ~failed
  /\ missed = hidden
  /\ ProducerObserve /\ hidden' = missed
  /\ ppc' = IF Len(queue) + missed >= Capacity THEN "loop" ELSE "store"
  /\ UNCHANGED <<program, value, consumerVars, failed>>
TryPush(missed) ==
  /\ ppc = "loop" /\ value < messages /\ ~failed
  /\ ProducerObserve /\ hidden' = missed
  /\ ppc' = IF Len(queue) + missed >= Capacity THEN "loop" ELSE "store"
  /\ UNCHANGED <<program, value, consumerVars, failed>>

StoreValue ==
  /\ ppc = "store"
  /\ Push(value)
  /\ value' = value + 1
  /\ ppc' = "loop"
  /\ UNCHANGED <<program, consumerVars, failed>>

ProducerExits ==
  /\ ppc = "loop" /\ (value = messages \/ failed)
  /\ ppc' = "joined"
  /\ UNCHANGED <<program, fifoVars, value, consumerVars, failed>>

(***************************************************************************)
(* The consumer.  missed is how many stored values its load misses.        *)
(***************************************************************************)
TryPop(missed) ==
  /\ cpc = "loop" /\ expected < messages /\ ~failed
  /\ ConsumerObserve /\ pending' = missed
  /\ cpc' = IF missed = Len(queue) THEN "loop" ELSE "move"
  /\ UNCHANGED <<program, expected, consumed, producerVars, failed>>

MoveValue ==
  /\ cpc = "move"
  /\ Pop
  /\ cpc' = "compare"
  /\ UNCHANGED <<program, expected, consumed, producerVars, failed>>

CompareValue ==
  /\ cpc = "compare"
  /\ IF program = "stress_spsc" /\ out # expected
     THEN failed' = TRUE /\ cpc' = "joined" /\ UNCHANGED <<expected, consumed>>
     ELSE /\ expected' = expected + 1 /\ consumed' = expected'
          /\ cpc' = "loop" /\ UNCHANGED failed
  /\ UNCHANGED <<program, fifoVars, producerVars>>

\* The loop ends before the last value.
ConsumerExitsEarly ==
  /\ cpc = "loop" /\ (expected + 1 >= messages \/ failed)
  /\ cpc' = "joined"
  /\ UNCHANGED <<program, fifoVars, expected, consumed, producerVars, failed>>
ConsumerExits ==
  /\ cpc = "loop" /\ (expected = messages \/ failed)
  /\ cpc' = "joined"
  /\ UNCHANGED <<program, fifoVars, expected, consumed, producerVars, failed>>

Joined == ppc = "joined" /\ cpc = "joined" /\ UNCHANGED vars

ProducerStep == StoreValue \/ ProducerExits
ConsumerStep == MoveValue \/ CompareValue \/ ConsumerExits

Next ==
  \/ \E n \in 0 .. Capacity : TryPush(n) \/ TryPop(n)
  \/ ProducerStep \/ ConsumerStep \/ Joined

(***************************************************************************)
(* The scheduler runs both threads, and a thread that keeps loading a      *)
(* counter eventually reads its latest value.                              *)
(***************************************************************************)
Fairness ==
  /\ WF_vars(ProducerStep) /\ WF_vars(ConsumerStep)
  /\ WF_vars(TryPush(0) /\ ppc' = "store")
  /\ WF_vars(TryPop(0) /\ cpc' = "move")

Spec == Init /\ [][Next]_vars /\ Fairness

-----------------------------------------------------------------------------
(***************************************************************************)
(* Both loops end: neither thread is left retrying on a queue the other    *)
(* has stopped serving, however small the queue and however stale the      *)
(* loads in between.                                                       *)
(***************************************************************************)
Terminates == <>(ppc = "joined" /\ cpc = "joined")

(***************************************************************************)
(* The verdict of stress_spsc after the joins is "passed": every value     *)
(* arrived in order, and the queue is empty.  aether_bench too has moved   *)
(* every message when it takes the time.                                   *)
(***************************************************************************)
Passed ==
  /\ ~failed
  /\ ppc = "joined" /\ cpc = "joined" => consumed = messages /\ queue = <<>>

-----------------------------------------------------------------------------
\* How many values the consumer has taken out of the queue.
Taken == expected + (IF cpc = "compare" THEN 1 ELSE 0)

\* The inductive invariant: the queue holds the consecutive values from the next
\* one to take to the last one stored, a thread that passed its test finds what
\* it saw, and neither leaves its loop before the last value.
StressInv ==
  /\ FifoTypeOK
  /\ program \in {"stress_spsc", "bench"} /\ failed = FALSE
  /\ ppc \in {"loop", "store", "joined"} /\ cpc \in {"loop", "move", "compare", "joined"}
  /\ value \in 0 .. messages /\ expected \in 0 .. messages /\ consumed = expected
  /\ Len(queue) = value - Taken
  /\ \A i \in 1 .. Len(queue) : queue[i] = Taken + i - 1
  /\ ppc = "store" => value < messages /\ Len(queue) + hidden < Capacity
  /\ cpc \in {"move", "compare"} => expected < messages
  /\ cpc = "move" => pending < Len(queue)
  /\ cpc = "compare" => out = expected
  /\ ppc = "joined" => value = messages
  /\ cpc = "joined" => expected = messages

=============================================================================
