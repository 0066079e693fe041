----------------------------- MODULE DemoBroker -----------------------------
(***************************************************************************)
(* One thread that uses one broker from its configuration to its end:      *)
(*                                                                         *)
(*  "pub"     aether_pub: opens a PersistentBroker with a WalConfig,       *)
(*            publishes the messages and flushes;                          *)
(*  "sub"     aether_sub without --wal: publishes all messages into an     *)
(*            in-memory Broker, then consumes them all;                    *)
(*  "client"  the persistent_broker example, with any BrokerConfig and any *)
(*            number of messages: opens, publishes, consumes, flushes;     *)
(*  "writer"  the wal_replay example, with a file of any size: creates a   *)
(*            WalWriter, appends the messages and flushes.                 *)
(*                                                                         *)
(* No one else uses the queue, so a call is one step.  Sizes are in cells. *)
(***************************************************************************)
EXTENDS Naturals

CONSTANTS Capacity,       \* the broker's template argument
          Header,         \* wal_record_header_size
          Payload,        \* sizeof(T)
          MaxPayload      \* max_payload_size

VARIABLES role, config, messages, limit,  \* the call
          step,      \* "idle", "prepare", "open", "publish", "consume", "flush", "done"
          i,         \* messages published
          writer,    \* the WAL file is open
          offset,    \* current_offset_
          consumed, printed,
          ioFailed,  \* the file system refused something
          result     \* "running", "ok", "error" or "exception"

callVars == <<role, config, messages, limit>>
vars == <<callVars, step, i, writer, offset, consumed, printed, ioFailed, result>>

NoConfig ==
  [capacity |-> 0, path |-> "", file_size_bytes |-> 0, enable_wal |-> FALSE,
   flush_on_commit |-> FALSE]

Init ==
  /\ role = "sub" /\ config = NoConfig /\ messages = 0 /\ limit = 0
  /\ step = "idle" /\ i = 0 /\ writer = FALSE /\ offset = 0 /\ consumed = 0 /\ printed = 0
  /\ ioFailed = FALSE /\ result = "running"

\* What open(WalConfig) makes of its argument.
BrokerConfigOf(size, flush) ==
  [capacity |-> Capacity, path |-> "file", file_size_bytes |-> size, enable_wal |-> TRUE,
   flush_on_commit |-> flush]

Start(r, c, m, l) ==
  /\ step = "idle"
  /\ role' = r /\ config' = c /\ messages' = m /\ limit' = l
  /\ step' = IF r = "sub" THEN "publish" ELSE "prepare"
  /\ UNCHANGED <<i, writer, offset, consumed, printed, ioFailed, result>>

-----------------------------------------------------------------------------
(***************************************************************************)
(* Validation.                                                             *)
(***************************************************************************)
is_power_of_two(n) == \E k \in 0 .. n : n = 2 ^ k

QueueConfigValidate(c) == c.capacity # 0 /\ is_power_of_two(c.capacity)
WalConfigValidate(c) == c.path # "" /\ c.file_size_bytes # 0

validate_queue_config_for_capacity(c) == QueueConfigValidate(c) /\ c.capacity = Capacity

\* The header is forgotten.
validate_wal_config_headerless(c) ==
  WalConfigValidate(c) /\ Payload <= MaxPayload /\ c.file_size_bytes >= Payload
validate_wal_config_for_payload(c) ==
  WalConfigValidate(c) /\ Payload <= MaxPayload /\ c.file_size_bytes >= Header + Payload

\* WalWriter::create, before it touches the file system.
WriterCreates(c) == WalConfigValidate(c) /\ c.file_size_bytes >= Header

BrokerAccepts(c) ==
  /\ validate_queue_config_for_capacity(c)
  /\ c.enable_wal
  /\ validate_wal_config_for_payload(c)

OpenAccepts(c) == (role = "writer" \/ BrokerAccepts(c)) /\ WriterCreates(c)

(***************************************************************************)
(* The steps of the program.                                               *)
(***************************************************************************)
Return(r) == step' = "done" /\ result' = r

\* create_directories for the log, or remove of an old one in the example: an
\* error of either is an exception.
Prepare ==
  /\ step = "prepare"
  /\ \/ step' = "open" /\ UNCHANGED <<ioFailed, result>>
     \/ Return("exception") /\ ioFailed' = TRUE
  /\ UNCHANGED <<callVars, i, writer, offset, consumed, printed>>

Open ==
  /\ step = "open" /\ OpenAccepts(config)
  /\ step' = "publish" /\ writer' = TRUE
  /\ UNCHANGED <<callVars, i, offset, consumed, printed, ioFailed, result>>

OpenFails ==
  /\ step = "open"
  /\ \/ ~OpenAccepts(config) /\ UNCHANGED ioFailed
     \/ OpenAccepts(config) /\ ioFailed' = TRUE
  /\ Return("error")
  /\ UNCHANGED <<callVars, i, writer, offset, consumed, printed>>

remaining_space == config.file_size_bytes - offset
full == role # "writer" /\ i - consumed >= Capacity
RecordFits == ~writer \/ Header + Payload <= remaining_space

Publish ==
  /\ step = "publish" /\ i < messages
  /\ ~full /\ RecordFits
  /\ i' = i + 1
  /\ offset' = IF writer THEN offset + Header + Payload ELSE offset
  /\ UNCHANGED <<callVars, step, writer, consumed, printed, ioFailed, result>>

\* full, out_of_space, or an io_error of the flush in the append.
PublishFails ==
  /\ step = "publish" /\ i < messages
  /\ \/ (full \/ ~RecordFits) /\ UNCHANGED ioFailed
     \/ ~full /\ RecordFits /\ writer /\ config.flush_on_commit /\ ioFailed' = TRUE
  /\ Return("error")
  /\ UNCHANGED <<callVars, i, writer, offset, consumed, printed>>

Published ==
  /\ step = "publish" /\ i = messages
  /\ step' = IF role \in {"pub", "writer"} THEN "flush" ELSE "consume"
  /\ UNCHANGED <<callVars, i, writer, offset, consumed, printed, ioFailed, result>>

\* The queue holds i - consumed messages.
Consume ==
  /\ step = "consume" /\ consumed < messages
  /\ IF consumed < i
     THEN /\ consumed' = consumed + 1
          /\ printed' = IF role = "client" \/ consumed < limit THEN printed + 1 ELSE printed
          /\ UNCHANGED <<step, result>>
     ELSE Return("error") /\ UNCHANGED <<consumed, printed>>
  /\ UNCHANGED <<callVars, i, writer, offset, ioFailed>>

Consumed ==
  /\ step = "consume" /\ consumed = messages
  /\ IF role = "sub" THEN Return("ok") ELSE step' = "flush" /\ UNCHANGED result
  /\ UNCHANGED <<callVars, i, writer, offset, consumed, printed, ioFailed>>

Flush ==
  /\ step = "flush"
  /\ \/ Return("ok") /\ UNCHANGED ioFailed
     \/ Return("error") /\ ioFailed' = TRUE
  /\ UNCHANGED <<callVars, i, writer, offset, consumed, printed>>

Step ==
  \/ Prepare \/ Open \/ OpenFails \/ Publish \/ PublishFails \/ Published
  \/ Consume \/ Consumed \/ Flush

-----------------------------------------------------------------------------
Record == Header + Payload

\* What has to hold of the call for the program to do what it is asked: no
\* one consumes while it publishes, so the messages must fit the queue.
Feasible ==
  /\ role # "writer" => messages <= Capacity
  /\ role \in {"pub", "client"} =>
       config.capacity = Capacity /\ config.enable_wal /\ Record <= config.file_size_bytes
  /\ role # "sub" =>
       /\ config.path # "" /\ Header <= config.file_size_bytes
       /\ messages * Record <= config.file_size_bytes

\* The program did everything: one record per message in the file, every
\* message consumed, the first ones printed.
Complete ==
  /\ i = messages
  /\ offset = IF role = "sub" THEN 0 ELSE messages * Record
  /\ consumed = IF role \in {"pub", "writer"} THEN 0 ELSE messages
  /\ role = "sub" => printed = IF messages < limit THEN messages ELSE limit

-----------------------------------------------------------------------------
\* The parts of the inductive invariant.  The call, ...
BrokerCall ==
  /\ role \in {"pub", "sub", "client", "writer"} /\ messages \in Nat /\ limit \in Nat
  /\ config.capacity \in Nat /\ config.file_size_bytes \in Nat
  /\ role = "pub" => config.capacity = Capacity /\ config.path # "" /\ config.enable_wal

\* ... the program before it has a broker, ...
Starting ==
  /\ step \in {"idle", "prepare", "open"} =>
       i = 0 /\ offset = 0 /\ consumed = 0 /\ printed = 0 /\ ~writer /\ ~ioFailed
  /\ step \in {"prepare", "open"} => role # "sub"

\* ... with it, ...
Working ==
  step \in {"publish", "consume", "flush"} =>
    /\ i \in 0 .. messages /\ consumed \in 0 .. i /\ ~ioFailed
    /\ writer <=> role # "sub"
    /\ role # "sub" => OpenAccepts(config) /\ i * Record <= config.file_size_bytes
    /\ offset = IF role = "sub" THEN 0 ELSE i * Record
    /\ role # "writer" => i <= Capacity
    /\ role = "sub" => printed = IF consumed < limit THEN consumed ELSE limit
    /\ step = "publish" => consumed = 0
    /\ step # "publish" => i = messages
    /\ step = "consume" => role \in {"sub", "client"}
    /\ step = "flush" => role # "sub" /\ consumed = IF role = "client" THEN messages ELSE 0

\* ... and its verdict.
Judged ==
  step = "done" =>
    /\ result \in {"ok", "error", "exception"}
    /\ (result = "ok") <=> (Feasible /\ ~ioFailed)
    /\ result = "ok" => Complete

BrokerInv ==
  /\ step \in {"idle", "prepare", "open", "publish", "consume", "flush", "done"}
  /\ step # "idle" => BrokerCall
  /\ Starting /\ Working /\ Judged

=============================================================================
