------------------------------ MODULE Programs ------------------------------
(***************************************************************************)
(* The executables, from their command lines to their exit codes: each     *)
(* main parses (CliArgs), then runs a broker (DemoBroker), reads a log     *)
(* (Recovery), or runs two threads over a queue (StressSpsc, one step      *)
(* here).  "client" is a program that uses the library directly: the       *)
(* persistent_broker and wal_replay examples with any configuration, or a  *)
(* typed replay with any visitor.                                          *)
(***************************************************************************)
EXTENDS Naturals, Sequences

CONSTANTS Program, MaxArgs,                       \* of CliArgs
          Capacity, Header, Payload, MaxPayload,  \* of DemoBroker
          MaxRecords,                             \* of Recovery
          NumberOf,                               \* the value of each number text
          Default,                                \* per program: the defaults
          QueueCapacity, FileSize, MaxMessages    \* what a client may ask for

ASSUME ProgramsAssumption ==
  /\ Program \subseteq {"bench", "pub", "sub", "replay", "inspect_wal", "stress_spsc"}
  /\ MaxArgs \in Nat /\ MaxRecords \in Nat /\ MaxMessages \in Nat
  /\ QueueCapacity \subseteq Nat /\ FileSize \subseteq Nat

VARIABLES program, args, index, options, parse,
          role, config, messages, printLimit, step, i, writer, offset, consumed, printed,
          ioFailed, result,
          log, ending, tool, limit, pc, position, recovered, failures, failureRecorded,
          status, visited,
          stage,   \* "parse", "broker", "reader" or "exited"
          exit     \* the exit code

cliVars == <<program, args, index, options, parse>>
demoVars == <<role, config, messages, printLimit, step, i, writer, offset, consumed, printed,
              ioFailed, result>>
scanVars == <<log, ending, tool, limit, pc, position, recovered, failures, failureRecorded,
              status, visited>>
vars == <<cliVars, demoVars, scanVars, stage, exit>>

Cli == INSTANCE CliArgs WITH status <- parse
Demo == INSTANCE DemoBroker WITH limit <- printLimit
Scan == INSTANCE Recovery

\* A queue has a power of two of places (its static_assert), and the programs
\* publish an OrderEvent, which is smaller than max_payload_size.
ASSUME SizesAssumption ==
  /\ Capacity \in Nat \ {0} /\ Demo!is_power_of_two(Capacity)
  /\ Header \in Nat \ {0} /\ Payload \in Nat /\ MaxPayload \in Nat /\ Payload <= MaxPayload

\* The defaults are numbers, and a capacity the parser of aether_sub supports is
\* one that dispatch_local knows.
ASSUME NumbersAssumption ==
  /\ \A t \in Cli!Number : NumberOf[t] \in Nat
  /\ \A p \in Program : \A o \in DOMAIN Cli!Table(p) :
       Cli!Table(p)[o] \notin {"flag", "path"} => Default[p][o] \in Nat
  /\ \A t \in Cli!Supported : NumberOf[t] = Capacity
  /\ "sub" \in Program => Default["sub"]["capacity"] = Capacity

Aborted == 134  \* ended by an exception that nobody catches

ClientInit ==
  /\ program = "client" /\ args = <<>> /\ index = 1 /\ options = <<>> /\ parse = "ok"

Init ==
  /\ Cli!Init \/ ClientInit
  /\ Demo!Init
  /\ Scan!Init
  /\ stage = "parse" /\ exit = 0

-----------------------------------------------------------------------------
(***************************************************************************)
(* The command line.                                                       *)
(***************************************************************************)
Parse ==
  /\ stage = "parse" /\ parse = "parsing"
  /\ Cli!Step
  /\ UNCHANGED <<demoVars, scanVars, stage, exit>>

Exit(code) == stage' = "exited" /\ exit' = code

ParseError ==
  /\ stage = "parse" /\ parse = "invalid_argument"
  /\ Exit(IF program = "stress_spsc" THEN 1 ELSE 2)
  /\ UNCHANGED <<cliVars, demoVars, scanVars>>

HelpAsked == program # "client" /\ options["help"] = "on"

Help ==
  /\ stage = "parse" /\ parse = "ok" /\ HelpAsked
  /\ Exit(0)
  /\ UNCHANGED <<cliVars, demoVars, scanVars>>

(***************************************************************************)
(* The main program takes its options, and does not look at argv again.    *)
(***************************************************************************)
Main(p) ==
  /\ stage = "parse" /\ parse = "ok" /\ ~HelpAsked /\ program = p
  /\ args' = <<>> /\ index' = 1
  /\ UNCHANGED <<program, options, parse>>

OptionValue(o) ==
  IF options[o] = "default" THEN Default[program][o] ELSE NumberOf[options[o]]

Broker(r, c, m, l) ==
  /\ Demo!Start(r, c, m, l)
  /\ stage' = "broker"
  /\ UNCHANGED <<scanVars, exit>>

PubMain ==
  /\ Main("pub")
  /\ Broker("pub",
            Demo!BrokerConfigOf(OptionValue("wal_size"), options["flush_on_commit"] = "on"),
            OptionValue("messages"), 0)

\* wal_path.empty(); dispatch_local knows the capacities the parser accepts.
SubLocal ==
  /\ Main("sub") /\ options["wal"] = "default"
  /\ IF OptionValue("capacity") = Capacity
     THEN Broker("sub", config, OptionValue("messages"), OptionValue("limit"))
     ELSE Exit(2) /\ UNCHANGED <<demoVars, scanVars>>

Reader(t, l) ==
  /\ \E lg \in Scan!Logs, e \in {"empty", "corrupted"} : Scan!Call(t, l, lg, e)
  /\ stage' = "reader"
  /\ UNCHANGED <<demoVars, exit>>

\* The visitor prints the first --limit records and accepts them all.
SubReplay == Main("sub") /\ options["wal"] # "default" /\ Reader("typed", 0)
ReplayMain == Main("replay") /\ Reader("scan", OptionValue("limit"))
InspectMain == Main("inspect_wal") /\ Reader("scan", OptionValue("limit"))

\* dispatch and run, which end (StressSpsc); then create_directories, which
\* throws if it fails.  A result file that cannot be written is not reported.
BenchMain ==
  /\ Main("bench")
  /\ Exit(0) \/ Exit(Aborted)
  /\ UNCHANGED <<demoVars, scanVars>>

\* run_stress ends and passes (StressSpsc); another capacity is refused.
StressMain ==
  /\ Main("stress_spsc")
  /\ Exit(IF OptionValue("capacity") = Capacity THEN 0 ELSE 1)
  /\ UNCHANGED <<demoVars, scanVars>>

BrokerConfig ==
  [capacity : QueueCapacity, path : {"", "file"}, file_size_bytes : FileSize,
   enable_wal : BOOLEAN, flush_on_commit : BOOLEAN]

ClientBroker ==
  /\ Main("client")
  /\ \E r \in {"client", "writer"}, c \in BrokerConfig, m \in 0 .. MaxMessages :
       Broker(r, c, m, 0)

ClientReplay == Main("client") /\ Reader("typed", 0)

-----------------------------------------------------------------------------
(***************************************************************************)
(* The broker and the reader at work.                                      *)
(***************************************************************************)
BrokerStep ==
  /\ stage = "broker"
  /\ Demo!Step
  /\ UNCHANGED <<cliVars, scanVars, stage, exit>>

BrokerExits ==
  /\ stage = "broker" /\ step = "done"
  /\ program = "client" => result # "ok"
  /\ Exit(CASE result = "ok" -> 0 [] result = "error" -> 1 [] result = "exception" -> Aborted)
  /\ UNCHANGED <<cliVars, demoVars, scanVars>>

\* The examples replay the log they have written; wal_replay has a visitor
\* for records of all sizes, so that its replay is a scan.
ClientReplaysOwnLog ==
  /\ stage = "broker" /\ step = "done" /\ program = "client" /\ result = "ok"
  /\ Scan!Call(IF role = "writer" THEN "scan" ELSE "typed", 0,
               [k \in 1 .. offset \div (Header + Payload) |-> "fits"], "empty")
  /\ stage' = "reader"
  /\ UNCHANGED <<cliVars, demoVars, exit>>

ReaderStep ==
  /\ stage = "reader"
  /\ Scan!Step
  /\ UNCHANGED <<cliVars, demoVars, stage, exit>>

ClientVisitor ==
  /\ stage = "reader" /\ program = "client"
  /\ Scan!VisitorFails \/ Scan!VisitorThrows
  /\ UNCHANGED <<cliVars, demoVars, stage, exit>>

\* The persistent_broker example removes its file, and remove may throw.
ReaderExits ==
  /\ stage = "reader" /\ pc = "done"
  /\ \/ Exit(CASE status = "ok" -> 0 [] status = "exception" -> Aborted [] OTHER -> 1)
     \/ role = "client" /\ Exit(Aborted)
  /\ UNCHANGED <<cliVars, demoVars, scanVars>>

Exited == stage = "exited" /\ UNCHANGED vars

Next ==
  \/ Parse \/ ParseError \/ Help
  \/ PubMain \/ SubLocal \/ SubReplay \/ ReplayMain \/ InspectMain \/ BenchMain \/ StressMain
  \/ ClientBroker \/ ClientReplay
  \/ BrokerStep \/ BrokerExits \/ ClientReplaysOwnLog
  \/ ReaderStep \/ ClientVisitor \/ ReaderExits
  \/ Exited

Spec == Init /\ [][Next]_vars

-----------------------------------------------------------------------------
(***************************************************************************)
(* A command line is accepted exactly when every argument of it is well    *)
(* placed, and an accepted one gives each option its last value            *)
(* (ArgCursor::value moves the index of the parser that calls it).         *)
(***************************************************************************)
ParsesExactly ==
  stage = "parse" /\ program # "client" => Cli!AcceptsExactly /\ Cli!LastValueWins

(***************************************************************************)
(* The three properties of Recovery, of whichever program reads the log.   *)
(***************************************************************************)
\* A failed replay counts one recovery failure, a successful one none.
FailureCountedOnce == Scan!FailureCountedOnce
\* The visitor sees a prefix of the log, and recovered_records counts it.
VisitsPrefix == Scan!VisitsPrefix
\* An ok status leaves nothing out but what is beyond the limit.
OkIsComplete == Scan!OkIsComplete

\* Whether the broker, then the reader, could do what it was asked.
BrokerSucceeds == step = "idle" \/ (Demo!Feasible /\ ~ioFailed)
ReaderSucceeds ==
  pc = "idle" \/ (Scan!Readable /\ status \notin {"open_error", "visitor", "exception"})
CapacitySupported ==
  program = "stress_spsc" /\ parse = "ok" /\ ~HelpAsked => OptionValue("capacity") = Capacity

(***************************************************************************)
(* The exit code tells the whole story: it is 0 exactly when the command   *)
(* line was accepted, the options or the configuration were feasible (room *)
(* for the records in the file, for the messages in the queue), the log    *)
(* was readable, and neither the system nor a visitor refused anything;    *)
(* and then all the work was done.  Exit code 2 is a bad command line.     *)
(***************************************************************************)
ExitCode ==
  stage = "exited" =>
    /\ (exit = 2) <=> (parse = "invalid_argument" /\ program # "stress_spsc")
    /\ exit # Aborted =>
         ((exit = 0) <=> (parse = "ok" /\ CapacitySupported /\ BrokerSucceeds /\ ReaderSucceeds))
    /\ exit = 0 /\ step # "idle" => Demo!Complete
    /\ exit = 0 /\ step # "idle" /\ pc # "idle" => Len(visited) >= messages

-----------------------------------------------------------------------------
\* The command line of a program, or none; Main forgets it.
CliInv ==
  \/ program = "client" /\ parse = "ok"
  \/ /\ Cli!ParserTypes
     /\ stage = "parse" => Cli!ParserInv
     /\ stage # "parse" => parse # "parsing"

\* Which part is at work, and what is known when it hands over.
StageInv ==
  /\ stage \in {"parse", "broker", "reader", "exited"}
  /\ stage = "parse" => step = "idle" /\ pc = "idle" /\ config = Demo!NoConfig
  /\ stage \in {"broker", "reader"} => parse = "ok" /\ CapacitySupported
  /\ stage = "broker" =>
       step # "idle" /\ pc = "idle" /\ (program = "client" => role \in {"client", "writer"})
  /\ stage = "reader" => pc # "idle" /\ (step = "idle" \/ (step = "done" /\ result = "ok"))
  /\ step # "idle" /\ pc # "idle" => limit = 0 /\ messages <= Len(log)

ProgramsInv == Scan!ReaderInv /\ Demo!BrokerInv /\ CliInv /\ StageInv /\ ExitCode

=============================================================================
