------------------------------ MODULE CliArgs ------------------------------
(***************************************************************************)
(* The command lines of the six programs: the five parse_*_args walk the   *)
(* arguments with an ArgCursor and fill an options struct; parse_args of   *)
(* stress_spsc has a loop of its own.                                      *)
(*                                                                         *)
(* An argument is an option, with or without "=text", or a bare text.      *)
(* Texts are told apart only by what the parser asks of them: empty,       *)
(* starting with '-', a number, a number in the list of supported ones.    *)
(***************************************************************************)
EXTENDS Naturals, Sequences, FiniteSets

CONSTANTS Program,   \* the programs whose command lines are parsed
          MaxArgs    \* bound on the number of arguments

VARIABLES program, args,  \* the call
          index,          \* i of the parser's loop
          options,        \* per option: the text stored, "on", or "default"
          status          \* "parsing", "ok" or "invalid_argument"

Dash == {"-1"}
Number == {"0", "2", "3"}
Supported == {"2"}
Text == {"", "x"} \cup Dash \cup Number

(***************************************************************************)
(* The options of each program and the conversion of each value.           *)
(***************************************************************************)
parse_bench_args ==
  [help |-> "flag", messages |-> "u64", payload_size |-> "supported",
   capacity |-> "supported", output_dir |-> "path"]
parse_pub_args ==
  [help |-> "flag", flush_on_commit |-> "flag", wal |-> "path", messages |-> "u64",
   wal_size |-> "u64"]
parse_sub_args ==
  [help |-> "flag", wal |-> "path", messages |-> "u64", limit |-> "u64",
   capacity |-> "supported"]
parse_replay_args ==
  [help |-> "flag", wal |-> "path", limit |-> "u64", payload_preview_bytes |-> "u64"]
parse_inspect_wal_args ==
  [help |-> "flag", verbose |-> "flag", wal |-> "path", limit |-> "u64"]
\* stress_spsc: no "=", no zero, and any number is a capacity for its parser.
parse_args ==
  [help |-> "flag", messages |-> "positive", capacity |-> "u64"]

Table(p) ==
  CASE p = "bench" -> parse_bench_args
    [] p = "pub" -> parse_pub_args
    [] p = "sub" -> parse_sub_args
    [] p = "replay" -> parse_replay_args
    [] p = "inspect_wal" -> parse_inspect_wal_args
    [] p = "stress_spsc" -> parse_args

\* "bare" names a text that is no option, "unknown" an option of no table.
Names(p) == DOMAIN Table(p) \cup {"unknown"}
Arguments(p) ==
       [name : {"bare"}, eq : {FALSE}, text : Text]
  \cup [name : Names(p), eq : {FALSE}, text : {""}]
  \cup [name : Names(p), eq : {TRUE}, text : Text]

IsFlag(p, a) == a.name \in DOMAIN Table(p) /\ Table(p)[a.name] = "flag"
TakesValue(p, a) ==
  /\ a.name \in DOMAIN Table(p) /\ Table(p)[a.name] # "flag"
  /\ p = "stress_spsc" => ~a.eq

\* parse_u64, parse_size and is_supported: whether the conversion succeeds.
Converts(kind, text) ==
  CASE kind = "path" -> TRUE
    [] kind = "u64" -> text \in Number
    [] kind = "positive" -> text \in Number \ {"0"}
    [] kind = "supported" -> text \in Supported

Init ==
  /\ program \in Program
  /\ args \in UNION {[1 .. n -> Arguments(program)] : n \in 0 .. MaxArgs}
  /\ index = 1
  /\ options = [o \in DOMAIN Table(program) |-> "default"]
  /\ status = "parsing"

-----------------------------------------------------------------------------
(***************************************************************************)
(* ArgCursor::value: the text after '=', else the next argument unless it  *)
(* looks like an option.  NoText when the value is missing.                *)
(***************************************************************************)
NoText == "missing"

NextIsText(k) == k + 1 <= Len(args) /\ args[k + 1].name = "bare"

valueAnyText(k) ==
  LET text == IF args[k].eq \/ ~NextIsText(k) THEN args[k].text ELSE args[k + 1].text
  IN  IF text = "" THEN NoText ELSE text
value(k) ==
  LET text == IF args[k].eq \/ ~NextIsText(k) THEN args[k].text ELSE args[k + 1].text
  IN  IF text = "" \/ (text \in Dash /\ ~args[k].eq) THEN NoText ELSE text

\* The index after the option at k and its value.
After(k) == IF args[k].eq THEN k + 1 ELSE k + 2

AtArgument == status = "parsing" /\ index <= Len(args)

\* The --help of stress_spsc ends the parse.
Flag ==
  /\ AtArgument
  /\ IsFlag(program, args[index]) /\ ~args[index].eq
  /\ options' = [options EXCEPT ![args[index].name] = "on"]
  /\ index' = index + 1
  /\ status' = IF program = "stress_spsc" THEN "ok" ELSE status
  /\ UNCHANGED <<program, args>>

Accepts(k) ==
  LET o == args[k].name
  IN  /\ TakesValue(program, args[k])
      /\ value(k) # NoText
      /\ Converts(Table(program)[o], value(k))

Store(o, text) == options' = [options EXCEPT ![o] = text]

Option ==
  /\ AtArgument
  /\ Accepts(index)
  /\ Store(args[index].name, value(index))
  /\ index' = After(index)
  /\ UNCHANGED <<program, args, status>>

\* A missing or inconvertible value, or "unknown option": a flag with '=' is one.
Invalid ==
  /\ AtArgument
  /\ ~(IsFlag(program, args[index]) /\ ~args[index].eq)
  /\ ~Accepts(index)
  /\ status' = "invalid_argument"
  /\ UNCHANGED <<program, args, index, options>>

Return ==
  /\ status = "parsing" /\ index > Len(args)
  /\ status' = "ok"
  /\ UNCHANGED <<program, args, index, options>>

Step == Flag \/ Option \/ Invalid \/ Return

-----------------------------------------------------------------------------
(***************************************************************************)
(* A command line, read without a cursor: where each argument may stand.   *)
(***************************************************************************)
Opens(k) == k \in DOMAIN args /\ TakesValue(program, args[k]) /\ ~args[k].eq

\* The arguments read: stress_spsc stops at --help.
Read ==
  {k \in DOMAIN args : program = "stress_spsc" =>
     \A j \in 1 .. k - 1 : ~(IsFlag(program, args[j]) /\ ~args[j].eq)}

WellPlaced(k) ==
  CASE args[k].name = "bare" ->
         Opens(k - 1) /\ args[k].text \notin Dash \cup {""}
         /\ Converts(Table(program)[args[k - 1].name], args[k].text)
    [] IsFlag(program, args[k]) -> ~args[k].eq
    [] TakesValue(program, args[k]) /\ args[k].eq ->
         args[k].text # "" /\ Converts(Table(program)[args[k].name], args[k].text)
    [] Opens(k) -> NextIsText(k)
    [] OTHER -> FALSE

(***************************************************************************)
(* The parser accepts exactly the command lines in which every argument it *)
(* reads is well placed: it never takes an option for the value of the one *)
(* before it, never skips an argument and never reads one twice.           *)
(***************************************************************************)
AcceptsExactly ==
  status # "parsing" => ((status = "ok") <=> \A k \in Read : WellPlaced(k))

\* The places where option o is given, and its text at one of them.
Given(o) == {k \in Read : args[k].name = o}
TextAt(k) ==
  CASE IsFlag(program, args[k]) -> "on"
    [] args[k].eq -> args[k].text
    [] OTHER -> args[k + 1].text

\* Option o has its value from the last of some places, else its default.
HasLast(o, places) ==
  IF places = {} THEN options[o] = "default"
  ELSE \E k \in places : (\A j \in places : j <= k) /\ options[o] = TextAt(k)

(***************************************************************************)
(* An accepted command line gives every option the value of its last       *)
(* occurrence, and its default if there is none.                           *)
(***************************************************************************)
LastValueWins == status = "ok" => \A o \in DOMAIN options : HasLast(o, Given(o))

-----------------------------------------------------------------------------
\* The parts of the inductive invariant.  The command line and what is stored, ...
Stored(o) ==
  \/ options[o] = "default"
  \/ Table(program)[o] = "flag" /\ options[o] = "on"
  \/ Table(program)[o] # "flag" /\ Converts(Table(program)[o], options[o])

ParserTypes ==
  /\ program \in Program
  /\ args \in Seq(Arguments(program)) /\ index \in 1 .. Len(args) + 1
  /\ DOMAIN options = DOMAIN Table(program) /\ \A o \in DOMAIN options : Stored(o)
  /\ status \in {"parsing", "ok", "invalid_argument"}

\* ... and the arguments before the cursor: all are read and well placed, none
\* waits for its value, and the last of each option is stored.
Before == 1 .. index - 1
BeforeCursor ==
  /\ Before \subseteq Read /\ (index <= Len(args) => index \in Read)
  /\ \A k \in Before : WellPlaced(k)
  /\ ~Opens(index - 1)
  /\ \A o \in DOMAIN options : HasLast(o, {k \in Before : args[k].name = o})

ParserInv ==
  /\ ParserTypes
  /\ status = "parsing" => BeforeCursor
  /\ AcceptsExactly /\ LastValueWins

=============================================================================
