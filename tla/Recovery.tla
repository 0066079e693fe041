------------------------------ MODULE Recovery ------------------------------
(***************************************************************************)
(* Reading a log back: PersistentBroker::replay_with_metrics with a        *)
(* visitor, and the scan loop that aether_replay and aether_inspect_wal    *)
(* share.                                                                  *)
(*                                                                         *)
(* The log is what WalReader::next() returns for it one call after         *)
(* another: records, told apart by whether their payload has the size of   *)
(* T, then "empty" or "corrupted" (see Wal).  A writer may append to a     *)
(* sound log while it is read.                                             *)
(***************************************************************************)
EXTENDS Naturals, Sequences

CONSTANT MaxRecords   \* bound on the length of the log

Kind == {"fits", "wrong_size"}

VARIABLES log, ending,            \* the records, what next() returns after them
          tool, limit,            \* "typed" replay or "scan", its --limit (0 is none)
          pc, position,           \* the step ("idle" before the call), records read
          recovered, failures,    \* recovered_records, recovery_failures
          failureRecorded,        \* failure_recorded
          status,                 \* what the replay or the scan ends with
          visited                 \* history: the records given to the visitor

readerVars == <<pc, position, recovered, failures, failureRecorded, status, visited>>
vars == <<log, ending, tool, limit, readerVars>>

Logs == UNION {[1 .. n -> Kind] : n \in 0 .. MaxRecords}

Init ==
  /\ log = <<>> /\ ending = "empty"
  /\ tool = "typed" /\ limit = 0
  /\ pc = "idle" /\ position = 0
  /\ recovered = 0 /\ failures = 0 /\ failureRecorded = FALSE
  /\ status = "running" /\ visited = <<>>

\* Tool t starts on a file that holds the records lg, followed by e.
Call(t, l, lg, e) ==
  /\ pc = "idle"
  /\ pc' = "open"
  /\ tool' = t /\ limit' = l /\ log' = lg /\ ending' = e
  /\ UNCHANGED <<position, recovered, failures, failureRecorded, status, visited>>

\* A writer in another process adds a record, while somebody reads them.
WriterAppends(k) ==
  /\ pc \in {"open", "next", "visit"} /\ ending = "empty" /\ Len(log) < MaxRecords
  /\ log' = Append(log, k)
  /\ UNCHANGED <<ending, tool, limit, readerVars>>

End(s) == pc' = "done" /\ status' = s

\* Only the typed replay counts a log it cannot open.
OpenFails ==
  /\ pc = "open"
  /\ failures' = IF tool = "typed" THEN failures + 1 ELSE failures
  /\ End("open_error")
  /\ UNCHANGED <<log, ending, tool, limit, position, recovered, failureRecorded, visited>>

OpenOk ==
  /\ pc = "open"
  /\ pc' = "next"
  /\ UNCHANGED <<log, ending, tool, limit, position, recovered, failures, failureRecorded,
                 status, visited>>

NextRecord ==
  /\ pc = "next" /\ tool = "typed" /\ position < Len(log)
  /\ position' = position + 1
  /\ pc' = "visit"
  /\ UNCHANGED <<log, ending, tool, limit, recovered, failures, failureRecorded, status,
                 visited>>

\* WalReader::replay returns s to replay_with_metrics.
ReplayReturns(s) == pc' = "returned" /\ status' = s

ReplayEnds ==
  /\ pc = "next" /\ tool = "typed" /\ position = Len(log)
  /\ ReplayReturns(IF ending = "empty" THEN "ok" ELSE "corrupted")
  /\ UNCHANGED <<log, ending, tool, limit, position, recovered, failures, failureRecorded,
                 visited>>

\* A failure is counted here, unless the lambda has counted it.
ReplayChecked ==
  /\ pc = "returned"
  /\ failures' = IF status # "ok" /\ ~failureRecorded THEN failures + 1 ELSE failures
  /\ End(status)
  /\ UNCHANGED <<log, ending, tool, limit, position, recovered, failureRecorded, visited>>

(***************************************************************************)
(* The scan loop: it has no visitor, counts the record and goes on.        *)
(***************************************************************************)
WithinLimitPlusOne == limit = 0 \/ recovered <= limit
WithinLimit == limit = 0 \/ recovered < limit

ScanRecord ==
  /\ pc = "next" /\ tool = "scan" /\ WithinLimit /\ position < Len(log)
  /\ position' = position + 1
  /\ recovered' = recovered + 1
  /\ visited' = Append(visited, log[position + 1])
  /\ UNCHANGED <<log, ending, tool, limit, pc, failures, failureRecorded, status>>

ScanEnds ==
  /\ pc = "next" /\ tool = "scan" /\ WithinLimit /\ position = Len(log)
  /\ IF ending = "empty" THEN End("ok") ELSE End("corrupted")
  /\ failures' = IF ending = "corrupted" THEN failures + 1 ELSE failures
  /\ UNCHANGED <<log, ending, tool, limit, position, recovered, failureRecorded, visited>>

LimitReached ==
  /\ pc = "next" /\ tool = "scan" /\ ~WithinLimit
  /\ End("ok")
  /\ UNCHANGED <<log, ending, tool, limit, position, recovered, failures, failureRecorded,
                 visited>>

(***************************************************************************)
(* The lambda of replay_with_metrics on the record next() just returned.   *)
(***************************************************************************)
VisitedNow == log[position]

\* The lambda counts its failure but does not leave a note of it.
LambdaFailsUnnoted(s) ==
  /\ failures' = failures + 1
  /\ UNCHANGED failureRecorded
  /\ ReplayReturns(s)
LambdaFails(s) ==
  /\ failures' = failures + 1
  /\ failureRecorded' = TRUE
  /\ ReplayReturns(s)

WrongSize ==
  /\ pc = "visit" /\ VisitedNow = "wrong_size"
  /\ LambdaFails("wrong_size")
  /\ UNCHANGED <<log, ending, tool, limit, position, recovered, visited>>

\* A record of another type is handed to the visitor.
VisitUnchecked ==
  /\ pc = "visit"
  /\ visited' = Append(visited, VisitedNow)
  /\ recovered' = recovered + 1
  /\ pc' = "next"
  /\ UNCHANGED <<log, ending, tool, limit, position, failures, failureRecorded, status>>
VisitOk ==
  /\ pc = "visit" /\ VisitedNow = "fits"
  /\ visited' = Append(visited, VisitedNow)
  /\ recovered' = recovered + 1
  /\ pc' = "next"
  /\ UNCHANGED <<log, ending, tool, limit, position, failures, failureRecorded, status>>

VisitorFails ==
  /\ pc = "visit" /\ VisitedNow = "fits"
  /\ visited' = Append(visited, VisitedNow)
  /\ LambdaFails("visitor")
  /\ UNCHANGED <<log, ending, tool, limit, position, recovered>>

\* An exception of the visitor leaves replay_with_metrics uncounted.
VisitorThrows ==
  /\ pc = "visit" /\ VisitedNow = "fits"
  /\ visited' = Append(visited, VisitedNow)
  /\ End("exception")
  /\ UNCHANGED <<log, ending, tool, limit, position, recovered, failures, failureRecorded>>

Step ==
  \/ \E k \in Kind : WriterAppends(k)
  \/ OpenFails \/ OpenOk
  \/ NextRecord \/ ReplayEnds \/ ReplayChecked
  \/ ScanRecord \/ ScanEnds \/ LimitReached
  \/ WrongSize \/ VisitOk

-----------------------------------------------------------------------------
(***************************************************************************)
(* A replay that returns has counted exactly one recovery failure if its   *)
(* status is an error and none if it is ok, whichever of the three places  *)
(* that count found it: the open, the lambda on a record, or the test      *)
(* after WalReader::replay, which must know what the lambda did            *)
(* (failure_recorded; docs/metrics.md).                                    *)
(***************************************************************************)
FailureCountedOnce ==
  tool = "typed" /\ pc = "done" /\ status # "exception" =>
    failures = IF status = "ok" THEN 0 ELSE 1

(***************************************************************************)
(* The visitor sees a prefix of the log, in order, only records of its     *)
(* type, and recovered_records counts those it accepted.                   *)
(***************************************************************************)
VisitsPrefix ==
  /\ \E n \in 0 .. Len(log) : visited = SubSeq(log, 1, n)
  /\ tool = "typed" => \A i \in DOMAIN visited : visited[i] = "fits"
  /\ recovered = Len(visited) - (IF status \in {"visitor", "exception"} THEN 1 ELSE 0)

(***************************************************************************)
(* An ok status leaves nothing out: the whole log the last next() saw was  *)
(* visited, or the limit was reached.                                      *)
(***************************************************************************)
OkIsComplete ==
  [][status # "ok" /\ status' = "ok" =>
       visited = log \/ (limit # 0 /\ recovered = limit)]_vars

\* What has to hold of the file for the tool to succeed, when neither opening
\* it nor the visitor fails: a scan with a limit need not reach the end.
Readable ==
  /\ ending = "empty" \/ (tool = "scan" /\ limit # 0 /\ limit <= Len(log))
  /\ tool = "typed" => \A k \in DOMAIN log : log[k] = "fits"

-----------------------------------------------------------------------------
\* The parts of the inductive invariant.  What the variables range over, ...
ReaderTypes ==
  /\ log \in Seq(Kind) /\ ending \in {"empty", "corrupted"}
  /\ tool \in {"typed", "scan"} /\ limit \in Nat
  /\ pc \in {"idle", "open", "next", "visit", "returned", "done"} /\ position \in 0 .. Len(log)
  /\ recovered \in Nat /\ failures \in Nat /\ failureRecorded \in BOOLEAN
  /\ visited \in Seq(Kind)

\* ... how far the visitor is, ...
Progress ==
  /\ Len(visited) <= Len(log) /\ \A k \in 1 .. Len(visited) : visited[k] = log[k]
  /\ tool = "typed" => \A k \in 1 .. Len(visited) : visited[k] = "fits"
  /\ pc \in {"idle", "open"} => position = 0
  /\ pc \in {"idle", "open", "next"} => Len(visited) = position
  /\ pc = "visit" => tool = "typed" /\ position = Len(visited) + 1
  /\ pc \notin {"returned", "done"} =>
       status = "running" /\ failures = 0 /\ ~failureRecorded /\ recovered = Len(visited)
  /\ tool = "scan" /\ limit # 0 => recovered <= limit

\* ... and what a status says of the log.
Verdict ==
  pc \in {"returned", "done"} =>
    /\ status \in {"ok", "open_error", "corrupted", "wrong_size", "visitor", "exception"}
    /\ recovered = Len(visited) - (IF status \in {"visitor", "exception"} THEN 1 ELSE 0)
    /\ pc = "returned" =>
         /\ tool = "typed" /\ status # "exception"
         /\ failures = (IF failureRecorded THEN 1 ELSE 0) /\ (failureRecorded => status # "ok")
    /\ pc = "done" /\ tool = "typed" /\ status # "exception" =>
         failures = IF status = "ok" THEN 0 ELSE 1
    /\ status = "ok" => visited = log \/ (tool = "scan" /\ limit # 0 /\ recovered = limit)
    /\ status \in {"ok", "corrupted", "wrong_size"} => ((status = "ok") <=> Readable)

ReaderInv == ReaderTypes /\ Progress /\ Verdict

=============================================================================
