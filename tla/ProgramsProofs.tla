---------------------------- MODULE ProgramsProofs ----------------------------
(***************************************************************************)
(* Proofs about the programs, the examples and the broker's clients: for   *)
(* command lines, queues, files, logs and numbers of messages of any size. *)
(***************************************************************************)
EXTENDS Programs, TLAPS

(***************************************************************************)
(* Replay and scan of a log.                                               *)
(***************************************************************************)

\* A sequence is a function on 1 .. Len(s).
LEMMA SeqLength ==
  ASSUME NEW S, NEW s \in Seq(S)
  PROVE  Len(s) \in Nat /\ s \in [1 .. Len(s) -> S] /\ DOMAIN s = 1 .. Len(s)
OBVIOUS

\* Two sequences of one length with the same elements are equal.
LEMMA SameSeq ==
  ASSUME NEW S, NEW s \in Seq(S), NEW t \in Seq(S),
         Len(s) = Len(t), \A k \in 1 .. Len(s) : s[k] = t[k]
  PROVE  s = t
BY SeqLength

\* One more element.
LEMMA SeqGrows ==
  ASSUME NEW S, NEW s \in Seq(S), NEW x \in S
  PROVE  /\ Append(s, x) \in Seq(S) /\ Len(s) \in Nat /\ Len(Append(s, x)) = Len(s) + 1
         /\ \A k \in 1 .. Len(s) : Append(s, x)[k] = s[k] /\ s[k] \in S
         /\ Append(s, x)[Len(s) + 1] = x
OBVIOUS

\* The sizes the invariant speaks of.
LEMMA ReaderNumbers ==
  ASSUME Scan!ReaderInv
  PROVE  /\ Len(log) \in Nat /\ Len(visited) \in Nat /\ position \in Nat /\ position <= Len(log)
         /\ log \in Seq(Scan!Kind) /\ visited \in Seq(Scan!Kind)
         /\ recovered \in Nat /\ failures \in Nat
         /\ \A k \in 1 .. Len(log) : log[k] \in Scan!Kind
<1>1. log \in Seq(Scan!Kind) /\ visited \in Seq(Scan!Kind)
  BY Zenon DEF Scan!ReaderInv, Scan!ReaderTypes
<1>2. Len(log) \in Nat /\ Len(visited) \in Nat
  BY <1>1, SeqLength, Zenon
<1>3. \A k \in 1 .. Len(log) : log[k] \in Scan!Kind
  BY <1>1, SeqLength, Zenon
<1>4. QED
  BY <1>1, <1>2, <1>3 DEF Scan!ReaderInv, Scan!ReaderTypes

\* No replay and no scan yet.
LEMMA ReaderInit == Scan!Init => Scan!ReaderInv
<1>1. <<>> \in Seq(Scan!Kind) /\ Len(<<>>) = 0
  OBVIOUS
<1> SUFFICES ASSUME Scan!Init PROVE Scan!ReaderInv
  BY Zenon
<1>2. /\ log = <<>> /\ ending = "empty" /\ tool = "typed" /\ limit = 0 /\ pc = "idle"
      /\ position = 0 /\ recovered = 0 /\ failures = 0 /\ failureRecorded = FALSE
      /\ status = "running" /\ visited = <<>>
  BY Zenon DEF Scan!Init
<1>3. Scan!ReaderTypes
  <2>1. log \in Seq(Scan!Kind) /\ visited \in Seq(Scan!Kind) /\ Len(log) = 0
    BY <1>1, <1>2, Zenon
  <2>2. failureRecorded \in BOOLEAN
    BY <1>2, Zenon
  <2>3. QED
    BY <1>2, <2>1, <2>2 DEF Scan!ReaderTypes
<1>4. Scan!Progress
  BY <1>1, <1>2 DEF Scan!Progress
<1>5. QED
  BY <1>2, <1>3, <1>4, Zenon DEF Scan!ReaderInv, Scan!Verdict

\* A replay or a scan starts on a log.
LEMMA ReaderCall ==
  ASSUME Scan!ReaderInv, NEW t \in {"typed", "scan"}, NEW l \in Nat,
         NEW lg \in Seq(Scan!Kind), NEW e \in {"empty", "corrupted"}, Scan!Call(t, l, lg, e)
  PROVE  Scan!ReaderInv'
<1>1. /\ pc = "idle" /\ pc' = "open" /\ tool' = t /\ limit' = l /\ log' = lg /\ ending' = e
      /\ UNCHANGED <<position, recovered, failures, failureRecorded, status, visited>>
  BY Zenon DEF Scan!Call
<1>2. Len(lg) \in Nat
  BY SeqLength, Zenon
<1>3. position = 0 /\ Len(visited) = 0 /\ recovered = 0
  BY <1>1, Zenon DEF Scan!ReaderInv, Scan!Progress
<1>4. Scan!ReaderTypes'
  BY <1>1, <1>2, <1>3 DEF Scan!ReaderInv, Scan!ReaderTypes
<1>5. Scan!Progress'
  BY <1>1, <1>2, <1>3 DEF Scan!ReaderInv, Scan!Progress
<1>6. QED
  BY <1>1, <1>4, <1>5, Zenon DEF Scan!ReaderInv, Scan!Verdict

\* The writer adds a record behind those that are there.
LEMMA WriterAppendsInv ==
  ASSUME Scan!ReaderInv, NEW k \in Scan!Kind, Scan!WriterAppends(k)
  PROVE  Scan!ReaderInv'
<1>1. /\ pc \in {"open", "next", "visit"} /\ log' = Append(log, k)
      /\ UNCHANGED <<ending, tool, limit, pc, position, recovered, failures, failureRecorded,
                     status, visited>>
  BY Zenon DEF Scan!WriterAppends, Scan!readerVars
<1>2. /\ log' \in Seq(Scan!Kind) /\ Len(log') = Len(log) + 1
      /\ \A j \in 1 .. Len(log) : log'[j] = log[j]
  BY <1>1, ReaderNumbers, SeqGrows
<1>3. Scan!ReaderTypes'
  BY <1>1, <1>2, ReaderNumbers DEF Scan!ReaderInv, Scan!ReaderTypes
<1>4. Scan!Progress'
  BY <1>1, <1>2, ReaderNumbers DEF Scan!ReaderInv, Scan!Progress
<1>5. QED
  BY <1>1, <1>3, <1>4, Zenon DEF Scan!ReaderInv, Scan!Verdict

\* The steps that only move the reader.
LEMMA ReaderMovesInv ==
  ASSUME Scan!ReaderInv, Scan!OpenFails \/ Scan!OpenOk \/ Scan!NextRecord
  PROVE  Scan!ReaderInv'
<1>1. /\ pc \in {"open", "next"} /\ pc' \in {"next", "visit", "done"}
      /\ UNCHANGED <<log, ending, tool, limit, recovered, failureRecorded, visited>>
  BY Zenon DEF Scan!OpenFails, Scan!OpenOk, Scan!NextRecord, Scan!End
<1>2. /\ status = "running" /\ failures = 0 /\ recovered = Len(visited)
      /\ Len(visited) = position
  BY <1>1, Zenon DEF Scan!ReaderInv, Scan!Progress
<1>3. CASE Scan!OpenFails
  <2>1. /\ pc = "open" /\ pc' = "done" /\ status' = "open_error" /\ position' = position
        /\ failures' = IF tool = "typed" THEN failures + 1 ELSE failures
    BY <1>3, Zenon DEF Scan!OpenFails, Scan!End
  <2>2. Scan!ReaderTypes'
    BY <1>1, <2>1, <1>2 DEF Scan!ReaderInv, Scan!ReaderTypes
  <2>3. Scan!Progress'
    BY <1>1, <2>1, Zenon DEF Scan!ReaderInv, Scan!Progress
  <2>4. Scan!Verdict'
    BY <1>1, <1>2, <2>1, ReaderNumbers DEF Scan!Verdict
  <2>5. QED
    BY <2>2, <2>3, <2>4, Zenon DEF Scan!ReaderInv
<1>4. CASE Scan!OpenOk \/ Scan!NextRecord
  <2>1. /\ UNCHANGED <<failures, status>>
        /\ \/ pc = "open" /\ pc' = "next" /\ position' = position
           \/ /\ pc = "next" /\ pc' = "visit" /\ tool = "typed"
              /\ position < Len(log) /\ position' = position + 1
    BY <1>4, Zenon DEF Scan!OpenOk, Scan!NextRecord
  <2>2. Scan!ReaderTypes'
    BY <1>1, <2>1, ReaderNumbers DEF Scan!ReaderInv, Scan!ReaderTypes
  <2>3. Scan!Progress'
    BY <1>1, <1>2, <2>1, ReaderNumbers, Zenon DEF Scan!ReaderInv, Scan!Progress
  <2>4. Scan!Verdict'
    BY <2>1, Zenon DEF Scan!Verdict
  <2>5. QED
    BY <2>2, <2>3, <2>4, Zenon DEF Scan!ReaderInv
<1>5. QED
  BY <1>3, <1>4, Zenon

\* At the end of the log all of it was visited.
LEMMA WholeLog ==
  ASSUME Scan!ReaderInv, Len(visited) = Len(log) PROVE visited = log
<1>1. \A k \in 1 .. Len(visited) : visited[k] = log[k]
  BY Zenon DEF Scan!ReaderInv, Scan!Progress
<1>2. QED
  BY <1>1, ReaderNumbers, SameSeq, Zenon

\* The end of the log, or of what the limit lets through.
LEMMA ReaderEndsInv ==
  ASSUME Scan!ReaderInv, Scan!ReplayEnds \/ Scan!ScanEnds \/ Scan!LimitReached
  PROVE  Scan!ReaderInv'
<1>1. /\ pc = "next" /\ pc' \in {"returned", "done"} /\ status' \in {"ok", "corrupted"}
      /\ UNCHANGED <<log, ending, tool, limit, position, recovered, failureRecorded, visited>>
  BY Zenon DEF Scan!ReplayEnds, Scan!ReplayReturns, Scan!ScanEnds, Scan!LimitReached, Scan!End
<1>2. /\ status = "running" /\ failures = 0 /\ ~failureRecorded /\ recovered = Len(visited)
      /\ Len(visited) = position
  BY <1>1, Zenon DEF Scan!ReaderInv, Scan!Progress
<1>3. /\ failures' \in {0, 1}
      /\ \/ pc' = "returned" /\ tool = "typed" /\ failures' = 0
         \/ pc' = "done" /\ tool = "scan"
  BY <1>1, <1>2 DEF Scan!ReplayEnds, Scan!ReplayReturns, Scan!ScanEnds, Scan!LimitReached, Scan!End
<1>4. Scan!ReaderTypes'
  BY <1>1, <1>3 DEF Scan!ReaderInv, Scan!ReaderTypes
<1>5. Scan!Progress'
  BY <1>1, Zenon DEF Scan!ReaderInv, Scan!Progress
<1>6. /\ status' = "ok" => visited = log \/ (tool = "scan" /\ limit # 0 /\ recovered = limit)
      /\ (status' = "ok") <=> Scan!Readable
  <2>1. CASE Scan!ReplayEnds \/ Scan!ScanEnds
    <3>1. /\ position = Len(log) /\ (status' = "ok" <=> ending = "empty")
          /\ ending \in {"empty", "corrupted"} /\ tool \in {"typed", "scan"} /\ limit \in Nat
          /\ tool = "scan" => limit = 0 \/ recovered < limit
      BY <2>1, Zenon DEF Scan!ReplayEnds, Scan!ReplayReturns, Scan!ScanEnds, Scan!WithinLimit, Scan!End,
         Scan!ReaderInv, Scan!ReaderTypes
    <3>2. visited = log
      BY <1>2, <3>1, WholeLog, Zenon
    <3>3. tool = "typed" => \A k \in DOMAIN log : log[k] = "fits"
      BY <3>2, ReaderNumbers, SeqLength, Zenon DEF Scan!ReaderInv, Scan!Progress
    <3>4. ~(tool = "scan" /\ limit # 0 /\ limit <= Len(log))
      BY <1>2, <3>1, ReaderNumbers
    <3>5. QED
      BY <3>1, <3>2, <3>3, <3>4, Zenon DEF Scan!Readable
  <2>2. CASE Scan!LimitReached
    <3>1. /\ status' = "ok" /\ tool = "scan" /\ limit # 0 /\ ~(recovered < limit) /\ limit \in Nat
          /\ recovered <= limit
      BY <2>2, Zenon DEF Scan!LimitReached, Scan!WithinLimit, Scan!End, Scan!ReaderInv, Scan!ReaderTypes,
                  Scan!Progress
    <3>2. recovered = limit /\ limit <= Len(log)
      BY <1>2, <3>1, ReaderNumbers
    <3>3. QED
      BY <3>1, <3>2, Zenon DEF Scan!Readable
  <2>3. QED
    BY <2>1, <2>2, Zenon
<1>7. Scan!Readable' <=> Scan!Readable
  BY <1>1, Zenon DEF Scan!Readable
<1>8. Scan!Verdict'
  BY <1>1, <1>2, <1>3, <1>6, <1>7, ReaderNumbers DEF Scan!Verdict
<1>9. QED
  BY <1>4, <1>5, <1>8, Zenon DEF Scan!ReaderInv

\* The replay has returned, and its failure is counted if the lambda did not.
LEMMA ReplayCheckedInv ==
  ASSUME Scan!ReaderInv, Scan!ReplayChecked
  PROVE  Scan!ReaderInv'
<1>1. /\ pc = "returned" /\ pc' = "done" /\ status' = status
      /\ failures' = IF status # "ok" /\ ~failureRecorded THEN failures + 1 ELSE failures
      /\ UNCHANGED <<log, ending, tool, limit, position, recovered, failureRecorded, visited>>
  BY Zenon DEF Scan!ReplayChecked, Scan!End
<1>2. /\ status \in {"ok", "open_error", "corrupted", "wrong_size", "visitor", "exception"}
      /\ recovered = Len(visited) - (IF status \in {"visitor", "exception"} THEN 1 ELSE 0)
      /\ tool = "typed" /\ failures = (IF failureRecorded THEN 1 ELSE 0)
      /\ failureRecorded => status # "ok"
      /\ status = "ok" => visited = log \/ (tool = "scan" /\ limit # 0 /\ recovered = limit)
      /\ status \in {"ok", "corrupted", "wrong_size"} => ((status = "ok") <=> Scan!Readable)
  BY <1>1, Zenon DEF Scan!ReaderInv, Scan!Verdict
<1>3. failures' = (IF status = "ok" THEN 0 ELSE 1)
  <2>1. CASE failureRecorded
    BY <1>1, <1>2, <2>1, Zenon
  <2>2. CASE ~failureRecorded
    BY <1>1, <1>2, <2>2
  <2>3. QED
    BY <2>1, <2>2, Zenon
<1>4. failures' \in Nat
  BY <1>3
<1>5. Scan!ReaderTypes'
  BY <1>1, <1>4, Zenon DEF Scan!ReaderInv, Scan!ReaderTypes
<1>6. Scan!Progress'
  BY <1>1, Zenon DEF Scan!ReaderInv, Scan!Progress
<1>7. Scan!Readable' <=> Scan!Readable
  BY <1>1, Zenon DEF Scan!Readable
<1>8. Scan!Verdict'
  BY <1>1, <1>2, <1>3, <1>7, Zenon DEF Scan!Verdict
<1>9. QED
  BY <1>5, <1>6, <1>8, Zenon DEF Scan!ReaderInv

\* One more record is visited.
LEMMA VisitInv ==
  ASSUME Scan!ReaderInv, Scan!ScanRecord \/ Scan!VisitOk
  PROVE  Scan!ReaderInv'
<1> DEFINE n == Len(visited) + 1
<1>1. /\ pc \in {"next", "visit"} /\ pc' = "next"
      /\ UNCHANGED <<log, ending, tool, limit, failures, failureRecorded, status>>
      /\ recovered' = recovered + 1
  BY Zenon DEF Scan!ScanRecord, Scan!VisitOk
<1>2. /\ status = "running" /\ failures = 0 /\ ~failureRecorded /\ recovered = Len(visited)
  BY <1>1, Zenon DEF Scan!ReaderInv, Scan!Progress
<1>3. /\ position' = n /\ n \in 1 .. Len(log) /\ visited' = Append(visited, log[n])
      /\ tool = "typed" => log[n] = "fits"
      /\ tool = "scan" => limit = 0 \/ recovered < limit
  <2>1. CASE Scan!ScanRecord
    <3>1. /\ position = Len(visited) /\ position < Len(log) /\ tool = "scan"
          /\ position' = position + 1 /\ visited' = Append(visited, log[position + 1])
          /\ limit = 0 \/ recovered < limit
      BY <2>1, Zenon DEF Scan!ScanRecord, Scan!WithinLimit, Scan!ReaderInv, Scan!Progress
    <3>2. QED
      BY <3>1, ReaderNumbers
  <2>2. CASE Scan!VisitOk
    <3>1. /\ position = n /\ tool = "typed" /\ log[position] = "fits" /\ position' = position
          /\ visited' = Append(visited, log[position])
      BY <2>2, Zenon DEF Scan!VisitOk, Scan!VisitedNow, Scan!ReaderInv, Scan!Progress
    <3>2. QED
      BY <3>1, ReaderNumbers
  <2>3. QED
    BY <2>1, <2>2, Zenon
<1>4. /\ visited' \in Seq(Scan!Kind) /\ Len(visited') = n /\ visited'[n] = log[n]
      /\ \A k \in 1 .. Len(visited) : visited'[k] = visited[k]
  BY <1>3, ReaderNumbers, SeqGrows
<1>5. Scan!ReaderTypes'
  BY <1>1, <1>3, <1>4, ReaderNumbers DEF Scan!ReaderInv, Scan!ReaderTypes
<1>6. \A k \in 1 .. n : visited'[k] = log[k] /\ (tool = "typed" => visited'[k] = "fits")
  BY <1>3, <1>4, ReaderNumbers DEF Scan!ReaderInv, Scan!Progress
<1>7. tool = "scan" /\ limit # 0 => recovered' <= limit
  BY <1>1, <1>3, ReaderNumbers DEF Scan!ReaderInv, Scan!ReaderTypes
<1>8. Scan!Progress'
  BY <1>1, <1>2, <1>3, <1>4, <1>6, <1>7, ReaderNumbers DEF Scan!Progress
<1>9. QED
  BY <1>1, <1>5, <1>8, Zenon DEF Scan!ReaderInv, Scan!Verdict

\* The lambda ends the replay.
LEMMA LambdaEndsInv ==
  ASSUME Scan!ReaderInv, Scan!WrongSize \/ Scan!VisitorFails \/ Scan!VisitorThrows
  PROVE  Scan!ReaderInv'
<1> DEFINE n == Len(visited) + 1
<1>1. /\ pc = "visit" /\ pc' \in {"returned", "done"} /\ tool = "typed"
      /\ UNCHANGED <<log, ending, tool, limit, position, recovered>>
  BY Zenon DEF Scan!WrongSize, Scan!VisitorFails, Scan!VisitorThrows, Scan!LambdaFails,
         Scan!ReplayReturns, Scan!End, Scan!ReaderInv, Scan!Progress
<1>2. /\ failures = 0 /\ recovered = Len(visited) /\ position = n /\ n \in 1 .. Len(log)
  BY <1>1, ReaderNumbers DEF Scan!ReaderInv, Scan!Progress
<1>3. CASE Scan!WrongSize
  <2>1. /\ log[n] = "wrong_size" /\ failures' = 1 /\ failureRecorded' = TRUE /\ visited' = visited
        /\ status' = "wrong_size" /\ pc' = "returned"
    BY <1>2, <1>3 DEF Scan!WrongSize, Scan!VisitedNow, Scan!LambdaFails, Scan!ReplayReturns
  <2>2. ~Scan!Readable'
    BY <1>1, <1>2, <2>1, ReaderNumbers, SeqLength, Zenon DEF Scan!Readable
  <2>3. Scan!ReaderTypes'
    BY <1>1, <2>1, Zenon DEF Scan!ReaderInv, Scan!ReaderTypes
  <2>4. Scan!Progress'
    BY <1>1, <2>1, Zenon DEF Scan!ReaderInv, Scan!Progress
  <2>5. Scan!Verdict'
    BY <1>1, <1>2, <2>1, <2>2, ReaderNumbers DEF Scan!Verdict
  <2>6. QED
    BY <2>3, <2>4, <2>5, Zenon DEF Scan!ReaderInv
<1>4. CASE Scan!VisitorFails \/ Scan!VisitorThrows
  <2>1. /\ log[n] = "fits" /\ failures' \in {0, 1} /\ failureRecorded' \in BOOLEAN
        /\ visited' = Append(visited, log[n]) /\ status' \in {"visitor", "exception"}
        /\ \/ pc' = "returned" /\ status' = "visitor" /\ failures' = 1 /\ failureRecorded'
           \/ pc' = "done" /\ status' = "exception"
    <3>1. CASE Scan!VisitorFails
      BY <1>2, <3>1 DEF Scan!VisitorFails, Scan!VisitedNow, Scan!LambdaFails, Scan!ReplayReturns
    <3>2. CASE Scan!VisitorThrows
      <4>1. failureRecorded \in BOOLEAN
        BY Zenon DEF Scan!ReaderInv, Scan!ReaderTypes
      <4>2. failures' = failures /\ failureRecorded' = failureRecorded
        BY <3>2, Zenon DEF Scan!VisitorThrows
      <4>3. QED
        BY <1>2, <3>2, <4>1, <4>2, Zenon DEF Scan!VisitorThrows, Scan!VisitedNow, Scan!End
    <3>3. QED
      BY <1>4, <3>1, <3>2, Zenon
  <2>2. /\ visited' \in Seq(Scan!Kind) /\ Len(visited') = n /\ visited'[n] = log[n]
        /\ \A k \in 1 .. Len(visited) : visited'[k] = visited[k]
    BY <1>2, <2>1, ReaderNumbers, SeqGrows
  <2>3. Scan!ReaderTypes'
    BY <1>1, <2>1, <2>2 DEF Scan!ReaderInv, Scan!ReaderTypes
  <2>4. \A k \in 1 .. n : visited'[k] = log[k] /\ (tool = "typed" => visited'[k] = "fits")
    BY <1>1, <2>1, <2>2, ReaderNumbers DEF Scan!ReaderInv, Scan!Progress
  <2>5. Scan!Progress'
    BY <1>1, <1>2, <2>2, <2>4, ReaderNumbers, Zenon DEF Scan!Progress
  <2>6. Scan!Verdict'
    BY <1>1, <1>2, <2>1, <2>2, ReaderNumbers DEF Scan!Verdict
  <2>7. QED
    BY <2>3, <2>5, <2>6, Zenon DEF Scan!ReaderInv
<1>5. QED
  BY <1>3, <1>4, Zenon

\* Every step of a replay or a scan, and of the visitor it calls.
LEMMA ReaderStepInv ==
  ASSUME Scan!ReaderInv, Scan!Step \/ Scan!VisitorFails \/ Scan!VisitorThrows
  PROVE  Scan!ReaderInv'
BY WriterAppendsInv, ReaderMovesInv, ReaderEndsInv, ReplayCheckedInv, VisitInv, LambdaEndsInv, Zenon
   DEF Scan!Step

\* The reader, while something else is at work.
LEMMA ReaderKept == ASSUME Scan!ReaderInv, UNCHANGED scanVars PROVE Scan!ReaderInv'
<1>1. UNCHANGED <<log, ending, tool, limit, pc, position, recovered, failures, failureRecorded,
                  status, visited>>
  BY Zenon DEF scanVars
<1>2. Scan!Readable' <=> Scan!Readable
  BY <1>1, Zenon DEF Scan!Readable
<1>3. QED
  BY <1>1, <1>2, Zenon DEF Scan!ReaderInv, Scan!ReaderTypes, Scan!Progress, Scan!Verdict

(***************************************************************************)
(* A program that publishes and consumes.                                  *)
(***************************************************************************)

\* Multiples of the size of a record.
LEMMA Products ==
  ASSUME NEW r \in Nat, NEW k \in Nat
  PROVE  /\ k * r \in Nat /\ 0 * r = 0 /\ (k + 1) * r = k * r + r
         /\ \A m \in Nat : k < m => k * r + r <= m * r
<1>1. k * r \in Nat /\ 0 * r = 0 /\ (k + 1) * r = k * r + r
  OBVIOUS
<1>2. ASSUME NEW m \in Nat, k < m PROVE k * r + r <= m * r
  <2>1. PICK d \in Nat : m = k + 1 + d
    <3>1. m - (k + 1) \in Nat /\ m = k + 1 + (m - (k + 1))
      BY <1>2
    <3>2. QED
      BY <3>1, Zenon
  <2>2. m * r = k * r + r + d * r /\ d * r \in Nat
    BY <2>1
  <2>3. QED
    BY <1>1, <2>2
<1>3. QED
  BY <1>1, <1>2, Zenon

\* A record is its header and its payload.
LEMMA RecordSize ==
  /\ Demo!Record \in Nat /\ Demo!Record > 0 /\ Header + Payload = Demo!Record
  /\ Header \in Nat /\ Header > 0 /\ Payload \in Nat /\ Capacity \in Nat
BY SizesAssumption DEF Demo!Record

\* A call that is feasible is accepted, and an accepted one is feasible if the
\* messages fit the queue and the file.
LEMMA AcceptsFeasible ==
  ASSUME Demo!BrokerCall, role # "sub"
  PROVE  /\ Demo!Feasible => Demo!OpenAccepts(config)
         /\ /\ Demo!OpenAccepts(config) /\ messages * Demo!Record <= config.file_size_bytes
            /\ role # "writer" => messages <= Capacity
            => Demo!Feasible
<1>1. /\ role \in {"pub", "client", "writer"} /\ config.file_size_bytes \in Nat
      /\ config.capacity \in Nat
  BY Zenon DEF Demo!BrokerCall
<1>2. ASSUME Demo!Feasible PROVE Demo!OpenAccepts(config)
  <2>1. /\ config.path # "" /\ Header <= config.file_size_bytes /\ config.file_size_bytes # 0
    <3>1. config.path # "" /\ Header <= config.file_size_bytes
      BY <1>2, Zenon DEF Demo!Feasible
    <3>2. \A f \in Nat : Header <= f => f # 0
      BY RecordSize
    <3>3. config.file_size_bytes # 0
      BY <1>1, <3>1, <3>2, Zenon
    <3>4. QED
      BY <3>1, <3>3, Zenon
  <2>2. Demo!WalConfigValidate(config) /\ Demo!WriterCreates(config)
    BY <1>1, <2>1, SizesAssumption, Zenon DEF Demo!WalConfigValidate, Demo!WriterCreates
  <2>3. ASSUME role # "writer" PROVE Demo!BrokerAccepts(config)
    <3>1. config.capacity = Capacity /\ config.enable_wal /\ Demo!Record <= config.file_size_bytes
      BY <1>1, <1>2, <2>3, Zenon DEF Demo!Feasible
    <3>2. Demo!validate_queue_config_for_capacity(config)
      BY <3>1, SizesAssumption, Zenon DEF Demo!validate_queue_config_for_capacity, Demo!QueueConfigValidate
    <3>3. Demo!validate_wal_config_for_payload(config)
      BY <1>1, <2>2, <3>1, SizesAssumption, RecordSize, Zenon DEF Demo!validate_wal_config_for_payload
    <3>4. QED
      BY <3>1, <3>2, <3>3, Zenon DEF Demo!BrokerAccepts
  <2>4. QED
    BY <2>2, <2>3, Zenon DEF Demo!OpenAccepts
<1>3. ASSUME Demo!OpenAccepts(config), messages * Demo!Record <= config.file_size_bytes,
             role # "writer" => messages <= Capacity
      PROVE  Demo!Feasible
  <2>1. config.path # "" /\ Header <= config.file_size_bytes
    BY <1>1, <1>3, SizesAssumption, Zenon DEF Demo!OpenAccepts, Demo!WriterCreates, Demo!WalConfigValidate
  <2>2. ASSUME role # "writer"
        PROVE  config.capacity = Capacity /\ config.enable_wal /\ Demo!Record <= config.file_size_bytes
    <3>1. Demo!BrokerAccepts(config)
      BY <1>3, <2>2, Zenon DEF Demo!OpenAccepts
    <3>2. config.capacity = Capacity /\ config.enable_wal
      BY <3>1, Zenon DEF Demo!BrokerAccepts, Demo!validate_queue_config_for_capacity
    <3>3. config.file_size_bytes >= Header + Payload
      BY <3>1, Zenon DEF Demo!BrokerAccepts, Demo!validate_wal_config_for_payload
    <3>4. QED
      BY <1>1, <3>2, <3>3, RecordSize, Zenon
  <2>3. QED
    BY <1>1, <1>3, <2>1, <2>2, Zenon DEF Demo!Feasible
<1>4. QED
  BY <1>2, <1>3, Zenon

\* Feasible only looks at the call.
LEMMA CallKept ==
  ASSUME UNCHANGED <<role, config, messages, printLimit>>
  PROVE  /\ Demo!BrokerCall' <=> Demo!BrokerCall
         /\ Demo!Feasible' <=> Demo!Feasible
         /\ Demo!OpenAccepts(config)' <=> Demo!OpenAccepts(config)
<1>1. Demo!BrokerCall' <=> Demo!BrokerCall
  BY Zenon DEF Demo!BrokerCall
<1>2. Demo!Feasible' <=> Demo!Feasible
  BY Zenon DEF Demo!Feasible
<1>3. Demo!OpenAccepts(config)' <=> Demo!OpenAccepts(config)
  BY Zenon DEF Demo!OpenAccepts
<1>4. QED
  BY <1>1, <1>2, <1>3, Zenon

\* No broker yet.
LEMMA BrokerInit == Demo!Init => Demo!BrokerInv
BY Zenon DEF Demo!Init, Demo!BrokerInv, Demo!Starting, Demo!Working, Demo!Judged

\* A program or a client starts.
LEMMA BrokerStart ==
  ASSUME Demo!BrokerInv,
         NEW r \in {"pub", "sub", "client", "writer"}, NEW c, NEW m \in Nat, NEW l \in Nat,
         c.capacity \in Nat, c.file_size_bytes \in Nat,
         r = "pub" => c.capacity = Capacity /\ c.path # "" /\ c.enable_wal,
         Demo!Start(r, c, m, l)
  PROVE  Demo!BrokerInv' /\ step' # "idle"
<1>1. /\ step = "idle" /\ role' = r /\ config' = c /\ messages' = m /\ printLimit' = l
      /\ step' = IF r = "sub" THEN "publish" ELSE "prepare"
      /\ UNCHANGED <<i, writer, offset, consumed, printed, ioFailed>>
  BY Zenon DEF Demo!Start
<1>2. i = 0 /\ offset = 0 /\ consumed = 0 /\ printed = 0 /\ ~writer /\ ~ioFailed
  BY <1>1, Zenon DEF Demo!BrokerInv, Demo!Starting
<1>3. Demo!BrokerCall'
  BY <1>1, Zenon DEF Demo!BrokerCall
<1>4. Demo!Starting'
  BY <1>1, <1>2, Zenon DEF Demo!Starting
<1>5. Demo!Working'
  <2>1. SUFFICES ASSUME r = "sub" PROVE Demo!Working'
    BY <1>1, Zenon DEF Demo!Working
  <2>2. step' = "publish" /\ i' = 0 /\ consumed' = 0 /\ printed' = 0 /\ offset' = 0 /\ role' = "sub"
    BY <1>1, <1>2, <2>1, Zenon
  <2>3. ~writer' /\ ~ioFailed'
    BY <1>1, <1>2, Zenon
  <2>4. /\ i' \in 0 .. messages' /\ consumed' \in 0 .. i' /\ i' <= Capacity
        /\ printed' = IF consumed' < printLimit' THEN consumed' ELSE printLimit'
    BY <1>1, <2>2, RecordSize
  <2>5. QED
    BY <2>2, <2>3, <2>4, Zenon DEF Demo!Working
<1>6. QED
  BY <1>1, <1>3, <1>4, <1>5, Zenon DEF Demo!BrokerInv, Demo!Judged

\* The steps before there is a broker.
LEMMA OpenInv ==
  ASSUME Demo!BrokerInv, Demo!Prepare \/ Demo!Open \/ Demo!OpenFails
  PROVE  Demo!BrokerInv'
<1>1. /\ step \in {"prepare", "open"}
      /\ UNCHANGED <<role, config, messages, printLimit, i, offset, consumed, printed>>
  BY Zenon DEF Demo!Prepare, Demo!Open, Demo!OpenFails, Demo!callVars
<1>2. /\ i = 0 /\ offset = 0 /\ consumed = 0 /\ printed = 0 /\ ~writer /\ ~ioFailed
      /\ role # "sub" /\ Demo!BrokerCall
  BY <1>1, Zenon DEF Demo!BrokerInv, Demo!Starting
<1>3. /\ Demo!BrokerCall'
      /\ Demo!Feasible' <=> Demo!Feasible
      /\ Demo!OpenAccepts(config)' <=> Demo!OpenAccepts(config)
  BY <1>1, <1>2, CallKept, Zenon
<1>4. CASE Demo!Prepare \/ Demo!OpenFails
  <2>1. /\ writer' = writer
        /\ \/ step' = "open" /\ ioFailed' = ioFailed
           \/ step' = "done" /\ result' \in {"error", "exception"} /\ ioFailed' = TRUE
           \/ step' = "done" /\ result' = "error" /\ ~Demo!OpenAccepts(config)
    BY <1>4, Zenon DEF Demo!Prepare, Demo!OpenFails, Demo!Return
  <2>2. Demo!Starting'
    BY <1>1, <1>2, <2>1 DEF Demo!Starting
  <2>3. ASSUME step' = "done"
        PROVE  result' \in {"error", "exception"} /\ ~(Demo!Feasible' /\ ~ioFailed')
    BY <1>2, <1>3, <2>1, <2>3, AcceptsFeasible, Zenon
  <2>4. Demo!Judged'
    BY <2>3, Zenon DEF Demo!Judged
  <2>5. QED
    BY <1>3, <2>1, <2>2, <2>4, Zenon DEF Demo!BrokerInv, Demo!Working
<1>5. CASE Demo!Open
  <2>1. step' = "publish" /\ writer' = TRUE /\ ioFailed' = ioFailed /\ Demo!OpenAccepts(config)
    BY <1>5, Zenon DEF Demo!Open
  <2>2. Demo!Starting' /\ Demo!Judged'
    BY <2>1, Zenon DEF Demo!Starting, Demo!Judged
  <2>3. messages \in Nat /\ config.file_size_bytes \in Nat
    BY <1>2, Zenon DEF Demo!BrokerCall
  <2>4. Demo!Working'
    <3>1. /\ i' \in 0 .. messages' /\ consumed' \in 0 .. i' /\ i' <= Capacity
          /\ i' * Demo!Record = 0 /\ 0 <= config.file_size_bytes
      BY <1>1, <1>2, <2>3, RecordSize, Products
    <3>2. i' * Demo!Record <= config'.file_size_bytes /\ offset' = i' * Demo!Record
      BY <1>1, <1>2, <3>1, Zenon
    <3>3. QED
      BY <1>1, <1>2, <1>3, <2>1, <3>1, <3>2, Zenon DEF Demo!Working, Demo!Record
  <2>5. QED
    BY <1>3, <2>1, <2>2, <2>4, Zenon DEF Demo!BrokerInv
<1>6. QED
  BY <1>4, <1>5, Zenon

\* What is known while the broker works.
LEMMA WorkFacts ==
  ASSUME Demo!BrokerInv, step \in {"publish", "consume", "flush"}
  PROVE  /\ Demo!BrokerCall /\ messages \in Nat /\ printLimit \in Nat /\ i \in Nat /\ i <= messages
         /\ consumed \in Nat /\ consumed <= i /\ config.file_size_bytes \in Nat
         /\ i * Demo!Record \in Nat
<1>1. /\ Demo!BrokerCall /\ i \in 0 .. messages /\ consumed \in 0 .. i
  BY Zenon DEF Demo!BrokerInv, Demo!Working
<1>2. messages \in Nat /\ printLimit \in Nat /\ config.file_size_bytes \in Nat
  BY <1>1, Zenon DEF Demo!BrokerCall
<1>3. i \in Nat /\ i <= messages /\ consumed \in Nat /\ consumed <= i
  BY <1>1, <1>2
<1>4. i * Demo!Record \in Nat
  BY <1>3, RecordSize, Products, Zenon
<1>5. QED
  BY <1>1, <1>2, <1>3, <1>4, Zenon

\* One more message is published.
LEMMA PublishInv == ASSUME Demo!BrokerInv, Demo!Publish PROVE Demo!BrokerInv'
<1>1. /\ step = "publish" /\ i < messages /\ i' = i + 1
      /\ offset' = IF writer THEN offset + Header + Payload ELSE offset
      /\ UNCHANGED <<role, config, messages, printLimit, step, writer, consumed, printed, ioFailed>>
  BY Zenon DEF Demo!Publish, Demo!callVars
<1>2. consumed = 0
  BY <1>1, Zenon DEF Demo!BrokerInv, Demo!Working
<1>3. /\ Demo!BrokerCall'
      /\ Demo!OpenAccepts(config)' <=> Demo!OpenAccepts(config)
  BY <1>1, WorkFacts, CallKept, Zenon
<1>4. role # "writer" => i' <= Capacity
  BY <1>1, <1>2, WorkFacts, RecordSize DEF Demo!Publish, Demo!full
<1>5. i' * Demo!Record = i * Demo!Record + Demo!Record
  BY <1>1, WorkFacts, RecordSize, Products, Zenon
<1>6. ASSUME role # "sub"
      PROVE  i' * Demo!Record <= config.file_size_bytes /\ offset' = i' * Demo!Record
  <2>1. offset = i * Demo!Record /\ writer
    BY <1>1, <1>6, Zenon DEF Demo!BrokerInv, Demo!Working
  <2>2. Header + Payload <= config.file_size_bytes - offset
    BY <2>1, Zenon DEF Demo!Publish, Demo!RecordFits, Demo!remaining_space
  <2>3. \A f \in Nat : Header + Payload <= f - offset => i' * Demo!Record <= f
    BY <1>5, <2>1, WorkFacts, <1>1, RecordSize
  <2>4. offset' = offset + Header + Payload
    BY <1>1, <2>1, Zenon
  <2>5. offset' = i' * Demo!Record
    BY <1>1, <1>5, <2>1, <2>4, RecordSize, WorkFacts
  <2>6. QED
    BY <1>1, <2>2, <2>3, <2>5, WorkFacts, Zenon
<1>7. role = "sub" => offset' = 0
  BY <1>1, Zenon DEF Demo!BrokerInv, Demo!Working
<1>8. i' \in 0 .. messages' /\ consumed' \in 0 .. i' /\ consumed' = 0
  BY <1>1, <1>2, WorkFacts
<1>9. role = "sub" => printed' = IF consumed' < printLimit' THEN consumed' ELSE printLimit'
  BY <1>1, Zenon DEF Demo!BrokerInv, Demo!Working
<1>10. ~ioFailed' /\ (writer' <=> role' # "sub")
  BY <1>1, Zenon DEF Demo!BrokerInv, Demo!Working
<1>11. role # "sub" => Demo!OpenAccepts(config)'
  BY <1>1, <1>3, Zenon DEF Demo!BrokerInv, Demo!Working
<1>12. Demo!Working'
  BY <1>1, <1>4, <1>6, <1>7, <1>8, <1>9, <1>10, <1>11, Zenon DEF Demo!Working, Demo!Record
<1>13. QED
  BY <1>1, <1>3, <1>12, Zenon DEF Demo!BrokerInv, Demo!Starting, Demo!Judged

\* The queue is full, the file is, or a flush failed.
LEMMA PublishFailsInv == ASSUME Demo!BrokerInv, Demo!PublishFails PROVE Demo!BrokerInv'
<1>1. /\ step = "publish" /\ i < messages /\ step' = "done" /\ result' = "error"
      /\ UNCHANGED <<role, config, messages, printLimit>>
  BY Zenon DEF Demo!PublishFails, Demo!callVars, Demo!Return
<1>2. /\ Demo!BrokerCall'
      /\ Demo!Feasible' <=> Demo!Feasible
  BY <1>1, WorkFacts, CallKept, Zenon
<1>3. ASSUME ~ioFailed' PROVE ~Demo!Feasible
  <2>1. Demo!full \/ ~Demo!RecordFits
    BY <1>3, Zenon DEF Demo!PublishFails
  <2>2. CASE Demo!full
    <3>1. role # "writer" /\ i - consumed >= Capacity /\ consumed = 0
      BY <1>1, <2>2, Zenon DEF Demo!full, Demo!BrokerInv, Demo!Working
    <3>2. ~(messages <= Capacity)
      BY <1>1, <3>1, WorkFacts, RecordSize
    <3>3. QED
      BY <3>1, <3>2, Zenon DEF Demo!Feasible
  <2>3. CASE ~Demo!RecordFits
    <3>1. writer /\ ~(Header + Payload <= config.file_size_bytes - offset)
      BY <2>3, Zenon DEF Demo!RecordFits, Demo!remaining_space
    <3>2. role # "sub" /\ offset = i * Demo!Record
      BY <1>1, <3>1, Zenon DEF Demo!BrokerInv, Demo!Working
    <3>3. i * Demo!Record + Demo!Record <= messages * Demo!Record
      BY <1>1, WorkFacts, RecordSize, Products, Zenon
    <3>4. messages * Demo!Record \in Nat
      BY <1>1, WorkFacts, RecordSize, Products, Zenon
    <3>5. \A f \in Nat : messages * Demo!Record <= f => Header + Payload <= f - offset
      BY <1>1, <3>2, <3>3, <3>4, WorkFacts, RecordSize
    <3>6. ~(messages * Demo!Record <= config.file_size_bytes)
      BY <1>1, <3>1, <3>5, WorkFacts, Zenon
    <3>7. QED
      BY <3>2, <3>6, Zenon DEF Demo!Feasible
  <2>4. QED
    BY <2>1, <2>2, <2>3, Zenon
<1>4. Demo!Judged'
  BY <1>1, <1>2, <1>3, Zenon DEF Demo!Judged
<1>5. QED
  BY <1>1, <1>2, <1>4, Zenon DEF Demo!BrokerInv, Demo!Starting, Demo!Working

\* All messages are published.
LEMMA PublishedInv == ASSUME Demo!BrokerInv, Demo!Published PROVE Demo!BrokerInv'
<1>1. /\ step = "publish" /\ i = messages
      /\ step' = IF role \in {"pub", "writer"} THEN "flush" ELSE "consume"
      /\ UNCHANGED <<role, config, messages, printLimit, i, writer, offset, consumed, printed, ioFailed>>
  BY Zenon DEF Demo!Published, Demo!callVars
<1>2. /\ Demo!BrokerCall' /\ role \in {"pub", "sub", "client", "writer"}
      /\ Demo!OpenAccepts(config)' <=> Demo!OpenAccepts(config)
  BY <1>1, WorkFacts, CallKept, Zenon DEF Demo!BrokerCall
<1>3. consumed = 0
  BY <1>1, Zenon DEF Demo!BrokerInv, Demo!Working
<1>4. Demo!Working'
  BY <1>1, <1>2, <1>3, Zenon DEF Demo!BrokerInv, Demo!Working
<1>5. QED
  BY <1>1, <1>2, <1>4, Zenon DEF Demo!BrokerInv, Demo!Starting, Demo!Judged

\* One more message is consumed: the queue is not empty.
LEMMA ConsumeInv == ASSUME Demo!BrokerInv, Demo!Consume PROVE Demo!BrokerInv'
<1>1. step = "consume" /\ consumed < messages /\ i = messages
  BY Zenon DEF Demo!Consume, Demo!BrokerInv, Demo!Working
<1>2. /\ consumed' = consumed + 1 /\ step' = step
      /\ printed' = IF role = "client" \/ consumed < printLimit THEN printed + 1 ELSE printed
      /\ UNCHANGED <<role, config, messages, printLimit, i, writer, offset, ioFailed>>
  BY <1>1, Zenon DEF Demo!Consume, Demo!callVars
<1>3. /\ Demo!BrokerCall'
      /\ Demo!OpenAccepts(config)' <=> Demo!OpenAccepts(config)
  BY <1>1, <1>2, WorkFacts, CallKept, Zenon
<1>4. consumed' \in 0 .. i'
  BY <1>1, <1>2, WorkFacts
<1>5. role = "sub" => printed' = IF consumed' < printLimit' THEN consumed' ELSE printLimit'
  <2>1. ASSUME role = "sub" PROVE printed = IF consumed < printLimit THEN consumed ELSE printLimit
    BY <1>1, <2>1, Zenon DEF Demo!BrokerInv, Demo!Working
  <2>2. QED
    BY <1>1, <1>2, <2>1, WorkFacts
<1>6. Demo!Working'
  BY <1>1, <1>2, <1>3, <1>4, <1>5, Zenon DEF Demo!BrokerInv, Demo!Working
<1>7. QED
  BY <1>1, <1>2, <1>3, <1>6, Zenon DEF Demo!BrokerInv, Demo!Starting, Demo!Judged

\* The work is done.
LEMMA DoneComplete ==
  ASSUME Demo!BrokerInv, i = messages,
         \/ step = "flush"
         \/ step = "consume" /\ consumed = messages /\ role = "sub"
  PROVE  Demo!Feasible /\ Demo!Complete
<1>1. step \in {"flush", "consume"} /\ Demo!BrokerCall
  BY WorkFacts, Zenon
<1>2. Demo!Complete
  <2>1. /\ offset = IF role = "sub" THEN 0 ELSE i * Demo!Record
        /\ role = "sub" => printed = IF consumed < printLimit THEN consumed ELSE printLimit
    BY <1>1, Zenon DEF Demo!BrokerInv, Demo!Working, Demo!Record
  <2>2. consumed = IF role \in {"pub", "writer"} THEN 0 ELSE messages
    <3>1. CASE step = "flush"
      <4>1. role # "sub" /\ consumed = IF role = "client" THEN messages ELSE 0
        BY <3>1, Zenon DEF Demo!BrokerInv, Demo!Working
      <4>2. QED
        BY <1>1, <4>1, Zenon DEF Demo!BrokerCall
    <3>2. CASE step = "consume" /\ consumed = messages /\ role = "sub"
      BY <3>2, Zenon
    <3>3. QED
      BY <3>1, <3>2, Zenon
  <2>3. step = "flush" => role # "sub"
    BY Zenon DEF Demo!BrokerInv, Demo!Working
  <2>4. role = "sub" => printed = IF messages < printLimit THEN messages ELSE printLimit
    BY <2>1, <2>3, Zenon
  <2>5. QED
    BY <2>1, <2>2, <2>4, Zenon DEF Demo!Complete, Demo!Record
<1>3. CASE role = "sub"
  <2>1. messages <= Capacity
    BY <1>1, <1>3, Zenon DEF Demo!BrokerInv, Demo!Working
  <2>2. QED
    BY <1>2, <1>3, <2>1, Zenon DEF Demo!Feasible
<1>4. CASE role # "sub"
  <2>1. /\ Demo!OpenAccepts(config) /\ messages * Demo!Record <= config.file_size_bytes
        /\ role # "writer" => messages <= Capacity
    BY <1>1, <1>4, Zenon DEF Demo!BrokerInv, Demo!Working, Demo!Record
  <2>2. QED
    BY <1>1, <1>2, <1>4, <2>1, AcceptsFeasible, Zenon
<1>5. QED
  BY <1>2, <1>3, <1>4, Zenon

\* The end of the consuming loop, and of the program.
LEMMA EndsInv == ASSUME Demo!BrokerInv, Demo!Consumed \/ Demo!Flush PROVE Demo!BrokerInv'
<1>1. /\ step \in {"consume", "flush"}
      /\ UNCHANGED <<role, config, messages, printLimit, i, writer, offset, consumed, printed>>
  BY Zenon DEF Demo!Consumed, Demo!Flush, Demo!callVars
<1>2. /\ i = messages /\ ~ioFailed /\ Demo!BrokerCall
  BY <1>1, WorkFacts, Zenon DEF Demo!BrokerInv, Demo!Working
<1>3. /\ Demo!BrokerCall'
      /\ Demo!Feasible' <=> Demo!Feasible
      /\ Demo!OpenAccepts(config)' <=> Demo!OpenAccepts(config)
      /\ Demo!Complete' <=> Demo!Complete
  <2>1. Demo!Complete' <=> Demo!Complete
    BY <1>1, Zenon DEF Demo!Complete
  <2>2. QED
    BY <1>1, <1>2, <2>1, CallKept, Zenon
<1>4. CASE Demo!Consumed /\ role # "sub"
  <2>1. step = "consume" /\ step' = "flush" /\ consumed = messages /\ role \in {"sub", "client"}
        /\ ioFailed' = ioFailed
    BY <1>4, Zenon DEF Demo!Consumed, Demo!BrokerInv, Demo!Working
  <2>2. Demo!Working'
    BY <1>1, <1>3, <1>4, <2>1, Zenon DEF Demo!BrokerInv, Demo!Working
  <2>3. QED
    BY <1>1, <1>3, <2>1, <2>2, Zenon DEF Demo!BrokerInv, Demo!Starting, Demo!Judged
<1>5. CASE Demo!Flush \/ (Demo!Consumed /\ role = "sub")
  <2>1. Demo!Feasible /\ Demo!Complete
    BY <1>1, <1>2, <1>5, DoneComplete, Zenon DEF Demo!Flush, Demo!Consumed
  <2>2. /\ step' = "done"
        /\ \/ result' = "ok" /\ ioFailed' = ioFailed
           \/ result' = "error" /\ ioFailed' = TRUE
    BY <1>5, Zenon DEF Demo!Flush, Demo!Consumed, Demo!Return
  <2>3. Demo!Judged'
    BY <1>2, <1>3, <2>1, <2>2, Zenon DEF Demo!Judged
  <2>4. QED
    BY <1>3, <2>2, <2>3, Zenon DEF Demo!BrokerInv, Demo!Starting, Demo!Working
<1>6. QED
  BY <1>4, <1>5, Zenon

\* Every step of a program that publishes and consumes.
LEMMA BrokerStepInv == ASSUME Demo!BrokerInv, Demo!Step PROVE Demo!BrokerInv' /\ step' # "idle"
<1>1. Demo!BrokerInv'
  BY OpenInv, PublishInv, PublishFailsInv, PublishedInv, ConsumeInv, EndsInv, Zenon DEF Demo!Step
<1>2. step' # "idle"
  BY Zenon DEF Demo!Step, Demo!Prepare, Demo!Open, Demo!OpenFails, Demo!Publish, Demo!PublishFails,
         Demo!Published, Demo!Consume, Demo!Consumed, Demo!Flush, Demo!Return
<1>3. QED
  BY <1>1, <1>2, Zenon

\* The broker, while something else is at work.
LEMMA BrokerKept == ASSUME Demo!BrokerInv, UNCHANGED demoVars PROVE Demo!BrokerInv'
<1>1. UNCHANGED <<role, config, messages, printLimit, step, i, writer, offset, consumed, printed,
                  ioFailed, result>>
  BY Zenon DEF demoVars
<1>2. /\ Demo!BrokerCall' <=> Demo!BrokerCall
      /\ Demo!Feasible' <=> Demo!Feasible
      /\ Demo!OpenAccepts(config)' <=> Demo!OpenAccepts(config)
  BY <1>1, CallKept, Zenon
<1>3. Demo!Complete' <=> Demo!Complete
  BY <1>1, Zenon DEF Demo!Complete
<1>4. Demo!Starting' /\ Demo!Working'
  BY <1>1, <1>2, Zenon DEF Demo!BrokerInv, Demo!Starting, Demo!Working
<1>5. Demo!Judged'
  BY <1>1, <1>2, <1>3, Zenon DEF Demo!BrokerInv, Demo!Judged
<1>6. QED
  BY <1>1, <1>2, <1>4, <1>5, Zenon DEF Demo!BrokerInv

(***************************************************************************)
(* The command line.                                                       *)
(***************************************************************************)

\* The tables of options.
LEMMA TableFacts ==
  ASSUME NEW p \in Program
  PROVE  /\ "bare" \notin DOMAIN Cli!Table(p) /\ "unknown" \notin DOMAIN Cli!Table(p)
         /\ "help" \in DOMAIN Cli!Table(p) /\ Cli!Table(p)["help"] = "flag"
<1> USE DEF Cli!Table
<1>1. CASE p = "bench"
  BY <1>1, Zenon DEF Cli!parse_bench_args
<1>2. CASE p = "pub"
  BY <1>2, Zenon DEF Cli!parse_pub_args
<1>3. CASE p = "sub"
  BY <1>3, Zenon DEF Cli!parse_sub_args
<1>4. CASE p = "replay"
  BY <1>4, Zenon DEF Cli!parse_replay_args
<1>5. CASE p = "inspect_wal"
  BY <1>5, Zenon DEF Cli!parse_inspect_wal_args
<1>6. CASE p = "stress_spsc"
  BY <1>6, Zenon DEF Cli!parse_args
<1>7. QED
  BY <1>1, <1>2, <1>3, <1>4, <1>5, <1>6, ProgramsAssumption, Zenon

\* One argument.
LEMMA ArgumentFacts ==
  ASSUME NEW p \in Program, NEW a \in Cli!Arguments(p)
  PROVE  /\ a.name = "bare" \/ a.name \in Cli!Names(p)
         /\ a.text \in Cli!Text /\ a.text # Cli!NoText
         /\ a.name # "bare" /\ ~a.eq => a.text = ""
         /\ a.name = "bare" => ~a.eq /\ ~Cli!IsFlag(p, a) /\ ~Cli!TakesValue(p, a)
<1>1. a.name = "bare" => ~Cli!IsFlag(p, a) /\ ~Cli!TakesValue(p, a)
  BY TableFacts, Zenon DEF Cli!IsFlag, Cli!TakesValue
<1>2. /\ a.name = "bare" \/ a.name \in Cli!Names(p)
      /\ a.text \in Cli!Text
  BY Zenon DEF Cli!Arguments, Cli!Text
<1>3. a.text # Cli!NoText
  BY <1>2, Zenon DEF Cli!NoText, Cli!Text, Cli!Dash, Cli!Number
<1>4. "bare" \notin Cli!Names(p)
  BY TableFacts, Zenon DEF Cli!Names
<1>5. /\ a.name # "bare" /\ ~a.eq => a.text = ""
      /\ a.name = "bare" => ~a.eq
  BY <1>4, Zenon DEF Cli!Arguments
<1>6. QED
  BY <1>1, <1>2, <1>3, <1>5, Zenon

\* The arguments of the command line.
LEMMA ArgsFacts ==
  ASSUME Cli!ParserTypes
  PROVE  /\ Len(args) \in Nat /\ DOMAIN args = 1 .. Len(args) /\ index \in Nat
         /\ \A k \in 1 .. Len(args) :
              /\ args[k].text \in Cli!Text /\ args[k].text # Cli!NoText
              /\ args[k].name # "bare" /\ ~args[k].eq => args[k].text = ""
              /\ args[k].name = "bare" =>
                   ~args[k].eq /\ ~Cli!IsFlag(program, args[k]) /\ ~Cli!TakesValue(program, args[k])
<1>1. /\ program \in Program /\ args \in Seq(Cli!Arguments(program)) /\ index \in 1 .. Len(args) + 1
  BY Zenon DEF Cli!ParserTypes
<1>2. Len(args) \in Nat /\ DOMAIN args = 1 .. Len(args)
  BY <1>1
<1>3. index \in Nat
  BY <1>1, <1>2
<1>4. ASSUME NEW k \in 1 .. Len(args)
      PROVE  /\ args[k].text \in Cli!Text /\ args[k].text # Cli!NoText
             /\ args[k].name # "bare" /\ ~args[k].eq => args[k].text = ""
             /\ args[k].name = "bare" =>
                  ~args[k].eq /\ ~Cli!IsFlag(program, args[k]) /\ ~Cli!TakesValue(program, args[k])
  <2>1. args[k] \in Cli!Arguments(program)
    BY <1>1, <1>2
  <2>2. QED
    BY <1>1, <2>1, ArgumentFacts, Zenon
<1>5. QED
  BY <1>2, <1>3, <1>4, Zenon

\* The reading of a command line only looks at the command line.
LEMMA ArgsKept ==
  ASSUME UNCHANGED <<program, args>>
  PROVE  /\ Cli!Read' = Cli!Read
         /\ \A k : /\ Cli!WellPlaced(k)' <=> Cli!WellPlaced(k)
                   /\ Cli!Opens(k)' <=> Cli!Opens(k)
                   /\ Cli!TextAt(k)' = Cli!TextAt(k)
<1>1. Cli!Read' = Cli!Read
  BY Zenon DEF Cli!Read, Cli!IsFlag
<1>2. ASSUME NEW k PROVE Cli!WellPlaced(k)' <=> Cli!WellPlaced(k)
  BY Zenon DEF Cli!WellPlaced, Cli!Opens, Cli!NextIsText
<1>3. ASSUME NEW k PROVE Cli!Opens(k)' <=> Cli!Opens(k)
  BY Zenon DEF Cli!Opens
<1>4. ASSUME NEW k PROVE Cli!TextAt(k)' = Cli!TextAt(k)
  BY Zenon DEF Cli!TextAt
<1>5. QED
  BY <1>1, <1>2, <1>3, <1>4, Zenon

\* What WellPlaced says of each kind of argument.
LEMMA PlacedFacts ==
  ASSUME Cli!ParserTypes, NEW k \in 1 .. Len(args)
  PROVE  /\ args[k].name = "bare" =>
              (Cli!WellPlaced(k) <=>
                 /\ Cli!Opens(k - 1) /\ args[k].text \notin Cli!Dash \cup {""}
                 /\ Cli!Converts(Cli!Table(program)[args[k - 1].name], args[k].text))
         /\ Cli!IsFlag(program, args[k]) => (Cli!WellPlaced(k) <=> ~args[k].eq)
         /\ Cli!TakesValue(program, args[k]) /\ args[k].eq =>
              (Cli!WellPlaced(k) <=>
                 args[k].text # "" /\ Cli!Converts(Cli!Table(program)[args[k].name], args[k].text))
         /\ Cli!Opens(k) => (Cli!WellPlaced(k) <=> Cli!NextIsText(k))
         /\ ~(args[k].name = "bare" \/ Cli!IsFlag(program, args[k]) \/ Cli!TakesValue(program, args[k]))
              => ~Cli!WellPlaced(k)
         /\ ~(Cli!IsFlag(program, args[k]) /\ Cli!TakesValue(program, args[k]))
<1>1. args[k].name = "bare" =>
        ~args[k].eq /\ ~Cli!IsFlag(program, args[k]) /\ ~Cli!TakesValue(program, args[k])
  BY ArgsFacts, Zenon
<1>2. ~(Cli!IsFlag(program, args[k]) /\ Cli!TakesValue(program, args[k]))
  BY Zenon DEF Cli!IsFlag, Cli!TakesValue
<1>3. Cli!Opens(k) <=> Cli!TakesValue(program, args[k]) /\ ~args[k].eq
  BY ArgsFacts, Zenon DEF Cli!Opens
<1> HIDE DEF Cli!Opens
<1>4. CASE args[k].name = "bare"
  BY <1>1, <1>2, <1>3, <1>4, Zenon DEF Cli!WellPlaced
<1>5. CASE Cli!IsFlag(program, args[k])
  BY <1>1, <1>2, <1>3, <1>5, Zenon DEF Cli!WellPlaced
<1>6. CASE Cli!TakesValue(program, args[k])
  BY <1>1, <1>2, <1>3, <1>6, Zenon DEF Cli!WellPlaced
<1>7. CASE ~(args[k].name = "bare" \/ Cli!IsFlag(program, args[k]) \/ Cli!TakesValue(program, args[k]))
  BY <1>1, <1>2, <1>3, <1>7, Zenon DEF Cli!WellPlaced
<1>8. QED
  BY <1>4, <1>5, <1>6, <1>7, Zenon

\* The value of an accepted option.
LEMMA AcceptsFacts ==
  ASSUME Cli!ParserTypes, index \in 1 .. Len(args), Cli!Accepts(index)
  PROVE  /\ args[index].name \in DOMAIN Cli!Table(program)
         /\ Cli!Table(program)[args[index].name] # "flag"
         /\ Cli!TakesValue(program, args[index]) /\ ~Cli!IsFlag(program, args[index])
         /\ Cli!value(index) = Cli!TextAt(index)
         /\ Cli!Converts(Cli!Table(program)[args[index].name], Cli!value(index))
         /\ Cli!WellPlaced(index)
         /\ ~args[index].eq => /\ index + 1 \in 1 .. Len(args) /\ args[index + 1].name = "bare"
                               /\ Cli!WellPlaced(index + 1)
<1>i. index \in Nat /\ Len(args) \in Nat
  <2>1. index \in Nat
    BY ArgsFacts, Zenon
  <2>2. Len(args) \in Nat
    BY ArgsFacts, Zenon
  <2>3. QED
    BY <2>1, <2>2, Zenon
<1>1. /\ Cli!TakesValue(program, args[index]) /\ Cli!value(index) # Cli!NoText
      /\ Cli!Converts(Cli!Table(program)[args[index].name], Cli!value(index))
  BY Zenon DEF Cli!Accepts
<1>2. /\ args[index].name \in DOMAIN Cli!Table(program)
      /\ Cli!Table(program)[args[index].name] # "flag"
  BY <1>1, Zenon DEF Cli!TakesValue
<1>3. ~Cli!IsFlag(program, args[index]) /\ args[index].name # "bare"
  BY <1>1, <1>2, PlacedFacts, ArgsFacts, Zenon
<1>4. CASE args[index].eq
  <2>1. Cli!value(index) = args[index].text /\ args[index].text # ""
    BY <1>1, <1>4, Zenon DEF Cli!value
  <2>2. Cli!TextAt(index) = args[index].text
    BY <1>3, <1>4, Zenon DEF Cli!TextAt
  <2>3. Cli!WellPlaced(index)
    BY <1>1, <1>4, <2>1, PlacedFacts, Zenon
  <2>4. QED
    BY <1>1, <1>2, <1>3, <1>4, <2>1, <2>2, <2>3, Zenon
<1>5. CASE ~args[index].eq
  <2>1. args[index].text = ""
    BY <1>3, <1>5, ArgsFacts, Zenon
  <2>2. Cli!NextIsText(index)
    BY <1>1, <1>5, <2>1, Zenon DEF Cli!value
  <2>3. index + 1 \in 1 .. Len(args) /\ args[index + 1].name = "bare"
    <3>1. index + 1 <= Len(args) /\ args[index + 1].name = "bare"
      BY <2>2, Zenon DEF Cli!NextIsText
    <3>2. QED
      BY <1>i, <3>1
  <2>4. Cli!value(index) = args[index + 1].text /\ args[index + 1].text \notin Cli!Dash \cup {""}
    BY <1>1, <1>5, <2>2, Zenon DEF Cli!value
  <2>5. Cli!TextAt(index) = args[index + 1].text
    BY <1>3, <1>5, Zenon DEF Cli!TextAt
  <2>6. Cli!Opens(index)
    BY <1>1, <1>5, ArgsFacts, Zenon DEF Cli!Opens
  <2>7. Cli!WellPlaced(index)
    BY <2>2, <2>6, PlacedFacts, Zenon
  <2>8. Cli!WellPlaced(index + 1)
    <3> DEFINE k == index + 1
    <3>1. /\ k \in 1 .. Len(args) /\ args[k].name = "bare" /\ k - 1 = index
          /\ Cli!value(index) = args[k].text /\ args[k].text \notin Cli!Dash \cup {""}
      <4>1. k - 1 = index
        BY <1>i
      <4>2. QED
        BY <2>3, <2>4, <4>1, Zenon
    <3> HIDE DEF k
    <3>2. Cli!WellPlaced(k) <=>
            /\ Cli!Opens(k - 1) /\ args[k].text \notin Cli!Dash \cup {""}
            /\ Cli!Converts(Cli!Table(program)[args[k - 1].name], args[k].text)
      BY <3>1, PlacedFacts, Zenon
    <3>3. Cli!WellPlaced(k)
      BY <1>1, <2>6, <3>1, <3>2, Zenon
    <3>4. QED
      BY <3>3, Zenon DEF k
  <2>9. QED
    BY <1>1, <1>2, <1>3, <1>5, <2>3, <2>4, <2>5, <2>7, <2>8, Zenon
<1>6. QED
  BY <1>4, <1>5, Zenon

\* The cursor moves over an option, and over the value after it: the option
\* has the last of its values, the others keep theirs.
LEMMA StoreLast ==
  ASSUME Cli!ParserTypes, index \in 1 .. Len(args), UNCHANGED <<program, args>>,
         \A o \in DOMAIN options : Cli!HasLast(o, {k \in Cli!Before : args[k].name = o}),
         \/ index' = index + 1
         \/ index' = index + 2 /\ args[index + 1].name \notin DOMAIN options,
         args[index].name \in DOMAIN options,
         options' = [options EXCEPT ![args[index].name] = Cli!TextAt(index)],
         NEW o \in DOMAIN options
  PROVE  Cli!HasLast(o, {k \in Cli!Before : args[k].name = o})'
<1> DEFINE Old == {k \in Cli!Before : args[k].name = o}
           New == {k \in 1 .. index' - 1 : args[k].name = o}
<1>1. index \in Nat /\ Cli!Before = 1 .. index - 1 /\ args' = args
  BY ArgsFacts, Zenon DEF Cli!Before
<1>2. Cli!HasLast(o, Old)
  BY Zenon
<1>3. \A k : Cli!TextAt(k)' = Cli!TextAt(k)
  BY ArgsKept, Zenon
<1>4. New = {k \in Cli!Before : args[k].name = o}'
  BY <1>1, Zenon DEF Cli!Before
<1>5. SUFFICES IF New = {} THEN options'[o] = "default"
               ELSE \E k \in New : (\A j \in New : j <= k) /\ options'[o] = Cli!TextAt(k)'
  <2> HIDE DEF New
  <2>1. QED
    BY <1>4, <1>5, Zenon DEF Cli!HasLast
<1>6. CASE o = args[index].name
  <2>1. index \in New /\ options'[o] = Cli!TextAt(index)
    BY <1>1, <1>6
  <2>2. \A j \in New : j <= index
    BY <1>1, <1>6
  <2>3. \E k \in New : (\A j \in New : j <= k) /\ options'[o] = Cli!TextAt(k)'
    BY <1>3, <2>1, <2>2, Zenon
  <2> HIDE DEF New
  <2>4. QED
    BY <2>1, <2>3, Zenon
<1>7. CASE o # args[index].name
  <2>1. New = Old
    <3>1. ASSUME NEW k \in New PROVE k \in Old
      BY <1>1, <1>7
    <3>2. ASSUME NEW k \in Old PROVE k \in New
      BY <1>1
    <3>3. QED
      BY <3>1, <3>2, Zenon
  <2>2. options'[o] = options[o]
    BY <1>7, Zenon
  <2>3. IF Old = {} THEN options[o] = "default"
        ELSE \E k \in Old : (\A j \in Old : j <= k) /\ options[o] = Cli!TextAt(k)
    BY <1>2, Zenon DEF Cli!HasLast
  <2> HIDE DEF New, Old
  <2>4. QED
    BY <1>3, <2>1, <2>2, <2>3, Zenon
<1>8. QED
  BY <1>6, <1>7, Zenon

\* The types, after the option at the cursor is stored.
LEMMA StoreTypes ==
  ASSUME Cli!ParserTypes, UNCHANGED <<program, args>>, index' \in 1 .. Len(args) + 1,
         parse' \in {"parsing", "ok"},
         NEW name \in DOMAIN options, NEW text, options' = [options EXCEPT ![name] = text],
         \/ Cli!Table(program)[name] = "flag" /\ text = "on"
         \/ Cli!Table(program)[name] # "flag" /\ Cli!Converts(Cli!Table(program)[name], text)
  PROVE  Cli!ParserTypes'
<1>1. Cli!Table(program)' = Cli!Table(program) /\ Cli!Arguments(program)' = Cli!Arguments(program)
  BY Zenon
<1>2. DOMAIN options' = DOMAIN options /\ options'[name] = text
  BY Zenon
<1>3. ASSUME NEW o \in DOMAIN options PROVE Cli!Stored(o)'
  <2>1. CASE o = name
    BY <1>1, <1>2, <2>1, Zenon DEF Cli!Stored
  <2>2. CASE o # name
    <3>1. options'[o] = options[o] /\ Cli!Stored(o)
      BY <2>2, Zenon DEF Cli!ParserTypes
    <3>2. QED
      BY <1>1, <3>1, Zenon DEF Cli!Stored
  <2>3. QED
    BY <2>1, <2>2, Zenon
<1>4. QED
  BY <1>1, <1>2, <1>3, Zenon DEF Cli!ParserTypes

\* Which arguments are read, one after the other.
LEMMA ReadFacts ==
  ASSUME Cli!ParserTypes, NEW k \in 1 .. Len(args), k \in Cli!Read
  PROVE  /\ k + 1 \in 1 .. Len(args) =>
              (k + 1 \in Cli!Read <=>
                 (program = "stress_spsc" => ~(Cli!IsFlag(program, args[k]) /\ ~args[k].eq)))
         /\ program = "stress_spsc" /\ Cli!IsFlag(program, args[k]) /\ ~args[k].eq =>
              \A j \in Cli!Read : j <= k
<1>1. /\ DOMAIN args = 1 .. Len(args) /\ Len(args) \in Nat
      /\ k \in Nat
  <2>1. DOMAIN args = 1 .. Len(args) /\ Len(args) \in Nat
    BY ArgsFacts, Zenon
  <2>2. QED
    BY <2>1
<1>2. 1 .. (k + 1) - 1 = 1 .. k /\ 1 .. k = 1 .. k - 1 \cup {k}
  BY <1>1
<1>3. program = "stress_spsc" =>
        \A j \in 1 .. k - 1 : ~(Cli!IsFlag(program, args[j]) /\ ~args[j].eq)
  BY Zenon DEF Cli!Read
<1>4. ASSUME k + 1 \in 1 .. Len(args)
      PROVE  k + 1 \in Cli!Read <=>
                 (program = "stress_spsc" => ~(Cli!IsFlag(program, args[k]) /\ ~args[k].eq))
  <2>1. k + 1 \in Cli!Read <=>
          (program = "stress_spsc" =>
             \A j \in 1 .. (k + 1) - 1 : ~(Cli!IsFlag(program, args[j]) /\ ~args[j].eq))
    BY <1>1, <1>4, Zenon DEF Cli!Read
  <2>2. (\A j \in 1 .. (k + 1) - 1 : ~(Cli!IsFlag(program, args[j]) /\ ~args[j].eq))
          <=> /\ \A j \in 1 .. k - 1 : ~(Cli!IsFlag(program, args[j]) /\ ~args[j].eq)
              /\ ~(Cli!IsFlag(program, args[k]) /\ ~args[k].eq)
    BY <1>2, Zenon
  <2>3. QED
    BY <1>3, <2>1, <2>2, Zenon
<1>5. ASSUME program = "stress_spsc", Cli!IsFlag(program, args[k]), ~args[k].eq, NEW j \in Cli!Read
      PROVE  j <= k
  <2>1. j \in 1 .. Len(args)
        /\ \A n \in 1 .. j - 1 : ~(Cli!IsFlag(program, args[n]) /\ ~args[n].eq)
    BY <1>1, <1>5, Zenon DEF Cli!Read
  <2>2. k \notin 1 .. j - 1
    BY <1>5, <2>1, Zenon
  <2>3. QED
    BY <1>1, <2>1, <2>2
<1>6. QED
  BY <1>4, <1>5, Zenon

\* The cursor at the first argument.
LEMMA ParserInit == ASSUME Cli!Init PROVE Cli!ParserInv
<1>1. /\ program \in Program /\ index = 1 /\ parse = "parsing"
      /\ options = [o \in DOMAIN Cli!Table(program) |-> "default"]
  BY Zenon DEF Cli!Init
<1>2. PICK n \in 0 .. MaxArgs : args \in [1 .. n -> Cli!Arguments(program)]
  BY Zenon DEF Cli!Init
<1>3. n \in Nat
  BY <1>2, ProgramsAssumption
<1>4. args \in Seq(Cli!Arguments(program)) /\ Len(args) = n
  BY <1>2, <1>3
<1>5. Cli!ParserTypes
  <2>1. index \in 1 .. Len(args) + 1
    BY <1>1, <1>3, <1>4
  <2>2. DOMAIN options = DOMAIN Cli!Table(program) /\ \A o \in DOMAIN options : Cli!Stored(o)
    BY <1>1, Zenon DEF Cli!Stored
  <2>3. QED
    BY <1>1, <1>4, <2>1, <2>2, Zenon DEF Cli!ParserTypes
<1>6. Cli!BeforeCursor
  <2>1. Cli!Before = {}
    BY <1>1 DEF Cli!Before
  <2>a. DOMAIN args = 1 .. n
    BY <1>2, Zenon
  <2>2. index <= Len(args) => index \in Cli!Read
    <3>1. index <= Len(args) => index \in DOMAIN args
      BY <1>1, <1>3, <1>4, <2>a
    <3>2. 1 .. index - 1 = {}
      BY <1>1
    <3>3. QED
      BY <3>1, <3>2, Zenon DEF Cli!Read
  <2>3. ~Cli!Opens(index - 1)
    <3>1. index - 1 \notin DOMAIN args
      BY <1>1, <2>a
    <3>2. QED
      BY <3>1, Zenon DEF Cli!Opens
  <2>4. \A o \in DOMAIN options : Cli!HasLast(o, {k \in Cli!Before : args[k].name = o})
    BY <1>1, <2>1, Zenon DEF Cli!HasLast
  <2>5. QED
    BY <2>1, <2>2, <2>3, <2>4, Zenon DEF Cli!BeforeCursor
<1>7. QED
  BY <1>1, <1>5, <1>6, Zenon DEF Cli!ParserInv, Cli!AcceptsExactly, Cli!LastValueWins

\* What is known when the parser looks at an argument.
LEMMA AtArgumentFacts ==
  ASSUME Cli!ParserInv, Cli!AtArgument
  PROVE  /\ Cli!ParserTypes /\ parse = "parsing" /\ index \in 1 .. Len(args) /\ index \in Nat
         /\ Cli!BeforeCursor /\ index \in Cli!Read /\ Len(args) \in Nat
         /\ DOMAIN options = DOMAIN Cli!Table(program) /\ program \in Program
<1>1. Cli!ParserTypes /\ parse = "parsing" /\ index <= Len(args) /\ Cli!BeforeCursor
  BY Zenon DEF Cli!ParserInv, Cli!AtArgument
<1>2. /\ index \in 1 .. Len(args) + 1 /\ program \in Program
      /\ DOMAIN options = DOMAIN Cli!Table(program)
  BY <1>1, Zenon DEF Cli!ParserTypes
<1>3. Len(args) \in Nat /\ index \in Nat
  <2>1. Len(args) \in Nat
    BY <1>1, ArgsFacts, Zenon
  <2>2. QED
    BY <1>2, <2>1
<1>4. index \in Cli!Read
  BY <1>1, Zenon DEF Cli!BeforeCursor
<1>5. QED
  BY <1>1, <1>2, <1>3, <1>4

\* A flag.
LEMMA FlagInv == ASSUME Cli!ParserInv, Cli!Flag PROVE Cli!ParserInv'
<1>1. /\ Cli!IsFlag(program, args[index]) /\ ~args[index].eq
      /\ options' = [options EXCEPT ![args[index].name] = "on"]
      /\ index' = index + 1 /\ program' = program /\ args' = args
      /\ parse' = IF program = "stress_spsc" THEN "ok" ELSE parse
  BY Zenon DEF Cli!Flag
<1>2. /\ Cli!ParserTypes /\ parse = "parsing" /\ index \in 1 .. Len(args) /\ index \in Nat
      /\ Cli!BeforeCursor /\ index \in Cli!Read /\ Len(args) \in Nat
      /\ DOMAIN options = DOMAIN Cli!Table(program) /\ program \in Program
  BY AtArgumentFacts, Zenon DEF Cli!Flag
<1>3. /\ args[index].name \in DOMAIN options /\ Cli!Table(program)[args[index].name] = "flag"
      /\ Cli!TextAt(index) = "on" /\ Cli!WellPlaced(index)
  <2>1. Cli!WellPlaced(index)
    BY <1>1, <1>2, PlacedFacts, Zenon
  <2>2. QED
    BY <1>1, <1>2, <2>1, Zenon DEF Cli!IsFlag, Cli!TextAt
<1>4. Cli!ParserTypes'
  <2>1. index' \in 1 .. Len(args) + 1
    BY <1>1, <1>2
  <2>2. parse' \in {"parsing", "ok"}
    BY <1>1, <1>2, Zenon
  <2>3. QED
    BY <1>1, <1>2, <1>3, <2>1, <2>2, StoreTypes, Zenon
<1>5. /\ Cli!Before' = 1 .. index /\ Cli!Before' = Cli!Before \cup {index}
      /\ index' - 1 = index
  BY <1>1, <1>2 DEF Cli!Before
<1>6. /\ Cli!Read' = Cli!Read /\ Cli!Before' \subseteq Cli!Read
      /\ \A k \in Cli!Before' : Cli!WellPlaced(k)'
  <2>1. Cli!Read' = Cli!Read /\ \A k : Cli!WellPlaced(k)' <=> Cli!WellPlaced(k)
    BY <1>1, ArgsKept, Zenon
  <2>2. Cli!Before \subseteq Cli!Read /\ \A k \in Cli!Before : Cli!WellPlaced(k)
    BY <1>2, Zenon DEF Cli!BeforeCursor
  <2>3. QED
    BY <1>2, <1>3, <1>5, <2>1, <2>2, Zenon
<1>7. ASSUME NEW o \in DOMAIN options
      PROVE  Cli!HasLast(o, {k \in Cli!Before : args[k].name = o})'
  <2>1. \A x \in DOMAIN options : Cli!HasLast(x, {k \in Cli!Before : args[k].name = x})
    BY <1>2, Zenon DEF Cli!BeforeCursor
  <2>2. options' = [options EXCEPT ![args[index].name] = Cli!TextAt(index)]
    BY <1>1, <1>3, Zenon
  <2>3. QED
    BY <1>1, <1>2, <1>3, <2>1, <2>2, StoreLast, Zenon
<1>8. DOMAIN options' = DOMAIN options
  BY <1>1, Zenon
<1>9. CASE program # "stress_spsc"
  <2>1. index' <= Len(args') => index' \in Cli!Read'
    <3>1. DOMAIN args = 1 .. Len(args)
      BY <1>2, ArgsFacts, Zenon
    <3>2. QED
      BY <1>1, <1>2, <1>6, <1>9, <3>1 DEF Cli!Read
  <2>2. ~Cli!Opens(index - 1)'
    <3>1. ~Cli!TakesValue(program, args[index])
      BY <1>1, <1>2, PlacedFacts, Zenon
    <3>2. QED
      BY <1>1, <1>5, <3>1, Zenon DEF Cli!Opens
  <2>3. \A o \in DOMAIN options' : Cli!HasLast(o, {k \in Cli!Before : args[k].name = o})'
    BY <1>7, <1>8, Zenon
  <2>4. Cli!BeforeCursor'
    BY <1>6, <2>1, <2>2, <2>3, Zenon DEF Cli!BeforeCursor
  <2>5. QED
    BY <1>1, <1>2, <1>4, <1>9, <2>4, Zenon DEF Cli!ParserInv, Cli!AcceptsExactly, Cli!LastValueWins
<1>10. CASE program = "stress_spsc"
  <2>1. Cli!Read = 1 .. index
    <3>1. \A j \in Cli!Read : j <= index
      BY <1>1, <1>2, <1>10, ReadFacts, Zenon
    <3>2. Cli!Read \subseteq 1 .. Len(args)
      BY <1>2, ArgsFacts, Zenon DEF Cli!Read
    <3>3. 1 .. index \subseteq Cli!Read
      BY <1>5, <1>6, Zenon
    <3>4. Cli!Read \subseteq 1 .. index
      BY <1>2, <3>1, <3>2
    <3>5. QED
      BY <3>3, <3>4, Zenon
  <2>2. \A k \in Cli!Read' : Cli!WellPlaced(k)'
    BY <1>5, <1>6, <2>1, Zenon
  <2>3. ASSUME NEW o \in DOMAIN options' PROVE Cli!HasLast(o, Cli!Given(o))'
    <3>1. Cli!Given(o)' = {k \in Cli!Before : args[k].name = o}'
      BY <1>5, <1>6, <2>1, Zenon DEF Cli!Given
    <3>2. QED
      BY <1>7, <1>8, <3>1, Zenon DEF Cli!HasLast
  <2>4. QED
    BY <1>1, <1>4, <1>10, <2>2, <2>3, Zenon DEF Cli!ParserInv, Cli!AcceptsExactly, Cli!LastValueWins
<1>11. QED
  BY <1>9, <1>10, Zenon

\* An option and its value.
LEMMA OptionInv == ASSUME Cli!ParserInv, Cli!Option PROVE Cli!ParserInv'
<1>1. /\ Cli!Accepts(index) /\ options' = [options EXCEPT ![args[index].name] = Cli!value(index)]
      /\ index' = IF args[index].eq THEN index + 1 ELSE index + 2
      /\ program' = program /\ args' = args /\ parse' = parse
  BY Zenon DEF Cli!Option, Cli!Store, Cli!After
<1>2. /\ Cli!ParserTypes /\ parse = "parsing" /\ index \in 1 .. Len(args) /\ index \in Nat
      /\ Cli!BeforeCursor /\ index \in Cli!Read /\ Len(args) \in Nat
      /\ DOMAIN options = DOMAIN Cli!Table(program) /\ program \in Program
  BY AtArgumentFacts, Zenon DEF Cli!Option
<1>3. /\ args[index].name \in DOMAIN options /\ Cli!Table(program)[args[index].name] # "flag"
      /\ ~Cli!IsFlag(program, args[index]) /\ Cli!value(index) = Cli!TextAt(index)
      /\ Cli!Converts(Cli!Table(program)[args[index].name], Cli!value(index))
      /\ Cli!WellPlaced(index)
  BY <1>1, <1>2, AcceptsFacts, Zenon
<1>4. ASSUME ~args[index].eq
      PROVE  /\ index + 1 \in 1 .. Len(args) /\ args[index + 1].name = "bare"
             /\ Cli!WellPlaced(index + 1) /\ args[index + 1].name \notin DOMAIN options
             /\ ~Cli!IsFlag(program, args[index + 1]) /\ ~Cli!TakesValue(program, args[index + 1])
  <2>1. /\ index + 1 \in 1 .. Len(args) /\ args[index + 1].name = "bare"
        /\ Cli!WellPlaced(index + 1)
    BY <1>1, <1>2, <1>4, AcceptsFacts, Zenon
  <2>2. args[index + 1].name \notin DOMAIN options
    BY <1>2, <2>1, TableFacts, Zenon
  <2>3. ~Cli!IsFlag(program, args[index + 1]) /\ ~Cli!TakesValue(program, args[index + 1])
    BY <1>2, <2>2, Zenon DEF Cli!IsFlag, Cli!TakesValue
  <2>4. QED
    BY <2>1, <2>2, <2>3, Zenon
<1>5. index' \in 1 .. Len(args) + 1
  BY <1>1, <1>2, <1>4
<1>6. Cli!ParserTypes'
  <2>1. parse' \in {"parsing", "ok"}
    BY <1>1, <1>2, Zenon
  <2>2. QED
    BY <1>1, <1>2, <1>3, <1>5, <2>1, StoreTypes, Zenon
<1>7. \/ index' = index + 1 /\ Cli!Before' = Cli!Before \cup {index}
      \/ ~args[index].eq /\ index' = index + 2 /\ Cli!Before' = Cli!Before \cup {index, index + 1}
  <2>1. CASE args[index].eq
    BY <1>1, <1>2, <2>1 DEF Cli!Before
  <2>2. CASE ~args[index].eq
    BY <1>1, <1>2, <2>2 DEF Cli!Before
  <2>3. QED
    BY <2>1, <2>2, Zenon
<1>8. /\ ~args[index].eq => index + 1 \in Cli!Read
      /\ index' <= Len(args) => index' \in Cli!Read
  <2>1. index + 1 \in 1 .. Len(args) => index + 1 \in Cli!Read
    BY <1>2, <1>3, ReadFacts, Zenon
  <2>2. ASSUME ~args[index].eq, index + 2 <= Len(args) PROVE index + 2 \in Cli!Read
    <3> DEFINE k == index + 1
    <3>1. k \in 1 .. Len(args) /\ k \in Cli!Read /\ ~Cli!IsFlag(program, args[k])
      BY <1>4, <2>1, <2>2, Zenon
    <3>2. k + 1 \in 1 .. Len(args) /\ k + 1 = index + 2
      BY <1>2, <2>2
    <3> HIDE DEF k
    <3>3. k + 1 \in Cli!Read
      BY <1>2, <3>1, <3>2, ReadFacts, Zenon
    <3>4. QED
      BY <3>2, <3>3, Zenon
  <2>3. QED
    BY <1>1, <1>2, <1>4, <2>1, <2>2
<1>9. /\ Cli!Read' = Cli!Read /\ Cli!Before' \subseteq Cli!Read
      /\ \A k \in Cli!Before' : Cli!WellPlaced(k)'
  <2>1. Cli!Read' = Cli!Read /\ \A k : Cli!WellPlaced(k)' <=> Cli!WellPlaced(k)
    BY <1>1, ArgsKept, Zenon
  <2>2. Cli!Before \subseteq Cli!Read /\ \A k \in Cli!Before : Cli!WellPlaced(k)
    BY <1>2, Zenon DEF Cli!BeforeCursor
  <2>3. QED
    BY <1>2, <1>3, <1>4, <1>7, <1>8, <2>1, <2>2, Zenon
<1>10. ~Cli!Opens(index - 1)'
  <2>1. CASE args[index].eq
    <3>1. index' - 1 = index
      BY <1>1, <1>2, <2>1
    <3>2. QED
      BY <1>1, <2>1, <3>1, Zenon DEF Cli!Opens
  <2>2. CASE ~args[index].eq
    <3>1. index' - 1 = index + 1
      BY <1>1, <1>2, <2>2
    <3>2. QED
      BY <1>1, <1>4, <2>2, <3>1, Zenon DEF Cli!Opens
  <2>3. QED
    BY <2>1, <2>2, Zenon
<1>11. \A o \in DOMAIN options' : Cli!HasLast(o, {k \in Cli!Before : args[k].name = o})'
  <2>1. \A x \in DOMAIN options : Cli!HasLast(x, {k \in Cli!Before : args[k].name = x})
    BY <1>2, Zenon DEF Cli!BeforeCursor
  <2>2. options' = [options EXCEPT ![args[index].name] = Cli!TextAt(index)]
    BY <1>1, <1>3, Zenon
  <2>3. \/ index' = index + 1
        \/ index' = index + 2 /\ args[index + 1].name \notin DOMAIN options
    BY <1>4, <1>7, Zenon
  <2>4. ASSUME NEW o \in DOMAIN options
        PROVE  Cli!HasLast(o, {k \in Cli!Before : args[k].name = o})'
    BY <1>1, <1>2, <1>3, <2>1, <2>2, <2>3, StoreLast, Zenon
  <2>5. DOMAIN options' = DOMAIN options
    BY <2>2, Zenon
  <2>6. QED
    BY <2>4, <2>5, Zenon
<1>12. Cli!BeforeCursor'
  BY <1>1, <1>8, <1>9, <1>10, <1>11, Zenon DEF Cli!BeforeCursor
<1>13. QED
  BY <1>1, <1>2, <1>6, <1>12, Zenon DEF Cli!ParserInv, Cli!AcceptsExactly, Cli!LastValueWins

\* An argument the parser refuses is misplaced, or the one after it is.
LEMMA InvalidInv == ASSUME Cli!ParserInv, Cli!Invalid PROVE Cli!ParserInv'
<1>1. /\ ~(Cli!IsFlag(program, args[index]) /\ ~args[index].eq) /\ ~Cli!Accepts(index)
      /\ parse' = "invalid_argument" /\ UNCHANGED <<program, args, index, options>>
  BY Zenon DEF Cli!Invalid
<1>2. /\ Cli!ParserTypes /\ parse = "parsing" /\ index \in 1 .. Len(args) /\ index \in Nat
      /\ Cli!BeforeCursor /\ index \in Cli!Read /\ Len(args) \in Nat
      /\ DOMAIN options = DOMAIN Cli!Table(program) /\ program \in Program
  BY AtArgumentFacts, Zenon DEF Cli!Invalid
<1>3. ASSUME \A k \in Cli!Read : Cli!WellPlaced(k) PROVE FALSE
  <2>1. Cli!WellPlaced(index) /\ ~Cli!Opens(index - 1)
    BY <1>2, <1>3, Zenon DEF Cli!BeforeCursor
  <2>2. args[index].name # "bare"
    BY <1>2, <2>1, PlacedFacts, Zenon
  <2>3. ~Cli!IsFlag(program, args[index])
    BY <1>1, <1>2, <2>1, PlacedFacts, Zenon
  <2>4. Cli!TakesValue(program, args[index])
    BY <1>2, <2>1, <2>2, <2>3, PlacedFacts, Zenon
  <2>5. \/ Cli!value(index) = Cli!NoText
        \/ ~Cli!Converts(Cli!Table(program)[args[index].name], Cli!value(index))
    BY <1>1, <2>4, Zenon DEF Cli!Accepts
  <2>6. CASE args[index].eq
    <3>1. args[index].text # "" /\ Cli!Converts(Cli!Table(program)[args[index].name], args[index].text)
      BY <1>2, <2>1, <2>4, <2>6, PlacedFacts, Zenon
    <3>2. Cli!value(index) = args[index].text
      BY <2>6, <3>1, Zenon DEF Cli!value
    <3>3. args[index].text # Cli!NoText
      BY <1>2, ArgsFacts, Zenon
    <3>4. QED
      BY <2>5, <3>1, <3>2, <3>3, Zenon
  <2>7. CASE ~args[index].eq
    <3> DEFINE k == index + 1
    <3>1. Cli!Opens(index)
      BY <1>2, <2>4, <2>7, ArgsFacts, Zenon DEF Cli!Opens
    <3>2. Cli!NextIsText(index)
      BY <1>2, <2>1, <3>1, PlacedFacts, Zenon
    <3>3. k \in 1 .. Len(args) /\ args[k].name = "bare" /\ k - 1 = index
      <4>1. index + 1 <= Len(args) /\ args[index + 1].name = "bare"
        BY <3>2, Zenon DEF Cli!NextIsText
      <4>2. k \in 1 .. Len(args) /\ k - 1 = index
        BY <1>2, <4>1
      <4>3. QED
        BY <4>1, <4>2, Zenon
    <3>4. Cli!value(index) =
            IF args[k].text = "" \/ args[k].text \in Cli!Dash THEN Cli!NoText ELSE args[k].text
      BY <2>7, <3>2, Zenon DEF Cli!value
    <3>5. k \in Cli!Read
      BY <1>2, <2>3, <3>3, ReadFacts, Zenon
    <3> HIDE DEF k
    <3>6. Cli!WellPlaced(k)
      BY <1>3, <3>5, Zenon
    <3>7. /\ args[k].text \notin Cli!Dash \cup {""}
          /\ Cli!Converts(Cli!Table(program)[args[k - 1].name], args[k].text)
      BY <1>2, <3>3, <3>6, PlacedFacts, Zenon
    <3>8. Cli!value(index) = args[k].text
      BY <3>4, <3>7, Zenon
    <3>9. args[k].text # Cli!NoText
      BY <1>2, <3>3, ArgsFacts, Zenon
    <3>10. QED
      BY <2>5, <3>3, <3>7, <3>8, <3>9, Zenon
  <2>8. QED
    BY <2>6, <2>7, Zenon
<1>4. Cli!ParserTypes'
  <2>1. \A o \in DOMAIN options : Cli!Stored(o)'
    BY <1>1, <1>2, Zenon DEF Cli!Stored, Cli!ParserTypes
  <2>2. QED
    BY <1>1, <1>2, <2>1, Zenon DEF Cli!ParserTypes
<1>5. ~(\A k \in Cli!Read' : Cli!WellPlaced(k)')
  <2>1. Cli!Read' = Cli!Read /\ \A k : Cli!WellPlaced(k)' <=> Cli!WellPlaced(k)
    BY <1>1, ArgsKept, Zenon
  <2>2. QED
    BY <1>3, <2>1, Zenon
<1>6. QED
  BY <1>1, <1>4, <1>5, Zenon DEF Cli!ParserInv, Cli!AcceptsExactly, Cli!LastValueWins

\* The end of the command line.
LEMMA ReturnInv == ASSUME Cli!ParserInv, Cli!Return PROVE Cli!ParserInv'
<1>1. /\ parse = "parsing" /\ index > Len(args) /\ parse' = "ok"
      /\ UNCHANGED <<program, args, index, options>>
  BY Zenon DEF Cli!Return
<1>2. Cli!ParserTypes /\ Cli!BeforeCursor
  BY <1>1, Zenon DEF Cli!ParserInv
<1>3. Cli!Read = Cli!Before
  <2>1. DOMAIN args = 1 .. Len(args) /\ Len(args) \in Nat /\ index \in 1 .. Len(args) + 1
    <3>1. DOMAIN args = 1 .. Len(args) /\ Len(args) \in Nat
      BY <1>2, ArgsFacts, Zenon
    <3>2. QED
      BY <1>2, <3>1, Zenon DEF Cli!ParserTypes
  <2>2. Cli!Before = DOMAIN args
    BY <1>1, <2>1 DEF Cli!Before
  <2>3. Cli!Read \subseteq DOMAIN args /\ Cli!Before \subseteq Cli!Read
    BY <1>2, Zenon DEF Cli!Read, Cli!BeforeCursor
  <2>4. QED
    BY <2>2, <2>3, Zenon
<1>4. Cli!ParserTypes'
  <2>1. \A o \in DOMAIN options : Cli!Stored(o)'
    BY <1>1, <1>2, Zenon DEF Cli!Stored, Cli!ParserTypes
  <2>2. QED
    BY <1>1, <1>2, <2>1, Zenon DEF Cli!ParserTypes
<1>5. \A k \in Cli!Read' : Cli!WellPlaced(k)'
  <2>1. Cli!Read' = Cli!Read /\ \A k : Cli!WellPlaced(k)' <=> Cli!WellPlaced(k)
    BY <1>1, ArgsKept, Zenon
  <2>2. QED
    BY <1>2, <1>3, <2>1, Zenon DEF Cli!BeforeCursor
<1>6. ASSUME NEW o \in DOMAIN options' PROVE Cli!HasLast(o, Cli!Given(o))'
  <2>1. Cli!HasLast(o, {k \in Cli!Before : args[k].name = o})
    BY <1>1, <1>2, Zenon DEF Cli!BeforeCursor
  <2>2. Cli!Given(o) = {k \in Cli!Before : args[k].name = o}
    BY <1>3, Zenon DEF Cli!Given
  <2>3. Cli!Given(o)' = Cli!Given(o) /\ \A k : Cli!TextAt(k)' = Cli!TextAt(k)
    BY <1>1, ArgsKept, Zenon DEF Cli!Given
  <2>4. Cli!HasLast(o, Cli!Given(o))
    BY <2>1, <2>2, Zenon
  <2>5. QED
    BY <1>1, <2>3, <2>4, Zenon DEF Cli!HasLast
<1>7. QED
  BY <1>1, <1>4, <1>5, <1>6, Zenon DEF Cli!ParserInv, Cli!AcceptsExactly, Cli!LastValueWins

\* Every step of the parser.
LEMMA ParserStepInv == ASSUME Cli!ParserInv, Cli!Step PROVE Cli!ParserInv'
BY FlagInv, OptionInv, InvalidInv, ReturnInv, Zenon DEF Cli!Step

\* The parser, while something else is at work.
LEMMA ParserKept == ASSUME Cli!ParserInv, UNCHANGED <<program, args, index, options, parse>> PROVE Cli!ParserInv'
<1>1. /\ Cli!Read' = Cli!Read /\ Cli!Before' = Cli!Before
      /\ \A k : /\ Cli!WellPlaced(k)' <=> Cli!WellPlaced(k)
                /\ Cli!Opens(k)' <=> Cli!Opens(k)
                /\ Cli!TextAt(k)' = Cli!TextAt(k)
  BY ArgsKept, Zenon DEF Cli!Before
<1>2. ASSUME NEW o, NEW S PROVE Cli!HasLast(o, S)' <=> Cli!HasLast(o, S)
  BY <1>1, Zenon DEF Cli!HasLast
<1>3. Cli!ParserTypes'
  <2>1. \A o \in DOMAIN options : Cli!Stored(o)'
    BY Zenon DEF Cli!Stored, Cli!ParserTypes, Cli!ParserInv
  <2>2. QED
    BY <2>1, Zenon DEF Cli!ParserTypes, Cli!ParserInv
<1>4. Cli!AcceptsExactly'
  BY <1>1, Zenon DEF Cli!ParserInv, Cli!AcceptsExactly
<1>5. Cli!LastValueWins'
  <2>1. ASSUME parse = "ok", NEW o \in DOMAIN options PROVE Cli!HasLast(o, Cli!Given(o))'
    <3>1. Cli!Given(o)' = Cli!Given(o)
      BY <1>1, Zenon DEF Cli!Given
    <3>2. Cli!HasLast(o, Cli!Given(o))
      BY <2>1, Zenon DEF Cli!ParserInv, Cli!LastValueWins
    <3>3. QED
      BY <1>1, <3>1, <3>2, Zenon DEF Cli!HasLast
  <2>2. QED
    BY <2>1, Zenon DEF Cli!LastValueWins
<1>6. parse = "parsing" => Cli!BeforeCursor'
  <2>1. ASSUME Cli!BeforeCursor, NEW o \in DOMAIN options
        PROVE  Cli!HasLast(o, {k \in Cli!Before : args[k].name = o})'
    <3>1. {k \in Cli!Before : args[k].name = o}' = {k \in Cli!Before : args[k].name = o}
      BY <1>1, Zenon
    <3>2. Cli!HasLast(o, {k \in Cli!Before : args[k].name = o})
      BY <2>1, Zenon DEF Cli!BeforeCursor
    <3>3. QED
      BY <1>1, <3>1, <3>2, Zenon DEF Cli!HasLast
  <2>2. QED
    BY <1>1, <2>1, Zenon DEF Cli!ParserInv, Cli!BeforeCursor
<1>7. QED
  BY <1>3, <1>4, <1>5, <1>6, Zenon DEF Cli!ParserInv

(***************************************************************************)
(* The programs, put together.                                             *)
(***************************************************************************)

\* The value of an option that is a number.
LEMMA OptionNumber ==
  ASSUME Cli!ParserTypes, NEW o \in DOMAIN Cli!Table(program),
         Cli!Table(program)[o] \in {"u64", "positive", "supported"}
  PROVE  OptionValue(o) \in Nat
<1>1. program \in Program /\ Cli!Stored(o)
  BY Zenon DEF Cli!ParserTypes
<1>2. CASE options[o] = "default"
  BY <1>1, <1>2, NumbersAssumption, Zenon DEF OptionValue
<1>3. CASE options[o] # "default"
  <2>1. options[o] \in Cli!Number
    BY <1>1, <1>3, Zenon DEF Cli!Stored, Cli!Converts, Cli!Number, Cli!Supported
  <2>2. QED
    BY <1>3, <2>1, NumbersAssumption, Zenon DEF OptionValue
<1>4. QED
  BY <1>2, <1>3, Zenon

\* The parser of aether_sub lets only the capacity of the queue through.
LEMMA SubCapacity ==
  ASSUME Cli!ParserTypes, program = "sub"
  PROVE  OptionValue("capacity") = Capacity
<1>1. "capacity" \in DOMAIN Cli!Table("sub") /\ Cli!Table("sub")["capacity"] = "supported"
  BY Zenon DEF Cli!Table, Cli!parse_sub_args
<1>2. program \in Program /\ Cli!Stored("capacity")
  BY <1>1, Zenon DEF Cli!ParserTypes
<1>3. CASE options["capacity"] = "default"
  BY <1>2, <1>3, NumbersAssumption, Zenon DEF OptionValue
<1>4. CASE options["capacity"] # "default"
  <2>1. options["capacity"] \in Cli!Supported
    BY <1>1, <1>2, <1>4, Zenon DEF Cli!Stored, Cli!Converts
  <2>2. QED
    BY <1>4, <2>1, NumbersAssumption, Zenon DEF OptionValue
<1>5. QED
  BY <1>3, <1>4, Zenon

\* A step that leaves the parts alone leaves what they have come to.
LEMMA PartsKept ==
  ASSUME UNCHANGED <<program, options, parse>>
  PROVE  /\ HelpAsked' <=> HelpAsked
         /\ CapacitySupported' <=> CapacitySupported
         /\ UNCHANGED demoVars => /\ BrokerSucceeds' <=> BrokerSucceeds
                                  /\ Demo!Complete' <=> Demo!Complete
         /\ UNCHANGED scanVars => (ReaderSucceeds' <=> ReaderSucceeds)
<1>1. HelpAsked' <=> HelpAsked
  BY Zenon DEF HelpAsked
<1>2. CapacitySupported' <=> CapacitySupported
  BY <1>1, Zenon DEF CapacitySupported, OptionValue
<1>3. ASSUME UNCHANGED demoVars
      PROVE  /\ BrokerSucceeds' <=> BrokerSucceeds
             /\ Demo!Complete' <=> Demo!Complete
  <2>1. UNCHANGED <<role, config, messages, printLimit, step, i, offset, consumed, printed, ioFailed>>
    BY <1>3, Zenon DEF demoVars
  <2>2. Demo!Feasible' <=> Demo!Feasible
    BY <2>1, CallKept, Zenon
  <2>3. Demo!Complete' <=> Demo!Complete
    BY <2>1, Zenon DEF Demo!Complete
  <2>4. BrokerSucceeds' <=> BrokerSucceeds
    BY <2>1, <2>2, Zenon DEF BrokerSucceeds
  <2>5. QED
    BY <2>3, <2>4, Zenon
<1>4. ASSUME UNCHANGED scanVars PROVE ReaderSucceeds' <=> ReaderSucceeds
  <2>1. UNCHANGED <<log, ending, tool, limit, pc, status>>
    BY <1>4, Zenon DEF scanVars
  <2>2. Scan!Readable' <=> Scan!Readable
    BY <2>1, Zenon DEF Scan!Readable
  <2>3. QED
    BY <2>1, <2>2, Zenon DEF ReaderSucceeds
<1>5. QED
  BY <1>1, <1>2, <1>3, <1>4, Zenon

\* The program ends with an exit code that tells what happened.
LEMMA ExitTells ==
  ASSUME UNCHANGED <<program, options, parse, demoVars, scanVars>>, NEW code, exit' = code,
         (code = 2) <=> (parse = "invalid_argument" /\ program # "stress_spsc"),
         code # Aborted =>
           ((code = 0) <=> (parse = "ok" /\ CapacitySupported /\ BrokerSucceeds /\ ReaderSucceeds)),
         code = 0 /\ step # "idle" => Demo!Complete,
         code = 0 /\ step # "idle" /\ pc # "idle" => Len(visited) >= messages
  PROVE  ExitCode'
<1>1. /\ CapacitySupported' <=> CapacitySupported
      /\ BrokerSucceeds' <=> BrokerSucceeds
      /\ Demo!Complete' <=> Demo!Complete
      /\ ReaderSucceeds' <=> ReaderSucceeds
  BY PartsKept, Zenon
<1>2. UNCHANGED <<step, pc, visited, messages>>
  BY Zenon DEF demoVars, scanVars
<1>3. Aborted' = Aborted
  BY Zenon DEF Aborted
<1>4. QED
  BY <1>1, <1>2, <1>3, Zenon DEF ExitCode

\* The command line after the parse.
LEMMA CliKept ==
  ASSUME CliInv, UNCHANGED <<program, options, parse>>, stage' # "parse",
         stage = "parse" => parse # "parsing",
         UNCHANGED <<args, index>> \/ (args' = <<>> /\ index' = 1)
  PROVE  CliInv'
<1>1. CASE program = "client" /\ parse = "ok"
  BY <1>1, Zenon DEF CliInv
<1>2. CASE Cli!ParserTypes /\ (stage # "parse" => parse # "parsing")
  <2>1. args' \in Seq(Cli!Arguments(program)) /\ index' \in 1 .. Len(args') + 1
    <3>1. CASE UNCHANGED <<args, index>>
      BY <1>2, <3>1, Zenon DEF Cli!ParserTypes
    <3>2. CASE args' = <<>> /\ index' = 1
      <4>1. <<>> \in Seq(Cli!Arguments(program)) /\ Len(<<>>) = 0
        OBVIOUS
      <4>2. QED
        BY <3>2, <4>1
    <3>3. QED
      BY <3>1, <3>2, Zenon
  <2>2. \A o \in DOMAIN options : Cli!Stored(o)'
    BY <1>2, Zenon DEF Cli!ParserTypes, Cli!Stored
  <2>3. Cli!ParserTypes'
    BY <1>2, <2>1, <2>2, Zenon DEF Cli!ParserTypes
  <2>4. QED
    BY <1>2, <2>3, Zenon DEF CliInv
<1>3. QED
  BY <1>1, <1>2, Zenon DEF CliInv

\* The first state.
LEMMA ProgramsInit == Init => ProgramsInv
<1> SUFFICES ASSUME Init PROVE ProgramsInv
  BY Zenon
<1>1. Scan!ReaderInv /\ Demo!BrokerInv /\ step = "idle" /\ pc = "idle" /\ config = Demo!NoConfig
      /\ stage = "parse"
  BY ReaderInit, BrokerInit, Zenon DEF Init, Demo!Init, Scan!Init
<1>2. CliInv
  <2>1. CASE ClientInit
    BY <2>1, Zenon DEF ClientInit, CliInv
  <2>2. CASE Cli!Init
    <3>1. Cli!ParserInv
      BY <2>2, ParserInit, Zenon
    <3>2. QED
      BY <1>1, <3>1, Zenon DEF CliInv, Cli!ParserInv
  <2>3. QED
    BY <2>1, <2>2, Zenon DEF Init
<1>3. QED
  BY <1>1, <1>2, Zenon DEF ProgramsInv, StageInv, ExitCode

\* One step of the parser.
LEMMA ParseInv == ASSUME ProgramsInv, Parse PROVE ProgramsInv'
<1>1. /\ stage = "parse" /\ parse = "parsing" /\ Cli!Step
      /\ UNCHANGED <<demoVars, scanVars, stage, exit>>
  BY Zenon DEF Parse
<1>2. Cli!ParserInv
  BY <1>1, Zenon DEF ProgramsInv, CliInv
<1>3. Cli!ParserInv'
  BY <1>1, <1>2, ParserStepInv, Zenon
<1>4. CliInv'
  BY <1>1, <1>3, Zenon DEF CliInv, Cli!ParserInv
<1>5. Scan!ReaderInv' /\ Demo!BrokerInv'
  BY <1>1, ReaderKept, BrokerKept, Zenon DEF ProgramsInv
<1>6. StageInv'
  BY <1>1, Zenon DEF ProgramsInv, StageInv, demoVars, scanVars, Demo!NoConfig
<1>7. QED
  BY <1>1, <1>4, <1>5, <1>6, Zenon DEF ProgramsInv, ExitCode

\* The exits before any work, and of the programs that are one step here.
LEMMA EarlyExitInv ==
  ASSUME ProgramsInv, ParseError \/ Help \/ BenchMain \/ StressMain
  PROVE  ProgramsInv'
<1>1. /\ stage = "parse" /\ stage' = "exited" /\ parse # "parsing"
      /\ UNCHANGED <<program, options, parse, demoVars, scanVars>>
      /\ UNCHANGED <<args, index>> \/ (args' = <<>> /\ index' = 1)
  BY Zenon DEF ParseError, Help, BenchMain, StressMain, Main, Exit, cliVars
<1>2. step = "idle" /\ pc = "idle"
  BY <1>1, Zenon DEF ProgramsInv, StageInv
<1>3. CliInv'
  BY <1>1, CliKept, Zenon DEF ProgramsInv
<1>4. Scan!ReaderInv' /\ Demo!BrokerInv'
  BY <1>1, ReaderKept, BrokerKept, Zenon DEF ProgramsInv
<1>5. StageInv'
  BY <1>1, <1>2, Zenon DEF StageInv, demoVars, scanVars
<1>6. BrokerSucceeds /\ ReaderSucceeds
  BY <1>2, Zenon DEF BrokerSucceeds, ReaderSucceeds
<1>7. exit' # 2 \/ (exit' = 2 /\ parse = "invalid_argument" /\ program # "stress_spsc")
  BY DEF ParseError, Help, BenchMain, StressMain, Main, Exit, Aborted
<1>8. parse = "invalid_argument" /\ program # "stress_spsc" => exit' = 2
  BY Zenon DEF ParseError, Help, BenchMain, StressMain, Main, Exit
<1>9. exit' # Aborted => ((exit' = 0) <=> (parse = "ok" /\ CapacitySupported))
  <2>1. CASE ParseError
    BY <2>1 DEF ParseError, Exit
  <2>2. CASE Help
    BY <2>2, Zenon DEF Help, Exit, CapacitySupported
  <2>3. CASE BenchMain
    BY <2>3, Zenon DEF BenchMain, Main, Exit, CapacitySupported
  <2>4. CASE StressMain
    BY <2>4 DEF StressMain, Main, Exit, CapacitySupported
  <2>5. QED
    BY <2>1, <2>2, <2>3, <2>4, Zenon
<1>10. ExitCode'
  BY <1>1, <1>2, <1>6, <1>7, <1>8, <1>9, ExitTells
<1>11. QED
  BY <1>3, <1>4, <1>5, <1>10, Zenon DEF ProgramsInv

\* The main programs that use a broker.
LEMMA BrokerMainInv ==
  ASSUME ProgramsInv, PubMain \/ SubLocal \/ ClientBroker
  PROVE  ProgramsInv'
<1>1. /\ stage = "parse" /\ parse = "ok" /\ args' = <<>> /\ index' = 1
      /\ UNCHANGED <<program, options, parse>> /\ program \in {"pub", "sub", "client"}
  BY Zenon DEF PubMain, SubLocal, ClientBroker, Main
<1>2. step = "idle" /\ pc = "idle" /\ config = Demo!NoConfig /\ Demo!BrokerInv
  BY <1>1, Zenon DEF ProgramsInv, StageInv
<1>3. program # "client" => Cli!ParserTypes
  BY Zenon DEF ProgramsInv, CliInv
<1>4. /\ stage' = "broker" /\ UNCHANGED <<scanVars, exit>> /\ Demo!BrokerInv' /\ step' # "idle"
      /\ program = "client" => role' \in {"client", "writer"}
  <2>1. CASE PubMain
    <3> DEFINE c == Demo!BrokerConfigOf(OptionValue("wal_size"), options["flush_on_commit"] = "on")
               m == OptionValue("messages")
    <3>1. program = "pub" /\ Demo!Start("pub", c, m, 0) /\ stage' = "broker" /\ UNCHANGED <<scanVars, exit>>
      BY <2>1, Zenon DEF PubMain, Main, Broker
    <3>2. /\ "messages" \in DOMAIN Cli!Table("pub") /\ Cli!Table("pub")["messages"] = "u64"
          /\ "wal_size" \in DOMAIN Cli!Table("pub") /\ Cli!Table("pub")["wal_size"] = "u64"
      BY Zenon DEF Cli!Table, Cli!parse_pub_args
    <3>3. m \in Nat /\ OptionValue("wal_size") \in Nat
      BY <1>3, <3>1, <3>2, OptionNumber, Zenon
    <3>4. c.capacity = Capacity /\ c.path # "" /\ c.enable_wal /\ c.file_size_bytes = OptionValue("wal_size")
      BY Zenon DEF Demo!BrokerConfigOf
    <3> HIDE DEF c, m
    <3>5. c.capacity \in Nat /\ c.file_size_bytes \in Nat
      BY <3>3, <3>4, SizesAssumption, Zenon
    <3>6. Demo!BrokerInv' /\ step' # "idle"
      BY <1>2, <3>1, <3>3, <3>4, <3>5, BrokerStart, Zenon
    <3>7. QED
      BY <3>1, <3>6, Zenon
  <2>2. CASE SubLocal
    <3> DEFINE m == OptionValue("messages")
               l == OptionValue("limit")
    <3>1. program = "sub" /\ Cli!ParserTypes
      BY <1>3, <2>2, Zenon DEF SubLocal, Main
    <3>2. OptionValue("capacity") = Capacity
      BY <3>1, SubCapacity, Zenon
    <3>3. Demo!Start("sub", config, m, l) /\ stage' = "broker" /\ UNCHANGED <<scanVars, exit>>
      BY <2>2, <3>2, Zenon DEF SubLocal, Broker
    <3>4. /\ "messages" \in DOMAIN Cli!Table("sub") /\ Cli!Table("sub")["messages"] = "u64"
          /\ "limit" \in DOMAIN Cli!Table("sub") /\ Cli!Table("sub")["limit"] = "u64"
      BY Zenon DEF Cli!Table, Cli!parse_sub_args
    <3>5. m \in Nat /\ l \in Nat
      BY <3>1, <3>4, OptionNumber, Zenon
    <3>6. config.capacity \in Nat /\ config.file_size_bytes \in Nat
      BY <1>2, Zenon DEF Demo!NoConfig
    <3> HIDE DEF m, l
    <3>7. Demo!BrokerInv' /\ step' # "idle"
      BY <1>2, <3>3, <3>5, <3>6, BrokerStart, Zenon
    <3>8. QED
      BY <3>1, <3>3, <3>7, Zenon
  <2>3. CASE ClientBroker
    <3>1. PICK r \in {"client", "writer"}, c \in BrokerConfig, m \in 0 .. MaxMessages :
            Demo!Start(r, c, m, 0) /\ stage' = "broker" /\ UNCHANGED <<scanVars, exit>>
      BY <2>3, Zenon DEF ClientBroker, Broker
    <3>2. c.capacity \in Nat /\ c.file_size_bytes \in Nat
      BY ProgramsAssumption, Zenon DEF BrokerConfig
    <3>3. m \in Nat
      BY ProgramsAssumption
    <3>4. Demo!BrokerInv' /\ step' # "idle"
      BY <1>2, <3>1, <3>2, <3>3, BrokerStart, Zenon
    <3>5. role' = r
      BY <3>1, Zenon DEF Demo!Start
    <3>6. QED
      BY <3>1, <3>4, <3>5, Zenon
  <2>4. QED
    BY <2>1, <2>2, <2>3, Zenon
<1>5. CliInv'
  BY <1>1, <1>4, CliKept, Zenon DEF ProgramsInv
<1>6. Scan!ReaderInv'
  BY <1>4, ReaderKept, Zenon DEF ProgramsInv
<1>7. StageInv'
  <2>1. CapacitySupported'
    BY <1>1, Zenon DEF CapacitySupported
  <2>2. QED
    BY <1>1, <1>2, <1>4, <2>1, Zenon DEF StageInv, scanVars
<1>8. QED
  BY <1>4, <1>5, <1>6, <1>7, Zenon DEF ProgramsInv, ExitCode

\* A log of the records of one type.
LEMMA LogsKind == \A lg \in Scan!Logs : lg \in Seq(Scan!Kind)
BY ProgramsAssumption DEF Scan!Logs

\* The main programs that read a log.
LEMMA ReaderMainInv ==
  ASSUME ProgramsInv, SubReplay \/ ReplayMain \/ InspectMain \/ ClientReplay
  PROVE  ProgramsInv'
<1>1. /\ stage = "parse" /\ parse = "ok" /\ args' = <<>> /\ index' = 1
      /\ UNCHANGED <<program, options, parse>>
      /\ program \in {"sub", "replay", "inspect_wal", "client"}
  BY Zenon DEF SubReplay, ReplayMain, InspectMain, ClientReplay, Main
<1>2. step = "idle" /\ pc = "idle" /\ config = Demo!NoConfig /\ Scan!ReaderInv
  BY <1>1, Zenon DEF ProgramsInv, StageInv
<1>3. PICK t \in {"typed", "scan"}, l \in Nat : Reader(t, l)
  <2>1. CASE SubReplay \/ ClientReplay
    BY <2>1, Zenon DEF SubReplay, ClientReplay
  <2>2. CASE ReplayMain \/ InspectMain
    <3>1. program \in {"replay", "inspect_wal"} /\ Reader("scan", OptionValue("limit"))
      BY <2>2, Zenon DEF ReplayMain, InspectMain, Main
    <3>2. "limit" \in DOMAIN Cli!Table(program) /\ Cli!Table(program)["limit"] = "u64"
      BY <3>1, Zenon DEF Cli!Table, Cli!parse_replay_args, Cli!parse_inspect_wal_args
    <3>3. OptionValue("limit") \in Nat
      <4>1. Cli!ParserTypes
        BY <3>1, Zenon DEF ProgramsInv, CliInv
      <4>2. QED
        BY <3>2, <4>1, OptionNumber, Zenon
    <3>4. QED
      BY <3>1, <3>3, Zenon
  <2>3. QED
    BY <2>1, <2>2, Zenon
<1>4. PICK lg \in Scan!Logs, e \in {"empty", "corrupted"} : Scan!Call(t, l, lg, e)
  BY <1>3, Zenon DEF Reader
<1>5. stage' = "reader" /\ UNCHANGED <<demoVars, exit>> /\ pc' = "open"
  BY <1>3, <1>4, Zenon DEF Reader, Scan!Call
<1>6. Scan!ReaderInv'
  BY <1>2, <1>3, <1>4, LogsKind, ReaderCall, Zenon
<1>7. CliInv'
  BY <1>1, <1>5, CliKept, Zenon DEF ProgramsInv
<1>8. Demo!BrokerInv'
  BY <1>5, BrokerKept, Zenon DEF ProgramsInv
<1>9. StageInv'
  <2>1. CapacitySupported'
    BY <1>1, Zenon DEF CapacitySupported
  <2>2. step' = "idle"
    BY <1>2, <1>5, Zenon DEF demoVars
  <2>3. QED
    BY <1>1, <1>5, <2>1, <2>2, Zenon DEF StageInv
<1>10. QED
  BY <1>5, <1>6, <1>7, <1>8, <1>9, Zenon DEF ProgramsInv, ExitCode

\* The broker and the reader at work.
LEMMA WorkInv ==
  ASSUME ProgramsInv, BrokerStep \/ ReaderStep \/ ClientVisitor
  PROVE  ProgramsInv'
<1>1. UNCHANGED <<cliVars, stage, exit>> /\ stage \in {"broker", "reader"} /\ stage' = stage
  BY Zenon DEF BrokerStep, ReaderStep, ClientVisitor
<1>2. CliInv'
  <2>1. UNCHANGED <<program, options, parse, args, index>>
    BY <1>1, Zenon DEF cliVars
  <2>2. stage' # "parse" /\ stage # "parse"
    BY <1>1, Zenon
  <2>3. QED
    BY <2>1, <2>2, CliKept, Zenon DEF ProgramsInv
<1>3. parse' = "ok" /\ CapacitySupported' /\ program' = program
  <2>1. UNCHANGED <<program, options, parse>> /\ parse = "ok" /\ CapacitySupported
    BY <1>1, Zenon DEF cliVars, ProgramsInv, StageInv
  <2>2. QED
    BY <2>1, PartsKept, Zenon
<1>4. CASE BrokerStep
  <2>1. stage = "broker" /\ Demo!Step /\ UNCHANGED scanVars
    BY <1>4, Zenon DEF BrokerStep
  <2>2. Demo!BrokerInv' /\ step' # "idle"
    BY <2>1, BrokerStepInv, Zenon DEF ProgramsInv
  <2>3. Scan!ReaderInv'
    BY <2>1, ReaderKept, Zenon DEF ProgramsInv
  <2>4. role' = role
    BY <2>1, Zenon DEF Demo!Step, Demo!Prepare, Demo!Open, Demo!OpenFails, Demo!Publish, Demo!PublishFails,
                Demo!Published, Demo!Consume, Demo!Consumed, Demo!Flush, Demo!callVars
  <2>5. StageInv'
    BY <1>1, <1>3, <2>1, <2>2, <2>4, Zenon DEF ProgramsInv, StageInv, scanVars
  <2>6. QED
    BY <1>1, <1>2, <2>1, <2>2, <2>3, <2>5, Zenon DEF ProgramsInv, ExitCode
<1>5. CASE ReaderStep \/ ClientVisitor
  <2>1. /\ stage = "reader" /\ UNCHANGED demoVars
        /\ Scan!Step \/ Scan!VisitorFails \/ Scan!VisitorThrows
    BY <1>5, Zenon DEF ReaderStep, ClientVisitor
  <2>2. Scan!ReaderInv'
    BY <2>1, ReaderStepInv, Zenon DEF ProgramsInv
  <2>3. Demo!BrokerInv'
    BY <2>1, BrokerKept, Zenon DEF ProgramsInv
  <2>4. limit' = limit /\ pc' # "idle" /\ Len(log) <= Len(log') /\ Len(log) \in Nat /\ Len(log') \in Nat
    <3>1. CASE \E k \in Scan!Kind : Scan!WriterAppends(k)
      <4>1. PICK k \in Scan!Kind : Scan!WriterAppends(k)
        BY <3>1, Zenon
      <4>2. log' = Append(log, k) /\ limit' = limit /\ pc' = pc /\ pc # "idle"
        BY <4>1, Zenon DEF Scan!WriterAppends, Scan!readerVars
      <4>3. log \in Seq(Scan!Kind)
        BY ReaderNumbers, Zenon DEF ProgramsInv
      <4>4. Len(log) \in Nat /\ Len(log') = Len(log) + 1
        BY <4>2, <4>3, SeqGrows, Zenon
      <4>5. QED
        BY <4>2, <4>4
    <3>2. CASE ~\E k \in Scan!Kind : Scan!WriterAppends(k)
      <4>1. log' = log /\ limit' = limit /\ pc' # "idle"
        BY <2>1, <3>2, Zenon DEF Scan!Step, Scan!OpenFails, Scan!OpenOk, Scan!NextRecord, Scan!ReplayEnds,
             Scan!ReplayReturns, Scan!ReplayChecked, Scan!ScanRecord, Scan!ScanEnds, Scan!LimitReached, Scan!WrongSize, Scan!VisitOk,
             Scan!VisitorFails, Scan!VisitorThrows, Scan!LambdaFails, Scan!End
      <4>2. Len(log) \in Nat
        BY ReaderNumbers, Zenon DEF ProgramsInv
      <4>3. QED
        BY <4>1, <4>2
    <3>3. QED
      BY <3>1, <3>2, Zenon
  <2>5. /\ step' = step /\ result' = result /\ messages' = messages
        /\ step = "idle" \/ (step = "done" /\ result = "ok")
        /\ step # "idle" => limit = 0 /\ messages <= Len(log)
    BY <2>1, Zenon DEF demoVars, ProgramsInv, StageInv
  <2>6. step' # "idle" => limit' = 0 /\ messages' <= Len(log')
    <3>1. ASSUME step # "idle" PROVE messages \in Nat
      BY <3>1, Zenon DEF ProgramsInv, Demo!BrokerInv, Demo!BrokerCall
    <3>2. QED
      BY <2>4, <2>5, <3>1
  <2>7. StageInv'
    BY <1>1, <1>3, <2>1, <2>4, <2>5, <2>6, Zenon DEF StageInv
  <2>8. QED
    BY <1>1, <1>2, <2>1, <2>2, <2>3, <2>7, Zenon DEF ProgramsInv, ExitCode
<1>6. QED
  BY <1>4, <1>5, Zenon

\* A file of m records of r cells holds m records.
LEMMA Quotient == ASSUME NEW m \in Nat, NEW r \in Nat, r > 0 PROVE (m * r) \div r = m
<1>1. m * r \in Nat /\ (m * r) \div r \in Nat
  OBVIOUS
<1>2. r * ((m * r) \div r) <= m * r /\ m * r < r * ((m * r) \div r) + r
  BY <1>1
<1> DEFINE q == (m * r) \div r
<1>3. q \in Nat /\ r * q <= m * r /\ m * r < r * q + r
  BY <1>1, <1>2, Zenon
<1> HIDE DEF q
<1>4. q * r = r * q /\ q * r \in Nat /\ m * r \in Nat
  BY <1>3
<1>5. ~(q < m)
  <2>1. q < m => q * r + r <= m * r
    BY <1>3, Products, Zenon
  <2>2. QED
    BY <1>3, <1>4, <2>1
<1>6. ~(m < q)
  <2>1. m < q => m * r + r <= q * r
    BY <1>3, Products, Zenon
  <2>2. QED
    BY <1>3, <1>4, <2>1
<1>7. q = m
  BY <1>3, <1>5, <1>6
<1>8. QED
  BY <1>7, Zenon DEF q

\* The broker's program ends.
LEMMA BrokerExitsInv == ASSUME ProgramsInv, BrokerExits PROVE ProgramsInv'
<1>1. /\ stage = "broker" /\ step = "done" /\ stage' = "exited"
      /\ exit' = CASE result = "ok" -> 0 [] result = "error" -> 1 [] result = "exception" -> Aborted
      /\ UNCHANGED <<cliVars, demoVars, scanVars>>
      /\ UNCHANGED <<program, options, parse, args, index>>
  BY Zenon DEF BrokerExits, Exit, cliVars
<1>2. /\ parse = "ok" /\ CapacitySupported /\ pc = "idle" /\ step # "idle"
  BY <1>1, Zenon DEF ProgramsInv, StageInv
<1>3. /\ result \in {"ok", "error", "exception"}
      /\ (result = "ok") <=> (Demo!Feasible /\ ~ioFailed)
      /\ result = "ok" => Demo!Complete
  BY <1>1, Zenon DEF ProgramsInv, Demo!BrokerInv, Demo!Judged
<1>4. CliInv' /\ Scan!ReaderInv' /\ Demo!BrokerInv'
  BY <1>1, CliKept, ReaderKept, BrokerKept, Zenon DEF ProgramsInv
<1>5. StageInv'
  BY <1>1, <1>2, Zenon DEF StageInv, demoVars, scanVars
<1>6. ReaderSucceeds /\ (BrokerSucceeds <=> result = "ok")
  BY <1>2, <1>3, Zenon DEF ReaderSucceeds, BrokerSucceeds
<1>7. /\ exit' \in {0, 1, 134} /\ ((exit' = 0) <=> (result = "ok"))
  BY <1>1, <1>3 DEF Aborted
<1>8. ExitCode'
  <2>1. ~(exit' = 2) /\ parse # "invalid_argument"
    BY <1>2, <1>7
  <2>2. QED
    BY <1>1, <1>2, <1>3, <1>6, <1>7, <2>1, ExitTells, Zenon
<1>9. QED
  BY <1>4, <1>5, <1>8, Zenon DEF ProgramsInv

\* The reader's program ends.
LEMMA ReaderExitsInv == ASSUME ProgramsInv, ReaderExits PROVE ProgramsInv'
<1>1. /\ stage = "reader" /\ pc = "done" /\ stage' = "exited"
      /\ \/ exit' = CASE status = "ok" -> 0 [] status = "exception" -> Aborted [] OTHER -> 1
         \/ exit' = Aborted
      /\ UNCHANGED <<cliVars, demoVars, scanVars>>
      /\ UNCHANGED <<program, options, parse, args, index>>
  BY Zenon DEF ReaderExits, Exit, cliVars
<1>2. /\ parse = "ok" /\ CapacitySupported
      /\ step = "idle" \/ (step = "done" /\ result = "ok")
      /\ step # "idle" => limit = 0 /\ messages <= Len(log)
  BY <1>1, Zenon DEF ProgramsInv, StageInv
<1>3. BrokerSucceeds /\ (step # "idle" => Demo!Complete)
  <2>1. step = "done" /\ result = "ok" => Demo!Feasible /\ ~ioFailed /\ Demo!Complete
    BY Zenon DEF ProgramsInv, Demo!BrokerInv, Demo!Judged
  <2>2. QED
    BY <1>2, <2>1, Zenon DEF BrokerSucceeds
<1>4. /\ status \in {"ok", "open_error", "corrupted", "wrong_size", "visitor", "exception"}
      /\ status = "ok" => visited = log \/ limit # 0
      /\ status \in {"ok", "corrupted", "wrong_size"} => ((status = "ok") <=> Scan!Readable)
  BY <1>1, Zenon DEF ProgramsInv, Scan!ReaderInv, Scan!Verdict
<1>5. ReaderSucceeds <=> status = "ok"
  BY <1>1, <1>4, Zenon DEF ReaderSucceeds
<1>6. CliInv' /\ Scan!ReaderInv' /\ Demo!BrokerInv'
  BY <1>1, CliKept, ReaderKept, BrokerKept, Zenon DEF ProgramsInv
<1>7. StageInv'
  BY <1>1, <1>2, Zenon DEF StageInv, demoVars, scanVars
<1>8. /\ exit' \in {0, 1, 134}
      /\ exit' # 134 => ((exit' = 0) <=> (status = "ok"))
      /\ exit' = 0 => status = "ok"
  BY <1>1, <1>4 DEF Aborted
<1>9. exit' = 0 /\ step # "idle" => Len(visited) >= messages
  <2>1. ASSUME exit' = 0, step # "idle" PROVE visited = log /\ messages <= Len(log)
    BY <1>2, <1>4, <1>8, <2>1, Zenon
  <2>2. ASSUME step # "idle" PROVE messages \in Nat
    BY <2>2, Zenon DEF ProgramsInv, Demo!BrokerInv, Demo!BrokerCall
  <2>3. Len(log) \in Nat
    BY ReaderNumbers, Zenon DEF ProgramsInv
  <2>4. QED
    BY <2>1, <2>2, <2>3, Zenon
<1>10. ExitCode'
  <2>1. ~(exit' = 2) /\ parse # "invalid_argument"
    BY <1>2, <1>8
  <2>2. exit' # Aborted =>
          ((exit' = 0) <=> (parse = "ok" /\ CapacitySupported /\ BrokerSucceeds /\ ReaderSucceeds))
    BY <1>2, <1>3, <1>5, <1>8, Zenon DEF Aborted
  <2>3. QED
    BY <1>1, <1>3, <1>9, <2>1, <2>2, ExitTells, Zenon
<1>11. QED
  BY <1>6, <1>7, <1>10, Zenon DEF ProgramsInv

\* An example replays the log that it has written.
LEMMA OwnLogInv == ASSUME ProgramsInv, ClientReplaysOwnLog PROVE ProgramsInv'
<1> DEFINE lg == [k \in 1 .. offset \div (Header + Payload) |-> "fits"]
<1>1. /\ stage = "broker" /\ step = "done" /\ program = "client" /\ result = "ok"
      /\ stage' = "reader" /\ UNCHANGED <<cliVars, demoVars, exit>>
      /\ UNCHANGED <<program, options, parse, args, index>>
  BY Zenon DEF ClientReplaysOwnLog, cliVars
<1>2. PICK t \in {"typed", "scan"} : Scan!Call(t, 0, lg, "empty")
  BY Zenon DEF ClientReplaysOwnLog
<1>3. /\ parse = "ok" /\ CapacitySupported /\ role \in {"client", "writer"}
  BY <1>1, Zenon DEF ProgramsInv, StageInv
<1>4. Demo!Complete /\ messages \in Nat
  BY <1>1, Zenon DEF ProgramsInv, Demo!BrokerInv, Demo!Judged, Demo!BrokerCall
<1>5. offset = messages * (Header + Payload)
  BY <1>3, <1>4, Zenon DEF Demo!Complete, Demo!Record
<1>6. offset \div (Header + Payload) = messages
  <2>1. Header + Payload \in Nat /\ Header + Payload > 0
    BY SizesAssumption
  <2>2. QED
    BY <1>4, <1>5, <2>1, Quotient, Zenon
<1>7. lg \in Seq(Scan!Kind) /\ Len(lg) = messages
  BY <1>4, <1>6 DEF Scan!Kind
<1> HIDE DEF lg
<1>8. Scan!ReaderInv'
  BY <1>2, <1>7, ReaderCall, Zenon DEF ProgramsInv
<1>9. pc' = "open" /\ limit' = 0 /\ log' = lg
  BY <1>2, Zenon DEF Scan!Call
<1>10. CliInv' /\ Demo!BrokerInv'
  BY <1>1, CliKept, BrokerKept, Zenon DEF ProgramsInv
<1>11. StageInv'
  <2>1. CapacitySupported'
    BY <1>1, <1>3, PartsKept, Zenon
  <2>2. step' = "done" /\ result' = "ok" /\ messages' = messages
    BY <1>1, Zenon DEF demoVars
  <2>3. QED
    BY <1>1, <1>3, <1>4, <1>7, <1>9, <2>1, <2>2 DEF StageInv
<1>12. QED
  BY <1>1, <1>8, <1>10, <1>11, Zenon DEF ProgramsInv, ExitCode

\* A step that changes nothing.
LEMMA ProgramsStutter == ASSUME ProgramsInv, UNCHANGED vars PROVE ProgramsInv'
<1>1. UNCHANGED <<cliVars, demoVars, scanVars, stage, exit, program, args, index, options, parse>>
  BY Zenon DEF vars, cliVars
<1>2. Scan!ReaderInv' /\ Demo!BrokerInv'
  BY <1>1, ReaderKept, BrokerKept, Zenon DEF ProgramsInv
<1>3. StageInv'
  <2>1. CapacitySupported' <=> CapacitySupported
    BY <1>1, PartsKept, Zenon
  <2>2. QED
    BY <1>1, <2>1, Zenon DEF ProgramsInv, StageInv, demoVars, scanVars, Demo!NoConfig
<1>4. CASE stage # "parse"
  <2>1. CliInv'
    BY <1>1, <1>4, CliKept, Zenon DEF ProgramsInv
  <2>2. ExitCode'
    <3>1. CASE stage = "exited"
      BY <1>1, <3>1, ExitTells, Zenon DEF ProgramsInv, ExitCode
    <3>2. CASE stage # "exited"
      BY <1>1, <3>2, Zenon DEF ExitCode
    <3>3. QED
      BY <3>1, <3>2, Zenon
  <2>3. QED
    BY <1>2, <1>3, <2>1, <2>2, Zenon DEF ProgramsInv
<1>5. CASE stage = "parse"
  <2>1. CliInv'
    <3>1. CASE program = "client" /\ parse = "ok"
      BY <1>1, <3>1, Zenon DEF CliInv
    <3>2. CASE Cli!ParserInv
      <4>1. Cli!ParserInv'
        BY <1>1, <3>2, ParserKept, Zenon
      <4>2. QED
        BY <1>1, <1>5, <4>1, Zenon DEF CliInv, Cli!ParserInv
    <3>3. QED
      BY <1>5, <3>1, <3>2, Zenon DEF ProgramsInv, CliInv
  <2>2. QED
    BY <1>1, <1>2, <1>3, <1>5, <2>1, Zenon DEF ProgramsInv, ExitCode
<1>6. QED
  BY <1>4, <1>5, Zenon

(***************************************************************************)
(* The inductive invariant of the programs: the one of the reader, of the  *)
(* publishing and consuming part and of the parser, which part of main()   *)
(* is at work, and what the exit code tells.                               *)
(***************************************************************************)
THEOREM ProgramsInvariant == Spec => []ProgramsInv
<1>1. ASSUME ProgramsInv, [Next]_vars PROVE ProgramsInv'
  BY <1>1, ParseInv, EarlyExitInv, BrokerMainInv, ReaderMainInv, WorkInv, BrokerExitsInv,
     OwnLogInv, ReaderExitsInv, ProgramsStutter, Zenon DEF Next, Exited
<1>2. QED
  BY <1>1, ProgramsInit, PTL DEF Spec

(***************************************************************************)
(* The parser of a program accepts exactly the command lines in which      *)
(* every argument it reads is well placed, and then every option holds the *)
(* last value given for it, or its default (ArgCursor::value moves the     *)
(* index of the parser that calls it).                                     *)
(***************************************************************************)
THEOREM CommandLines == Spec => []ParsesExactly
<1>1. ProgramsInv => ParsesExactly
  BY Zenon DEF ProgramsInv, CliInv, Cli!ParserInv, ParsesExactly
<1>2. QED
  BY <1>1, ProgramsInvariant, PTL

(***************************************************************************)
(* A replay of typed records that returns has counted one recovery failure *)
(* if its status is an error and none if it is ok, whichever of the places *)
(* that count found it: the test after WalReader::replay counts exactly    *)
(* the failures that the lambda has not counted.                           *)
(***************************************************************************)
THEOREM FailuresCounted == Spec => []FailureCountedOnce
<1>1. ProgramsInv => FailureCountedOnce
  BY Zenon DEF ProgramsInv, Scan!ReaderInv, Scan!Verdict, FailureCountedOnce, Scan!FailureCountedOnce
<1>2. QED
  BY <1>1, ProgramsInvariant, PTL

(***************************************************************************)
(* The visitor of a replay has seen a prefix of the log, the typed one     *)
(* only payloads of its size, and the number of recovered records is the   *)
(* number of visits that succeeded.                                        *)
(***************************************************************************)
THEOREM VisitorSeesPrefix == Spec => []VisitsPrefix
<1>1. ASSUME ProgramsInv PROVE VisitsPrefix
  <2>1. Len(visited) <= Len(log) /\ \A k \in 1 .. Len(visited) : visited[k] = log[k]
    BY <1>1, Zenon DEF ProgramsInv, Scan!ReaderInv, Scan!Progress
  <2>2. /\ Len(log) \in Nat /\ Len(visited) \in Nat
        /\ log \in Seq(Scan!Kind) /\ visited \in Seq(Scan!Kind)
    BY <1>1, ReaderNumbers, Zenon DEF ProgramsInv
  <2>3. visited = SubSeq(log, 1, Len(visited)) /\ Len(visited) \in 0 .. Len(log)
    <3>1. /\ SubSeq(log, 1, Len(visited)) \in Seq(Scan!Kind)
          /\ Len(SubSeq(log, 1, Len(visited))) = Len(visited)
          /\ \A k \in 1 .. Len(visited) : SubSeq(log, 1, Len(visited))[k] = log[k]
      BY <2>1, <2>2
    <3>2. visited = SubSeq(log, 1, Len(visited))
      BY <2>1, <2>2, <3>1, SameSeq, Zenon
    <3>3. QED
      BY <2>1, <2>2, <3>2
  <2>4. tool = "typed" => \A k \in DOMAIN visited : visited[k] = "fits"
    <3>1. tool = "typed" => \A k \in 1 .. Len(visited) : visited[k] = "fits"
      BY <1>1, Zenon DEF ProgramsInv, Scan!ReaderInv, Scan!Progress
    <3>2. QED
      BY <2>2, <3>1
  <2>5. recovered = Len(visited) - (IF status \in {"visitor", "exception"} THEN 1 ELSE 0)
    <3>1. CASE pc \in {"returned", "done"}
      BY <1>1, <3>1, Zenon DEF ProgramsInv, Scan!ReaderInv, Scan!Verdict
    <3>2. CASE pc \notin {"returned", "done"}
      <4>1. status = "running" /\ recovered = Len(visited)
        BY <1>1, <3>2, Zenon DEF ProgramsInv, Scan!ReaderInv, Scan!Progress
      <4>2. QED
        BY <2>2, <4>1
    <3>3. QED
      BY <3>1, <3>2, Zenon
  <2>6. QED
    BY <2>3, <2>4, <2>5, Zenon DEF VisitsPrefix, Scan!VisitsPrefix
<1>2. QED
  BY <1>1, ProgramsInvariant, PTL

(***************************************************************************)
(* Unless an exception nobody catches ends it, a program exits with 0      *)
(* exactly if the command line was accepted, what it asks for was          *)
(* feasible, the log was readable, and neither the system nor a visitor    *)
(* refused anything; and then all messages were published and consumed,    *)
(* and all came back if the program replays its own log. It exits with 2   *)
(* exactly for a bad command line.                                         *)
(***************************************************************************)
THEOREM ExitCodeTells == Spec => []ExitCode
<1>1. ProgramsInv => ExitCode
  BY Zenon DEF ProgramsInv
<1>2. QED
  BY <1>1, ProgramsInvariant, PTL

(***************************************************************************)
(* A replay or scan that becomes ok has visited all records the log holds  *)
(* at that step, or as many as the limit lets through.                     *)
(***************************************************************************)
THEOREM OkLeavesNothingOut == Spec => OkIsComplete
<1>1. ASSUME ProgramsInv', [Next]_vars, status # "ok", status' = "ok"
      PROVE  visited = log \/ (limit # 0 /\ recovered = limit)
  <2>1. ReaderStep
    <3>1. ~UNCHANGED scanVars
      BY <1>1, Zenon DEF scanVars
    <3>2. ~(SubReplay \/ ReplayMain \/ InspectMain \/ ClientReplay \/ ClientReplaysOwnLog)
      BY <1>1, Zenon DEF SubReplay, ReplayMain, InspectMain, ClientReplay, ClientReplaysOwnLog, Reader,
                  Scan!Call
    <3>3. ~ClientVisitor
      BY <1>1, Zenon DEF ClientVisitor, Scan!VisitorFails, Scan!VisitorThrows, Scan!LambdaFails,
                  Scan!ReplayReturns, Scan!End
    <3>4. QED
      BY <1>1, <3>1, <3>2, <3>3, Zenon
         DEF Next, vars, Parse, ParseError, Help, PubMain, SubLocal, BenchMain, StressMain,
             ClientBroker, Broker, BrokerStep, BrokerExits, ReaderExits, Exited
  <2>2. Scan!ReplayEnds \/ Scan!ScanEnds \/ Scan!LimitReached
    BY <1>1, <2>1, Zenon DEF ReaderStep, Scan!Step, Scan!WriterAppends, Scan!readerVars, Scan!OpenFails,
         Scan!OpenOk, Scan!NextRecord, Scan!ScanRecord, Scan!WrongSize, Scan!VisitOk,
         Scan!ReplayChecked, Scan!LambdaFails, Scan!ReplayReturns, Scan!End
  <2>3. pc' \in {"returned", "done"} /\ UNCHANGED <<log, visited, limit, recovered>>
    BY <2>2, Zenon DEF Scan!ReplayEnds, Scan!ReplayReturns, Scan!ScanEnds, Scan!LimitReached, Scan!End
  <2>4. visited' = log' \/ (limit' # 0 /\ recovered' = limit')
    BY <1>1, <2>3, Zenon DEF ProgramsInv, Scan!ReaderInv, Scan!Verdict
  <2>5. QED
    BY <2>3, <2>4, Zenon
<1>2. ASSUME ProgramsInv', [Next]_vars
      PROVE  [status # "ok" /\ status' = "ok" =>
                visited = log \/ (limit # 0 /\ recovered = limit)]_(Scan!vars)
  BY <1>1, <1>2, Zenon
<1>3. QED
  BY <1>2, ProgramsInvariant, PTL DEF Spec, OkIsComplete, Scan!OkIsComplete

===============================================================================
