---------------------------- MODULE DurableLog ----------------------------
(***************************************************************************)
(* What the write-ahead log promises a publisher.  acked is the sequence   *)
(* of records whose append returned ok, stored the sequence a replay of    *)
(* the file would return now, synced how many acknowledged records a       *)
(* successful flush has covered, tried the records appended at the current *)
(* offset and not acknowledged.                                            *)
(*                                                                         *)
(* A replay returns the acknowledged records in order and at most one      *)
(* unacknowledged record after them; an end of the writer, whatever its    *)
(* cause, costs at most acknowledged records no flush has covered, and     *)
(* only from the end.                                                      *)
(*                                                                         *)
(* An append that fails after its bytes are in the file may leave the log  *)
(* garbled: nothing acknowledged is lost, but what a replay returns after  *)
(* it is then anything, until a new log replaces this one.                 *)
(***************************************************************************)
EXTENDS Naturals, Sequences

CONSTANT Record

VARIABLES acked, stored, synced, tried, garbled, up

logVars == <<acked, stored, synced, tried, garbled, up>>

\* Every variable has its type.
LogTypeOK ==
  /\ acked \in Seq(Record)
  /\ stored \in Seq(Record)
  /\ synced \in 0 .. Len(acked)
  /\ tried \in SUBSET Record
  /\ garbled \in BOOLEAN /\ up \in BOOLEAN

LogInit ==
  /\ acked = <<>> /\ stored = <<>>
  /\ synced = 0
  /\ tried = {}
  /\ garbled = FALSE /\ up = FALSE

\* t starts with s.
Begins(s, t) == \E n \in 0 .. Len(t) : s = SubSeq(t, 1, n)

\* A new log replaces the old one, with everything in it, also when the
\* attempt to make it fails halfway and there is no writer.
New ==
  /\ ~up
  /\ acked' = <<>> /\ stored' = <<>>
  /\ synced' = 0
  /\ tried' = {}
  /\ garbled' = FALSE
  /\ up' \in BOOLEAN

Try(r) ==
  /\ up
  /\ tried' = tried \cup {r}
  /\ UNCHANGED <<acked, stored, synced, garbled, up>>

\* The bytes at the current offset change: what was left there by a failed
\* append goes, or the record being appended is complete.
Write ==
  /\ up
  /\ stored' \in {acked} \cup {Append(acked, r) : r \in tried}
  /\ UNCHANGED <<acked, synced, tried, garbled, up>>

Acknowledge ==
  /\ up
  /\ stored # acked
  /\ acked' = stored
  /\ synced' \in {synced, Len(acked')}
  /\ tried' = {}
  /\ UNCHANGED <<stored, garbled, up>>

\* An append fails with its bytes in the file.
Garble ==
  /\ up /\ tried # {}
  /\ garbled' = TRUE
  /\ UNCHANGED <<acked, stored, synced, tried, up>>

Sync ==
  /\ up
  /\ synced' = Len(acked)
  /\ UNCHANGED <<acked, stored, tried, garbled, up>>

\* The writer ends, or the machine does, with or after it.
Stop ==
  /\ up' = FALSE
  /\ stored' \in {SubSeq(acked, 1, n) : n \in synced .. Len(acked)}
                   \cup {Append(acked, r) : r \in tried}
  /\ UNCHANGED <<acked, synced, tried, garbled>>

\* The same steps of a garbled log: the acknowledged records still come first.
GarbledWrite ==
  /\ up /\ garbled
  /\ Begins(acked, stored')
  /\ UNCHANGED <<acked, synced, tried, garbled, up>>

GarbledAcknowledge ==
  /\ up /\ garbled
  /\ \E r \in tried : acked' = Append(acked, r)
  /\ Begins(acked', stored)
  /\ synced' \in {synced, Len(acked')}
  /\ tried' = {}
  /\ UNCHANGED <<stored, garbled, up>>

GarbledStop ==
  /\ up' = FALSE /\ garbled
  /\ Begins(acked, stored')
  /\ UNCHANGED <<acked, synced, tried, garbled>>

LogNext ==
  \/ New
  \/ \E r \in Record : Try(r)
  \/ Write
  \/ Acknowledge
  \/ Garble
  \/ Sync
  \/ Stop
  \/ GarbledWrite \/ GarbledAcknowledge \/ GarbledStop

LogSpec == LogInit /\ [][LogNext]_logVars

=============================================================================
