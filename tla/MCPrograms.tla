----------------------------- MODULE MCPrograms -----------------------------
(* All programs, with a record of two cells and a queue of two messages. *)
EXTENDS Programs

MCProgram == {"bench", "pub", "sub", "replay", "inspect_wal", "stress_spsc"}
MCNumberOf == [t \in {"0", "2", "3"} |-> CASE t = "0" -> 0 [] t = "2" -> 2 [] t = "3" -> 3]
MCDefault ==
  [bench |-> [messages |-> 3, payload_size |-> 2, capacity |-> 2],
   pub |-> [messages |-> 2, wal_size |-> 6],
   sub |-> [messages |-> 2, limit |-> 1, capacity |-> 2],
   replay |-> [limit |-> 0, payload_preview_bytes |-> 2],
   inspect_wal |-> [limit |-> 0],
   stress_spsc |-> [messages |-> 3, capacity |-> 2]]
MCQueueCapacity == {0, 1, 2, 3}
MCFileSize == 0 .. 5
=============================================================================
