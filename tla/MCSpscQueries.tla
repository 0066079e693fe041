--------------------------- MODULE MCSpscQueries ---------------------------
(* Model values for SpscQueries. *)
EXTENDS SpscQueries
=============================================================================
