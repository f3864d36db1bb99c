-------------------------- MODULE MCReporterStream --------------------------
(***************************************************************************)
(* A small instance of ReporterStream: a test without retries, and the     *)
(* first of a serial group, which is run again at most once and has two    *)
(* files, one of them too large.  The rest of the group is left out.       *)
(***************************************************************************)
EXTENDS ReporterStream

CONSTANTS login, search, trace, video, shot

RetriesOf == [t \in Tests |-> IF t = login THEN 1 ELSE 0]
Files == [t \in Tests |-> IF t = login THEN <<video, trace>> ELSE <<shot>>]
=============================================================================
