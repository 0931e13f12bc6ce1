------------------------------- MODULE MCRecords -------------------------------
(* Small instances of Records for TLC. *)
EXTENDS Records

CONSTANTS create, replace

\* One key creates a record, the other one replaces the first revision of it.
MCWrites == [k \in Keys |-> IF k = create THEN [id |-> 0, expected |-> 0] ELSE [id |-> 1, expected |-> 1]]
===============================================================================
