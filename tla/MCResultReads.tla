----------------------------- MODULE MCResultReads -----------------------------
(* Small instances of ResultReads for TLC. *)
EXTENDS ResultReads

MCItems == 1..2
MCKinds == Records \cup Plans \cup {"receipt"}
===============================================================================
