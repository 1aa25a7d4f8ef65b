----------------------------- MODULE MCBacklog -----------------------------
(* Model values for TLC: two byte values, two ids, a limit of 3 bytes and  *)
(* chunks of up to 2, so that windows wrap, trim and compact repeatedly    *)
(* within a stream of 9 bytes.                                             *)
EXTENDS Backlog
=============================================================================
