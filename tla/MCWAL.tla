------------------------------- MODULE MCWAL -------------------------------
(* A log whose files hold four entries, so that a height spans two files.  *)
EXTENDS WAL
=============================================================================
