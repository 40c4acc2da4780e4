--------------------------- MODULE MCBlockCommit ---------------------------
(* Four blocks, three crashes, an application that halts at height 3 and   *)
(* may come back at any earlier version.                                   *)
EXTENDS BlockCommit
=============================================================================
