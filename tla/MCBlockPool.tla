----------------------------- MODULE MCBlockPool -----------------------------
(* Fast sync from one honest and one faulty peer.                            *)
EXTENDS BlockPool
=============================================================================
