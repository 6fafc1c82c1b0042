----------------------------- MODULE MCTransport -----------------------------
(* Small instances of Transport: the constants are given in the .cfg files.  *)
EXTENDS Transport
=============================================================================
