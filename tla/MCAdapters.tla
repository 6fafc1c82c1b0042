------------------------------ MODULE MCAdapters ------------------------------
(* Small instances of Adapters: adapters, calls and projects are model values. *)
EXTENDS Adapters
=============================================================================
