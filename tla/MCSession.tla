------------------------------ MODULE MCSession ------------------------------
(* Small instances of Session: tabs, browsers and addresses are model values;  *)
(* whether two tabs share a browser is left open.  They are symmetric in the   *)
(* runs without liveness.                                                      *)
EXTENDS Session, TLC

Symmetry == Permutations(Tabs) \cup Permutations(Browsers)
=============================================================================
