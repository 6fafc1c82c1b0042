------------------------------ MODULE MCPgStore ------------------------------
(* Small instances of PgStore.  c1 and c5 carry the same row id; the         *)
(* database rejects the log of c4.                                           *)
EXTENDS PgStore, TLC

CONSTANTS c1, c2, c4, c5, p1, p2, f1, f2, k1, k2

MCRowId == [c \in Calls |-> IF c = c5 THEN c1 ELSE c]
MCIds   == Calls \cup {c1}
MCProjectOf == [c \in Calls |-> p1]
MCTimeOf == [c \in Calls |-> CASE c = c1 -> 1 [] c = c2 -> 2 [] c = c4 -> 4 [] c = c5 -> 5]
All         == {[project |-> Unset, before |-> Unset]}
AllOrScoped == All \cup {[project |-> p1, before |-> Unset], [project |-> Unset, before |-> 2]}

Perms == Permutations(Flights) \cup Permutations(Clears)
=============================================================================
