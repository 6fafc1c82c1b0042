------------------------------- MODULE MCPaging -------------------------------
(* A small instance of Paging: two projects, two hosts, a proxy with a port,   *)
(* timestamps of which one is not a whole millisecond, and durations far       *)
(* enough apart to make means round.                                           *)
EXTENDS Paging

MCProxy(i) == CASE i = 1 -> [host |-> "h", port |-> None]
                [] i = 2 -> [host |-> "h", port |-> 80]
                [] i = 3 -> [host |-> "i", port |-> None]
                [] i = 4 -> None
MCAttr == [i \in Ids |->
  [project |-> IF i = 2 THEN "q" ELSE "p", host |-> IF i < 3 THEN "x" ELSE "y",
   status |-> IF i = 4 THEN None ELSE 100 * (i + 1), success |-> i < 3,
   duration |-> (7 * i) % 5, size |-> IF i = 2 THEN None ELSE i, proxy |-> MCProxy(i)]]

NoFilter == [project |-> None, host |-> None, success |-> None, statusRange |-> None, proxy |-> None]
MCFilters == {NoFilter, [NoFilter EXCEPT !.proxy = MCProxy(1)]}
=============================================================================
