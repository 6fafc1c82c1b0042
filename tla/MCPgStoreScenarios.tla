------------------------- MODULE MCPgStoreScenarios -------------------------
(* One run of two scenarios that are too many states together: everything    *)
(* that may happen to a log on its way in, with one clear of everything; and *)
(* two clears of any scope and a query for statistics, when nothing fails.   *)
EXTENDS MCPgStore

VARIABLE scenario

Faulty == \/ \E f \in Flights : flights[f].ans = "fault"
          \/ \E p \in Projects : trims[p].ans = "fault"
          \/ \E k \in Clears : clears[k].ans = "fault"
          \/ \E r \in Readers : reads[r].ans = "fault"
Only(calls) == \A c \in Calls \ calls : promise[c] = "none"

Ingests ==
  /\ Only({c1, c4, c5})
  /\ \A k \in Clears : clears[k] = NoClear \/ clears[k].scope \in All
  /\ \A j, k \in Clears : clears[j] = NoClear \/ clears[k] = NoClear \/ j = k
  /\ \A r \in Readers : reads[r] = NoRead

Clearing == Only({c1, c2}) /\ ~Faulty /\ closing = "open"

Within == IF scenario = "ingest" THEN Ingests ELSE Clearing

ScenarioSpec ==
  /\ Init /\ scenario \in {"ingest", "clear"}
  /\ [][Next /\ UNCHANGED scenario /\ Within']_<<vars, scenario>>
=============================================================================
