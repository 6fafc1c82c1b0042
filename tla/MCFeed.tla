-------------------------------- MODULE MCFeed --------------------------------
(* Small instances of Feed: two projects take turns.                         *)
EXTENDS Feed

Projects2 == [r \in 1 .. Requests |-> IF r % 2 = 1 THEN "odd" ELSE "even"]
OneProject == [r \in 1 .. Requests |-> "odd"]

\* Scrolling back through what was stored before, while filters change, logs are cleared,
\* fetches fail and the connection is lost.
Scrolling == [before |-> 5, last |-> 5, filters |-> {"all", "odd", "pendingOnly"},
              may |-> {"clear", "fail", "loss"}]

\* Two requests watched live, with pauses and refreshes.
Watching == [before |-> 0, last |-> 2, filters |-> {"all"}, may |-> {"live", "away", "pause"}]

\* Scrolling back after a refresh.
Returning == [before |-> 3, last |-> 3, filters |-> {"all"}, may |-> {"away"}]

ScrollingOrWatching == {Scrolling, Watching}
OnlyReturning == {Returning}
=============================================================================
