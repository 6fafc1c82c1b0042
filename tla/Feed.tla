--------------------------------- MODULE Feed ---------------------------------
(***************************************************************************)
(* The live feed of the dashboard (packages/client/src): the WebSocket's   *)
(* messages, buffered and flushed twice a second (hooks/use-websocket.ts), *)
(* the pages of stored logs (hooks/use-log-loader.ts), and the store both  *)
(* write (stores/use-log-store.ts), against a server that stores logs,     *)
(* broadcasts them and may be cleared.                                     *)
(*                                                                         *)
(* Requests are numbered by the time they ended, which is the timestamp of *)
(* a log and the order of pages; they start in any order, and logs of      *)
(* different programs are stored in any order.  The browser runs one       *)
(* callback at a time; a fetch is issued, executed by the server and       *)
(* resolved in three steps that others separate.  A React effect runs some *)
(* time after the change it depends on (effectDue).                        *)
(***************************************************************************)
EXTENDS Integers, Sequences, FiniteSets, SequencesExt

CONSTANTS
  Requests,    (* bound: requests are numbered 1 .. Requests                 *)
  KindOf,      (* the project of each request                                *)
  Scenarios,   (* bound: what may happen together, see Scenario              *)
  PageSize, MaxLogs, MaxBuffer, MaxPending

\* The requests that ended before the dashboard was opened, the last that is made, the
\* filters the user picks ("all", "pendingOnly", projects), and what happens besides.
Scenario ==
  [before : 0 .. Requests, last : 0 .. Requests, filters : SUBSET STRING,
   may : SUBSET {"live", "clear", "pause", "away", "loss", "fail"}]

ASSUME FeedAssumption ==
  /\ Requests \in Nat /\ DOMAIN KindOf = 1 .. Requests
  /\ Scenarios \subseteq Scenario
  /\ \A s \in Scenarios : "all" \in s.filters      (* what is shown at first   *)
  /\ {PageSize, MaxLogs, MaxBuffer, MaxPending} \subseteq Nat \ {0}
  /\ PageSize <= MaxLogs                           (* the list holds a page    *)

VARIABLES
  scenario,
  phase,      (* each request: "new", "started", "stored", "told"            *)
  rows,       (* the logs the server holds                                   *)
  inbox,      (* messages under way to this dashboard; the socket is FIFO    *)
  connected,  (* whether its WebSocket is open                               *)
  adds, removes, ends,  (* pendingAdds, pendingRemoveIds, pendingLogs        *)
  heard,      (* whether pendingProjects holds anything                      *)
  logs,       (* the list, oldest first                                      *)
  pending,    (* the map of requests in flight, in insertion order           *)
  hasMore, ready,
  filter,     (* what the filter store says                                  *)
  effectDue,  (* the loader's effect has to run: filter or dataEpoch changed *)
  page,       (* the loader's fetch; an aborted one is gone                  *)
  older,      (* the fetch of loadMore(), and whether its generation passed  *)
  lastCursor, (* lastCursorRef, 0 for null                                   *)
  refresh,    (* the fetch of refreshLogs()                                  *)
  paused, stale,
  clearing,   (* rows its own DELETE removed, before its answer arrives      *)
  aged,       (* requests whose start is longer ago than PENDING_TTL_MS      *)
  ended,      (* history: requests whose end this dashboard has received,    *)
              (* but for those that the limit pushed out of pendingRemoveIds *)
  wiped       (* history: rows removed by a clear that it knows of           *)

serverVars  == <<phase, rows>>
socketVars  == <<inbox, connected>>
bufferVars  == <<adds, removes, ends, heard>>
storeVars   == <<logs, pending, hasMore, ready>>
loaderVars  == <<effectDue, page, older, lastCursor>>
userVars    == <<filter, paused, stale>>
restVars    == <<clearing, aged, ended, wiped>>
running == <<serverVars, socketVars, bufferVars, storeVars, loaderVars, refresh, userVars, restVars>>
vars == <<scenario, running>>

-----------------------------------------------------------------------------
Ids == 1 .. Requests

Newest(s, n)  == SubSeq(s, IF Len(s) > n THEN Len(s) - n + 1 ELSE 1, Len(s))  \* slice(-n)
Oldest(s, n) == SubSeq(s, 1, IF Len(s) > n THEN n ELSE Len(s))               \* slice(0, n)

\* The numbers of a set in order, and a sequence cut down to some positions: what
\* SetToSortSeq and SelectSeq give, in a form that proofs can unfold.
InOrder(S) ==
  CHOOSE s \in [1 .. Cardinality(S) -> S] : \A i, j \in DOMAIN s : i < j => s[i] < s[j]
At(s, positions) == LET p == InOrder(positions) IN [k \in DOMAIN p |-> s[p[k]]]

\* matchesLog and matchesPending.  A filter on status or outcome, under which no
\* request in flight is shown, is like a project nobody has.
Matches(r, f)        == f = "all" \/ f = KindOf[r]
MatchesPending(r, f) == f \in {"all", "pendingOnly"} \/ f = KindOf[r]

\* Mutant of Params: the mode is sent as it is.
AsItIs(f) == f

\* The query of a filter: "pendingOnly" has none and leaves the page unfiltered.
Params(f) == IF f = "pendingOnly" THEN "all" ELSE f

\* The newest rows before a cursor, oldest first, as the feed keeps them.
PageOf(f, cursor) ==
  Newest(InOrder({r \in rows : Matches(r, f) /\ (cursor # 0 => r < cursor)}), PageSize)

NoFetch == [pc |-> "idle", filter |-> "all", cursor |-> 0, outdated |-> FALSE,
            ok |-> FALSE, rows |-> << >>]
Fetch(f, c) == [pc |-> "sent", filter |-> Params(f), cursor |-> c, outdated |-> FALSE,
                ok |-> FALSE, rows |-> << >>]

\* The server executes a query, or the fetch fails.
Answers(q) ==
  {[q EXCEPT !.pc = "answered", !.ok = TRUE, !.rows = PageOf(q.filter, q.cursor)]}
    \cup (IF "fail" \in scenario.may THEN {[q EXCEPT !.pc = "answered"]} ELSE {})

Init ==
  /\ scenario \in Scenarios
  /\ phase = [r \in Ids |-> IF r <= scenario.before THEN "told" ELSE "new"]
  /\ rows = 1 .. scenario.before
  /\ inbox = << >> /\ connected = TRUE
  /\ adds = << >> /\ removes = << >> /\ ends = << >> /\ heard = FALSE
  /\ logs = << >> /\ pending = << >> /\ hasMore = TRUE /\ ready = FALSE
  /\ filter = "all" /\ paused = FALSE /\ stale = FALSE
  /\ effectDue = TRUE /\ page = NoFetch /\ older = NoFetch /\ lastCursor = 0
  /\ refresh = NoFetch
  /\ clearing = {} /\ aged = {} /\ ended = {} /\ wiped = {}

-----------------------------------------------------------------------------
(* The server.                                                             *)

Message(type, r, gone) == [type |-> type, id |-> r, gone |-> gone]

\* A message reaches the dashboard if its socket is open.
Tell(m) == inbox' = IF connected THEN Append(inbox, m) ELSE inbox

Start(r) ==
  /\ "live" \in scenario.may /\ r <= scenario.last
  /\ phase[r] = "new"
  /\ phase' = [phase EXCEPT ![r] = "started"]
  /\ Tell(Message("request_start", r, {}))
  /\ UNCHANGED <<rows, connected, bufferVars, storeVars, loaderVars, refresh, userVars, restVars>>

\* store.add() wrote the row; the route's handler has not continued yet.
Store(r) ==
  /\ phase[r] = "started"
  /\ phase' = [phase EXCEPT ![r] = "stored"]
  /\ rows' = rows \cup {r}
  /\ UNCHANGED <<socketVars, bufferVars, storeVars, loaderVars, refresh, userVars, restVars>>

Announce(r) ==
  /\ phase[r] = "stored"
  /\ phase' = [phase EXCEPT ![r] = "told"]
  /\ Tell(Message("request_end", r, {}))
  /\ UNCHANGED <<rows, connected, bufferVars, storeVars, loaderVars, refresh, userVars, restVars>>

\* DELETE /api/logs, by this dashboard or another one.
ClearLogs ==
  /\ "clear" \in scenario.may /\ rows # {}
  /\ rows' = {}
  /\ Tell(Message("logs_cleared", 0, rows))
  /\ clearing' \in {clearing} \cup (IF clearing = {} THEN {rows} ELSE {})
  /\ UNCHANGED <<phase, connected, bufferVars, storeVars, loaderVars, refresh, userVars>>
  /\ UNCHANGED <<aged, ended, wiped>>

\* A minute passes since the start of a request.
Age(r) ==
  /\ phase[r] # "new" /\ r \notin aged /\ "live" \in scenario.may
  /\ aged' = aged \cup {r}
  /\ UNCHANGED <<serverVars, socketVars, bufferVars, storeVars, loaderVars, refresh, userVars>>
  /\ UNCHANGED <<clearing, ended, wiped>>

\* The socket is lost with what is under way, and opened again.
Disconnect ==
  /\ "loss" \in scenario.may /\ connected
  /\ connected' = FALSE /\ inbox' = << >>
  /\ UNCHANGED <<serverVars, bufferVars, storeVars, loaderVars, refresh, userVars, restVars>>

Reconnect ==
  /\ ~connected
  /\ connected' = TRUE
  /\ UNCHANGED <<serverVars, inbox, bufferVars, storeVars, loaderVars, refresh, userVars, restVars>>

-----------------------------------------------------------------------------
(* Messages and the flush.                                                 *)

Push(s, x) == Newest(Append(s, x), MaxBuffer)

\* reset()
Reset == logs' = << >> /\ pending' = << >> /\ hasMore' = TRUE /\ ready' = FALSE

ReceiveStart ==
  LET r == Head(inbox).id IN
  /\ inbox # << >> /\ Head(inbox).type = "request_start"
  /\ inbox' = Tail(inbox)
  /\ heard' = TRUE
  /\ adds' = IF MatchesPending(r, filter) THEN Push(adds, r) ELSE adds
  /\ UNCHANGED <<serverVars, connected, removes, ends, storeVars, loaderVars, refresh, userVars>>
  /\ UNCHANGED restVars

ReceiveEnd ==
  LET r == Head(inbox).id IN
  /\ inbox # << >> /\ Head(inbox).type = "request_end"
  /\ inbox' = Tail(inbox)
  /\ heard' = TRUE
  /\ removes' = Push(removes, r)
  /\ ends' = IF Matches(r, filter) THEN Push(ends, r) ELSE ends
  /\ ended' = (ended \cup {r}) \ (ToSet(removes) \ ToSet(removes'))
  /\ UNCHANGED <<serverVars, connected, adds, storeVars, loaderVars, refresh, userVars>>
  /\ UNCHANGED <<clearing, aged, wiped>>

\* pendingProjects is left alone.
EmptyBuffers == adds' = << >> /\ removes' = << >> /\ ends' = << >> /\ UNCHANGED heard

ReceiveCleared ==
  /\ inbox # << >> /\ Head(inbox).type = "logs_cleared"
  /\ inbox' = Tail(inbox)
  /\ EmptyBuffers
  /\ Reset
  /\ effectDue' = TRUE
  /\ wiped' = wiped \cup Head(inbox).gone
  /\ UNCHANGED <<serverVars, connected, page, older, lastCursor, refresh, userVars>>
  /\ UNCHANGED <<clearing, aged, ended>>

\* handleClear() continues after its DELETE.
ClearReturns ==
  /\ clearing # {}
  /\ clearing' = {}
  /\ wiped' = wiped \cup clearing
  /\ Reset
  /\ effectDue' = TRUE
  /\ UNCHANGED <<serverVars, socketVars, bufferVars, page, older, lastCursor, refresh, userVars>>
  /\ UNCHANGED <<aged, ended>>

\* Map.delete: what is left of a map, in its order.
Without(s, gone) == At(s, {i \in DOMAIN s : s[i] \notin gone})

\* Map.set: a new key goes last, a known one keeps its place.
With(s, added) ==
  s \o At(added, {i \in DOMAIN added : /\ ~Contains(s, added[i])
                                       /\ \A j \in 1 .. i - 1 : added[j] # added[i]})

\* prunePending: entries that are too old go, then the oldest above the cap.
Prune(s) == Newest(Without(s, aged), MaxPending)

\* Mutant of AfterFlush: removals before additions.
RemovedFirst == Prune(With(Without(pending, ToSet(removes)), adds))

AfterFlush == Prune(Without(With(pending, adds), ToSet(removes)))

\* The flush timer fires: nothing while paused or when nothing is buffered.
Flush ==
  /\ ~paused
  /\ adds # << >> \/ removes # << >> \/ ends # << >> \/ heard
  /\ adds' = << >> /\ removes' = << >> /\ ends' = << >> /\ heard' = FALSE
  /\ logs' = IF ends = << >> THEN logs ELSE Newest(logs \o ends, MaxLogs)
  /\ pending' = AfterFlush
  /\ UNCHANGED <<serverVars, socketVars, hasMore, ready, loaderVars, refresh, userVars, restVars>>

-----------------------------------------------------------------------------
(* The loader.                                                             *)

FilterChanges(f) ==
  /\ f # filter
  /\ filter' = f
  /\ effectDue' = TRUE
  /\ UNCHANGED <<serverVars, socketVars, bufferVars, storeVars, page, older, lastCursor, refresh>>
  /\ UNCHANGED <<paused, stale, restVars>>

\* Mutant of Outdated: the generation is not incremented.
SameGeneration(q) == q

Outdated(q) == [q EXCEPT !.outdated = TRUE]

\* Mutant of Effect: the cursor is kept.
EffectKeepsCursor ==
  /\ effectDue /\ effectDue' = FALSE
  /\ older' = IF older.pc = "idle" THEN older ELSE Outdated(older)
  /\ page' = Fetch(filter, 0)
  /\ Reset
  /\ UNCHANGED <<serverVars, socketVars, bufferVars, lastCursor, refresh, userVars, restVars>>

\* The effect: the former fetch is aborted, the list emptied, the first page
\* fetched; requests in flight have no page.
Effect ==
  /\ effectDue
  /\ effectDue' = FALSE
  /\ older' = IF older.pc = "idle" THEN older ELSE Outdated(older)
  /\ lastCursor' = 0
  /\ \/ /\ filter = "pendingOnly"
        /\ logs' = << >> /\ pending' = << >> /\ hasMore' = FALSE /\ ready' = TRUE
        /\ page' = NoFetch
     \/ /\ filter # "pendingOnly"
        /\ Reset
        /\ page' = Fetch(filter, 0)
  /\ UNCHANGED <<serverVars, socketVars, bufferVars, refresh, userVars, restVars>>

PageExecuted ==
  /\ page.pc = "sent"
  /\ page' \in Answers(page)
  /\ UNCHANGED <<serverVars, socketVars, bufferVars, storeVars, effectDue, older, lastCursor>>
  /\ UNCHANGED <<refresh, userVars, restVars>>

\* setLogs() and setHasMore() with the first page.
ShowPage(q) ==
  /\ logs' = Newest(q.rows, MaxLogs)
  /\ hasMore' = (Len(q.rows) >= PageSize)

\* Mutant of PageArrives: ready is not set when the fetch failed.
ArrivesOrFails ==
  /\ page.pc = "answered"
  /\ page' = NoFetch
  /\ IF page.ok THEN ShowPage(page) /\ ready' = TRUE ELSE UNCHANGED <<logs, hasMore, ready>>
  /\ UNCHANGED <<serverVars, socketVars, bufferVars, pending, effectDue, older, lastCursor>>
  /\ UNCHANGED <<refresh, userVars, restVars>>

PageArrives ==
  /\ page.pc = "answered"
  /\ page' = NoFetch
  /\ IF page.ok THEN ShowPage(page) ELSE UNCHANGED <<logs, hasMore>>
  /\ ready' = TRUE
  /\ UNCHANGED <<serverVars, socketVars, bufferVars, pending, effectDue, older, lastCursor>>
  /\ UNCHANGED <<refresh, userVars, restVars>>

Cursor == IF logs = << >> THEN 0 ELSE logs[1]
MayLoadMore == older.pc = "idle" /\ hasMore /\ ready

\* loadMore(), when the user scrolls near the top.
LoadMore ==
  /\ MayLoadMore
  /\ Cursor # 0 => Cursor # lastCursor
  /\ older' = Fetch(filter, Cursor)
  /\ UNCHANGED <<serverVars, socketVars, bufferVars, storeVars, effectDue, page, lastCursor>>
  /\ UNCHANGED <<refresh, userVars, restVars>>

OlderExecuted ==
  /\ older.pc = "sent"
  /\ \E a \in Answers(older) : older' = a
  /\ UNCHANGED <<serverVars, socketVars, bufferVars, storeVars, effectDue, page, lastCursor>>
  /\ UNCHANGED <<refresh, userVars, restVars>>

OlderArrives ==
  /\ older.pc = "answered"
  /\ older' = NoFetch
  /\ \/ /\ ~older.ok \/ older.outdated
        /\ UNCHANGED <<logs, hasMore, lastCursor>>
     \/ /\ older.ok /\ ~older.outdated
        /\ lastCursor' = older.cursor
        /\ logs' = IF older.rows = << >> THEN logs ELSE Oldest(older.rows \o logs, MaxLogs)
        /\ hasMore' = (hasMore /\ Len(older.rows) >= PageSize)
  /\ UNCHANGED <<serverVars, socketVars, bufferVars, pending, ready, effectDue, page>>
  /\ UNCHANGED <<refresh, userVars, restVars>>

-----------------------------------------------------------------------------
(* Pausing and returning to the tab.                                       *)

\* refreshLogs(), at most one at a time (bound).
Refresh == refresh.pc = "idle" /\ refresh' = Fetch(filter, 0)

Pause ==
  /\ "pause" \in scenario.may /\ ~paused
  /\ paused' = TRUE
  /\ UNCHANGED <<serverVars, socketVars, bufferVars, storeVars, loaderVars, refresh, filter>>
  /\ UNCHANGED <<stale, restVars>>

Resume ==
  /\ paused
  /\ paused' = FALSE
  /\ IF stale THEN Refresh ELSE UNCHANGED refresh
  /\ UNCHANGED <<serverVars, socketVars, bufferVars, storeVars, loaderVars, filter, stale>>
  /\ UNCHANGED restVars

\* The tab becomes visible after more than STALE_THRESHOLD.
Return ==
  /\ "away" \in scenario.may
  /\ \/ paused /\ stale' = TRUE /\ UNCHANGED refresh
     \/ ~paused /\ Refresh /\ UNCHANGED stale
  /\ UNCHANGED <<serverVars, socketVars, bufferVars, storeVars, loaderVars, filter, paused>>
  /\ UNCHANGED restVars

RefreshExecuted ==
  /\ refresh.pc = "sent"
  /\ \E a \in Answers(refresh) : refresh' = a
  /\ UNCHANGED <<serverVars, socketVars, bufferVars, storeVars, loaderVars, userVars, restVars>>

\* The page is shown whatever has happened since it was asked for.
RefreshArrives ==
  /\ refresh.pc = "answered"
  /\ refresh' = NoFetch
  /\ \/ ~refresh.ok /\ UNCHANGED <<logs, hasMore, pending, stale>>
     \/ refresh.ok /\ ShowPage(refresh) /\ pending' = << >> /\ stale' = FALSE
  /\ UNCHANGED <<serverVars, socketVars, bufferVars, ready, loaderVars, filter, paused, restVars>>

-----------------------------------------------------------------------------
Next ==
  /\ UNCHANGED scenario
  /\ \/ \E r \in Ids : Start(r) \/ Store(r) \/ Announce(r) \/ Age(r)
     \/ ClearLogs \/ ClearReturns
     \/ Disconnect \/ Reconnect
     \/ ReceiveStart \/ ReceiveEnd \/ ReceiveCleared
     \/ Flush
     \/ \E f \in scenario.filters : FilterChanges(f)
     \/ Effect \/ PageExecuted \/ PageArrives
     \/ LoadMore \/ OlderExecuted \/ OlderArrives
     \/ Pause \/ Resume \/ Return \/ RefreshExecuted \/ RefreshArrives

Spec == Init /\ [][Next]_vars

\* Effects run, fetches are executed and resolve.  Nothing obliges the user, the
\* requests, the other dashboards or the network.
Fairness ==
  /\ WF_running(Effect) /\ WF_running(PageExecuted) /\ WF_running(PageArrives)

FairSpec == Spec /\ Fairness

-----------------------------------------------------------------------------
(* Properties.                                                             *)

FetchType ==
  [pc : {"idle", "sent", "answered"}, filter : scenario.filters \ {"pendingOnly"},
   cursor : 0 .. Requests, outdated : BOOLEAN, ok : BOOLEAN, rows : Seq(Ids)]
MessageType ==
  [type : {"request_start", "request_end"}, id : Ids, gone : {{}}]
    \cup [type : {"logs_cleared"}, id : {0}, gone : SUBSET Ids]

TypeOK ==
  /\ scenario \in Scenarios
  /\ phase \in [Ids -> {"new", "started", "stored", "told"}] /\ rows \subseteq Ids
  /\ inbox \in Seq(MessageType) /\ connected \in BOOLEAN /\ heard \in BOOLEAN
  /\ {adds, removes, ends, logs, pending} \subseteq Seq(Ids)
  /\ {page, older, refresh} \subseteq FetchType
  /\ hasMore \in BOOLEAN /\ ready \in BOOLEAN /\ effectDue \in BOOLEAN
  /\ filter \in scenario.filters /\ paused \in BOOLEAN /\ stale \in BOOLEAN
  /\ lastCursor \in 0 .. Requests /\ clearing \subseteq Ids
  /\ aged \subseteq Ids /\ ended \subseteq Ids /\ wiped \subseteq Ids

\* Every row of the list matches the filter the list is shown under, and was not
\* removed by a clear the dashboard knows of: "a page that resolves late cannot be
\* merged into the list it no longer belongs to".
ListBelongs ==
  ~effectDue => \A i \in DOMAIN logs : Matches(logs[i], filter) /\ logs[i] \notin wiped

\* Scrolling back shows every stored row once and in order: the list has no gap
\* and no row twice.
Contiguous ==
  /\ \A i, j \in DOMAIN logs : i < j => logs[i] < logs[j]
  /\ ~effectDue /\ logs # << >> =>
       \A r \in rows : Matches(r, filter) /\ r > logs[1] /\ r < logs[Len(logs)] => Contains(logs, r)

\* While there is more to load, scrolling to the top loads it: the guard against
\* asking for the same page again refuses only that.
ScrollGoesOn == MayLoadMore /\ ~effectDue /\ Cursor # 0 => Cursor # lastCursor

\* hasMore is not given up early: when it is false the list reaches the oldest row.
NoMoreMeansAll ==
  ready /\ ~effectDue /\ ~hasMore /\ filter # "pendingOnly" =>
    \A r \in rows : Matches(r, filter) =>
      \E i \in DOMAIN logs : logs[i] <= r

\* The list is written by the loader only: no live rows, no refreshLogs(), which do not
\* keep what follows.
OnlyPages == scenario.may \cap {"live", "away"} = {}

\* Late pages are not merged, and what is shown is without gaps.
ListIsExact == OnlyPages => ListBelongs /\ Contiguous

\* Scrolling reaches the oldest row: it is never stuck, and ends only there.
ScrollReachesAll == OnlyPages => ScrollGoesOn /\ NoMoreMeansAll

\* Once everything received is flushed, no request that has ended spins in the
\* feed: also when its start and its end came in one batch.
EndedNotPending ==
  adds = << >> /\ removes = << >> => ToSet(pending) \cap ended = {}

\* The list becomes ready, also when the fetch fails: "otherwise infinite scroll
\* stays disabled forever".
BecomesReady == ~ready /\ ~effectDue ~> ready \/ effectDue
=============================================================================
