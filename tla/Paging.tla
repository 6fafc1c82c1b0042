-------------------------------- MODULE Paging --------------------------------
(***************************************************************************)
(* Pages of stored logs, as the in-memory store (store/index.ts) and the   *)
(* PostgreSQL store (store/pg.ts) cut them, and the export that reads page *)
(* after page while logs come and go (routes/logs.ts); and the figures     *)
(* that are made of them (Figures).  All paths are under                   *)
(* packages/server/src.                                                    *)
(*                                                                         *)
(* A log is its id and its timestamp; what else it has follows from its id *)
(* (Attr).  The in-memory store keeps the order of insertion; of the table *)
(* only the set of rows matters.  The timestamp is the clock of the host   *)
(* at the end of the request; batches and several hosts bring logs in any  *)
(* order of their timestamps.                                              *)
(*                                                                         *)
(* Init, Next, Spec, vars and TypeOK carry the module's name, so that one  *)
(* module of proofs can extend it beside another component.                *)
(***************************************************************************)
EXTENDS Figures

CONSTANTS
  Ids,        (* the logs that may be added, each once                       *)
  Times,      (* the timestamps they may have, in the table's resolution     *)
  Tick,       (* how much of it an ISO string keeps: a millisecond           *)
  Filters,    (* the filters of an export or of the dashboard                *)
  MaxEntries, (* MAX_ENTRIES of the in-memory store                          *)
  Batch,      (* EXPORT_BATCH: the rows of an export's page                  *)
  MaxClientLogs, (* MAX_CLIENT_LOGS: the rows that the browser keeps         *)
  Ages        (* how long ago the browser may have asked for its figures     *)

ASSUME PagingAssumption ==
  /\ Ids \subseteq Nat /\ Times \subseteq Nat
  /\ Ids \subseteq DOMAIN Attr /\ \A f \in Filters : f.proxy # None => IsProxy(f.proxy)
  /\ Tick \in Nat \ {0}
  /\ MaxEntries \in Nat \ {0} /\ Batch \in Nat \ {0}
  /\ MaxClientLogs \in Nat /\ Ages \subseteq Nat

VARIABLES
  backend, (* which store the server was created with                        *)
  logs,    (* the stored logs, in the order of their insertion               *)
  export,  (* the export: where it is, its filter, its cursor and its page   *)
  out,     (* what it has written                                            *)
  added,   (* history: the logs that were added                              *)
  inOrder, (* history: whether each was added after all older ones           *)
  kept     (* history: matching logs that are stored since the export began  *)

pagingVars == <<backend, logs, export, out, added, inOrder, kept>>

Log     == [id : Ids, time : Times]
NoTime  == -1
Start   == [id |-> -1, time |-> NoTime]   (* no cursor                       *)

PagingInit ==
  /\ backend \in {"memory", "postgres"}
  /\ logs = <<>> /\ out = <<>>
  /\ export = [pc |-> "none", filter |-> None, cursor |-> Start, page |-> <<>>]
  /\ added = {} /\ inOrder = TRUE /\ kept = {}

-----------------------------------------------------------------------------
(* Pages.                                                                  *)

\* Timestamp, then id: the order of the cursor in both stores.
Older(a, b) == a.time < b.time \/ (a.time = b.time /\ a.id < b.id)

\* Mutant of Beyond: the row at the cursor is taken again.
FromCursor(l, c) == c = Start \/ Older(l, c) \/ l = c

\* (timestamp, id) < (cursorTs, cursorId).
Beyond(l, c) == c = Start \/ Older(l, c)

\* The first n elements of a set in an order, which is a set of pairs: each at
\* the place that the number of those before it gives.
Rank(S, order, x) == Cardinality({y \in S : <<y, x>> \in order})
First(n, S, order) ==
  [i \in 1 .. Min({n, Cardinality(S)}) |-> CHOOSE x \in S : Rank(S, order, x) = i - 1]

Upwards(S)     == {p \in S \X S : p[1] < p[2]}
Downwards(S)   == {p \in S \X S : p[1] > p[2]}
NewestFirst(S) == {p \in S \X S : Older(p[2], p[1])}

\* The logs at some positions.
At(positions) == [k \in DOMAIN positions |-> logs[positions[k]]]

\* list() of the in-memory store: "newest first" is the order of insertion,
\* reversed.
MemoryPage(f, c, n) ==
  LET found == {i \in DOMAIN logs : ServerMatches(logs[i], f) /\ Beyond(logs[i], c)} IN
  At(First(n, found, Downwards(found)))

\* listFull() of the PostgreSQL store: ORDER BY timestamp DESC, id DESC LIMIT n.
TablePage(f, c, n) ==
  LET found == {l \in Range(logs) : ServerMatches(l, f) /\ Beyond(l, c)} IN
  First(n, found, NewestFirst(found))

Page(f, c, n) == IF backend = "memory" THEN MemoryPage(f, c, n) ELSE TablePage(f, c, n)

\* The cursor of a row.  PostgreSQL's driver returns a Date, whose toISOString()
\* keeps milliseconds; the in-memory store returns the string it was given.
CursorOf(l) ==
  IF backend = "memory" THEN l ELSE [l EXCEPT !.time = (@ \div Tick) * Tick]

-----------------------------------------------------------------------------
(* Logs come and go.                                                       *)

\* Mutant of Push: the cap is forgotten.
PushUncapped(l) == Append(logs, l)

\* The in-memory add(): the log inserted first goes when there are too many.
Push(l) == IF Len(logs) < MaxEntries THEN Append(logs, l) ELSE Append(Tail(logs), l)

Add ==
  \E l \in Log :
    /\ \A m \in added : m.id # l.id
    /\ logs' = IF backend = "memory" THEN Push(l) ELSE Append(logs, l)
    /\ added' = added \cup {l}
    /\ inOrder' = (inOrder /\ \A m \in added : Older(m, l))
    /\ kept' = kept \cap Range(logs')
    /\ UNCHANGED <<backend, export, out>>

\* The logs at the positions that a deletion leaves.
Left(positions) == At(First(Len(logs), positions, Upwards(positions)))

\* clear() with a project, a time, both or none, which the in-memory store does
\* at once.
ClearMemory ==
  /\ backend = "memory"
  /\ \E project \in {Attr[i].project : i \in Ids} \cup {None}, before \in Times \cup {NoTime} :
       logs' = Left({i \in DOMAIN logs : ~(/\ project \in {None, Attr[logs[i].id].project}
                                           /\ before = NoTime \/ logs[i].time < before)})
  /\ kept' = kept \cap Range(logs')
  /\ UNCHANGED <<backend, export, out, added, inOrder>>

\* A DELETE of the PostgreSQL store, of a clear or of a trim: PgStore says which
\* rows it takes, here it is any.
DeleteRows ==
  /\ backend = "postgres"
  /\ \E i \in DOMAIN logs : logs' = Left(DOMAIN logs \ {i})
  /\ kept' = kept \cap Range(logs')
  /\ UNCHANGED <<backend, export, out, added, inOrder>>

-----------------------------------------------------------------------------
(* The export: one, as several share nothing.                              *)

StartExport ==
  /\ export.pc = "none"
  /\ \E f \in Filters :
       /\ export' = [export EXCEPT !.pc = "read", !.filter = f]
       /\ kept' = {l \in Range(logs) : ServerMatches(l, f)}
  /\ UNCHANGED <<backend, logs, out, added, inOrder>>

\* await store.listFull(): the next page, or none and the export ends.
ReadPage ==
  /\ export.pc = "read"
  /\ LET page == Page(export.filter, export.cursor, Batch) IN
     export' = [export EXCEPT !.page = page, !.pc = IF page = <<>> THEN "done" ELSE "write"]
  /\ UNCHANGED <<backend, logs, out, added, inOrder, kept>>

\* A page shorter than asked for is the last one.
Short(page) == Len(page) < Batch

\* The rows are written as the client reads them, and the cursor moves to the
\* last of them.
WritePage ==
  /\ export.pc = "write"
  /\ out' = out \o export.page
  /\ export' = [export EXCEPT !.page = <<>>, !.cursor = CursorOf(Last(export.page)),
                              !.pc = IF Short(export.page) THEN "done" ELSE "read"]
  /\ UNCHANGED <<backend, logs, added, inOrder, kept>>

\* The query fails or the client goes away: the stream is destroyed.
Abort ==
  /\ export.pc \in {"read", "write"}
  /\ export' = [export EXCEPT !.pc = "aborted", !.page = <<>>]
  /\ UNCHANGED <<backend, logs, out, added, inOrder, kept>>

PagingNext ==
  \/ Add \/ ClearMemory \/ DeleteRows
  \/ StartExport \/ ReadPage \/ WritePage \/ Abort

PagingSpec == PagingInit /\ [][PagingNext]_pagingVars

-----------------------------------------------------------------------------
(* Properties.                                                             *)

PagingTypeOK ==
  /\ backend \in {"memory", "postgres"}
  /\ logs \in Seq(Log) /\ out \in Seq(Log) /\ added \in SUBSET Log /\ kept \in SUBSET Log
  /\ backend = "memory" => Len(logs) <= MaxEntries
  /\ inOrder \in BOOLEAN
  /\ export \in [pc : {"none", "read", "write", "done", "aborted"}, filter : Filters \cup {None},
                 cursor : {Start} \cup [id : Ids, time : Nat], page : Seq(Log)]

\* What an export relies on.  The in-memory store must have got the logs in the
\* order of their timestamps, and the table's timestamps must be whole
\* milliseconds, as those are that the SDK makes.
Sound ==
  IF backend = "memory" THEN inOrder ELSE \A l \in added : l.time % Tick = 0

\* "Streams every matching log, paged by cursor": whatever is added and deleted
\* meanwhile, an export has no log twice, has the newest first, and at its end
\* has every matching log that was stored all the time.
ExportExact ==
  Sound =>
    /\ \A i, j \in DOMAIN out : i < j => Older(out[j], out[i])
    /\ \A i \in DOMAIN out : ServerMatches(out[i], export.filter)
    /\ export.pc = "done" => kept \subseteq Range(out)

\* A filter by a proxy without a port, while others use that host with one, matches
\* logs on the server that the browser does not show.
Ambiguous(f) ==
  /\ f.proxy # None /\ f.proxy.port = None
  /\ \E l \in Range(logs) : /\ Attr[l.id].proxy # None /\ Attr[l.id].proxy.host = f.proxy.host
                           /\ Attr[l.id].proxy.port # None

\* How far a mean that was rounded with each of n logs may be from theirs: the i-th
\* rounding shifts the sum by up to i / 2, all of them by n (n + 1) / 4, so k is 1; a
\* mean over projects is rounded once more, by n / 2, so k is 3.
Near(avg, S, k) ==
  LET n == Cardinality(S) off == avg * n - DurationSum(S) IN
  4 * off <= n * (n + k) /\ -4 * off <= n * (n + k)

\* useStats(): the figures are those of all logs, but for the rounding of the mean.
StatsTrue(stats, all) ==
  /\ stats = [Stats(all) EXCEPT !.avg = stats.avg]
  /\ stats.avg - MeanDuration(all) \in -1 .. 1

\* useChartData(): a bucket that begins within the range counts all logs of its time
\* and project; one that began before counts those within the range, and perhaps more
\* of its own.  Only the table leaves any time of the range out, below as many later
\* ones as a chart has.
ChartTrue(chart, all, since) ==
  LET TimeOf(l) == l.time \div Width
      Within(t) == t * Width >= since
      times  == {k[1] : k \in DOMAIN chart}
      recent == {l \in all : l.time >= since}
  IN
  /\ \A k \in DOMAIN chart :
       LET here == {l \in all : ChartKey(l) = k} IN
       /\ Cardinality(here \cap recent) <= chart[k].total
       /\ chart[k].total <= Cardinality(here)
       /\ Within(k[1]) => /\ chart[k].total = Cardinality(here) /\ Near(chart[k].avg, here, 1)
                          /\ chart[k].errors = Cardinality(here) - Cardinality(Successes(here))
  /\ \A l \in recent :
       \/ TimeOf(l) \in times
       \/ /\ backend = "postgres"
          /\ Cardinality({u \in {TimeOf(m) : m \in recent} : u > TimeOf(l)}) >= BarCount
  /\ \A t \in times : Within(t) => Near(LatencyAt(chart, t), {l \in all : TimeOf(l) = t}, 3)

\* Hosts that are all shown add up to the logs of the range.
HostsTrue(hosts, total) ==
  Cardinality(DOMAIN hosts) < MaxHosts =>
    SumOf([h \in DOMAIN hosts |-> hosts[h].count], DOMAIN hosts) = total

\* useProxyChartData(): likewise, below the limit.
ProxiesTrue(proxies, live, all) ==
  Cardinality(DOMAIN proxies) < MaxProxies => ProxiesMerged(proxies, live) = AllProxies(all)

\* The rows that the browser has: the newest to arrive, of all filters.
Held == {i \in DOMAIN logs : i > Len(logs) - MaxClientLogs}

\* "The stats bar and charts always describe the same rows the feed is showing":
\* when the server has counted the logs up to a time, and the browser adds those
\* after it, the statistics and the proxies are those of all logs that the feed
\* would show, the chart is of those of its range, and the hosts are of the range as
\* it was when they were counted, whichever store counted.  So it is while the browser
\* has the rows that came after that time: not when more came than it keeps (until the
\* next poll), nor when it has scrolled so far back that the newest fell out of its
\* list.  (Exports change no logs.)
FiguresTrue ==
  export.pc = "none" =>
    \A f \in {g \in Filters : ~Ambiguous(g)},
       at \in {t \in Times : \A i \in DOMAIN logs : logs[i].time > t => i \in Held} :
      LET base  == Left({i \in DOMAIN logs : ServerMatches(logs[i], f) /\ logs[i].time <= at})
          live  == Left({i \in Held : ClientMatches(logs[i], f) /\ logs[i].time > at})
          all   == {l \in Range(logs) : ClientMatches(l, f)}
          since == at - ChartRange
          chart == IF backend = "memory" THEN MemoryChart(base, since)
                   ELSE TableChart(Range(base), since)
      IN
      /\ StatsTrue(StatsMerged(Stats(Range(base)), Range(live)), all)
      /\ \A age \in Ages : ChartTrue(ChartMerged(chart, live, since + age), all, since + age)
      /\ \A hosts \in HostStats(Range(base), since) :
           HostsTrue(hosts, Cardinality({l \in all : since <= l.time /\ l.time <= at}))
      /\ \A proxies \in ProxyStats(Range(base), backend = "memory") :
           ProxiesTrue(proxies, Range(live), all)
=============================================================================
