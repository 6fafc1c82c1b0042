------------------------------- MODULE Figures -------------------------------
(***************************************************************************)
(* The figures of the dashboard: which logs a filter matches on the server *)
(* (buildConditions() of store/pg.ts and matchesFilter() of store/index.ts)*)
(* and in the browser (client/src/lib/log-filter.ts); the aggregates of    *)
(* both stores (stats, chartStats, proxyStats, hostStats); and how the     *)
(* hooks use-stats.ts, use-chart-data.ts and use-proxy-chart-data.ts add   *)
(* the logs that arrived since.                                            *)
(*                                                                         *)
(* A log has an id and a time; Attr gives what else the figures depend on. *)
(* null is None.  Methods are counted as status codes are.  A search is a  *)
(* test of the log alone, the same at all places but for the wildcards of  *)
(* ILIKE, and is left out, as are the criteria that the dashboard does not *)
(* offer.  The host of a proxy has no colon, so that a label is split      *)
(* where it was joined.  Charts and hosts are of the range of time that is *)
(* picked (since is where it begins); statistics are of all times, and so  *)
(* are proxies, whose route leaves the range it is sent aside.             *)
(***************************************************************************)
EXTENDS Integers, Sequences, FiniteSets, SequencesExt

CONSTANTS
  Attr,       (* per id: project, host, status, success, duration, size and  *)
              (* proxy, which is a host and a port                           *)
  None,       (* null, and a criterion that is not set                       *)
  ChartRange, (* chartRange: how far back charts and hosts go                *)
  BarCount,   (* BAR_COUNT: the time buckets of a chart                      *)
  MaxProxies, (* the LIMIT of proxyStats()                                   *)
  MaxHosts    (* the limit of hostStats()                                    *)

\* A proxy is nothing but its host and its port.
IsProxy(p) == p = [host |-> p.host, port |-> p.port]

ASSUME FiguresAssumption ==
  /\ ChartRange \in Nat /\ BarCount \in Nat \ {0}
  /\ MaxProxies \in Nat \ {0} /\ MaxHosts \in Nat \ {0}
  /\ \A i \in DOMAIN Attr :
       /\ Attr[i].success \in BOOLEAN
       /\ Attr[i].duration \in Nat /\ Attr[i].size \in Nat \cup {None}
       /\ Attr[i].proxy # None => IsProxy(Attr[i].proxy)

-----------------------------------------------------------------------------
(* Filters.                                                                *)

MatchesBesideProxy(l, f) ==
  /\ f.project \in {None, Attr[l.id].project} /\ f.host \in {None, Attr[l.id].host}
  /\ f.success \in {None, Attr[l.id].success}
  /\ f.statusRange # None =>
       /\ Attr[l.id].status # None
       /\ f.statusRange <= Attr[l.id].status /\ Attr[l.id].status < f.statusRange + 100

\* buildConditions() and matchesFilter(): a proxy without a port stands for its host.
ServerMatches(l, f) ==
  /\ MatchesBesideProxy(l, f)
  /\ f.proxy # None => /\ Attr[l.id].proxy # None
                       /\ f.proxy.host = Attr[l.id].proxy.host
                       /\ f.proxy.port \in {None, Attr[l.id].proxy.port}

\* matchesLog(): the label is the same, or there is none in both.
ClientMatches(l, f) == MatchesBesideProxy(l, f) /\ f.proxy \in {None, Attr[l.id].proxy}

-----------------------------------------------------------------------------
(* Counting a set of logs.                                                 *)

\* Math.round(a / n), and ROUND(a / n).
Rounded(a, n) == (2 * a + n) \div (2 * n)

\* The sum of a function's values over a set.
SumOf(f, S) == MapThenSumSet(LAMBDA x : f[x], S)

Successes(S)    == {l \in S : Attr[l.id].success}
DurationSum(S)  == SumOf([l \in S |-> Attr[l.id].duration], S)
SizeSum(S)      == SumOf([l \in S |-> IF Attr[l.id].size = None THEN 0 ELSE Attr[l.id].size], S)
MeanDuration(S) == IF S = {} THEN 0 ELSE Rounded(DurationSum(S), Cardinality(S))

\* One bucket for each key.
Grouped(S, Key(_), Bucket(_)) ==
  [k \in {Key(l) : l \in S} |-> Bucket({l \in S : Key(l) = k})]

StatusOf(l) == Attr[l.id].status
StatusCodes(S) == Grouped({l \in S : StatusOf(l) # None}, StatusOf, Cardinality)

\* stats(), but for requests_per_minute.
Stats(S) ==
  [total |-> Cardinality(S), success |-> Cardinality(Successes(S)),
   errors |-> Cardinality(S) - Cardinality(Successes(S)),
   avg |-> MeanDuration(S), codes |-> StatusCodes(S)]

\* The n buckets with the highest counts, any of those that have as many.
Largest(buckets, n) ==
  {Restrict(buckets, K) : K \in {K \in SUBSET DOMAIN buckets :
     /\ Cardinality(K) = Min({n, Cardinality(DOMAIN buckets)})
     /\ \A k \in K, m \in DOMAIN buckets \ K : buckets[k].count >= buckets[m].count}}

Volume(S) == [count |-> Cardinality(S), success |-> Cardinality(Successes(S)),
              errors |-> Cardinality(S \ Successes(S)), size |-> SizeSum(S)]

\* proxyStats(): by proxy and project.  The in-memory store has no limit.
ProxyKey(l) == <<Attr[l.id].proxy, Attr[l.id].project>>
Proxied(S)  == {l \in S : Attr[l.id].proxy # None}
AllProxies(S)  == Grouped(Proxied(S), ProxyKey, Volume)
ProxyStats(S, memory) == IF memory THEN {AllProxies(S)} ELSE Largest(AllProxies(S), MaxProxies)

\* hostStats(), alike in both stores: of the logs of the range.
HostOf(l) == Attr[l.id].host
HostVolume(S) ==
  [count |-> Cardinality(S), success |-> Cardinality(Successes(S)),
   errors |-> Cardinality(S \ Successes(S)), size |-> SizeSum(S), avg |-> MeanDuration(S)]
HostStats(S, since) ==
  Largest(Grouped({l \in S : l.time >= since}, HostOf, HostVolume), MaxHosts)

-----------------------------------------------------------------------------
(* Charts.                                                                 *)

\* bucketSec: the width of a time bucket.
Width == Max({1, ChartRange \div BarCount})

ChartKey(l) == <<l.time \div Width, Attr[l.id].project>>

\* Mutant of Counted: the total is counted up before the old mean is weighed.
CountedFirst(b, l) ==
  LET n == b.total + 1
      one == IF Attr[l.id].success THEN 1 ELSE 0
  IN [total |-> n, success |-> b.success + one, errors |-> b.errors + 1 - one,
      avg |-> Rounded(b.avg * n + Attr[l.id].duration, n)]

\* One more log in a bucket, whose mean is rounded again.
Counted(b, l) ==
  LET n == b.total + 1
      one == IF Attr[l.id].success THEN 1 ELSE 0
  IN [total |-> n, success |-> b.success + one, errors |-> b.errors + 1 - one,
      avg |-> Rounded(b.avg * b.total + Attr[l.id].duration, n)]

\* One more log in the map of the buckets.
CountedIn(buckets, l) ==
  LET k   == ChartKey(l)
      old == IF k \in DOMAIN buckets THEN buckets[k]
             ELSE [total |-> 0, success |-> 0, errors |-> 0, avg |-> 0]
  IN [b \in DOMAIN buckets \cup {k} |-> IF b = k THEN Counted(old, l) ELSE buckets[b]]

\* The logs of a sequence, counted one after another, but for those before a time.
CountedAll(buckets, s, since) ==
  LET after[n \in 0 .. Len(s)] ==
        IF n = 0 THEN buckets
        ELSE IF s[n].time < since THEN after[n - 1] ELSE CountedIn(after[n - 1], s[n])
  IN after[Len(s)]

\* chartStats() of the in-memory store, log by log.
MemoryChart(s, since) == CountedAll(<<>>, s, since)

\* chartStats() of the table: one GROUP BY, cut to the newest time buckets.
TableChart(S, since) ==
  LET recent == {l \in S : l.time >= since}
      times  == {ChartKey(l)[1] : l \in recent}
      newest == {t \in times : Cardinality({u \in times : u > t}) < BarCount}
  IN Grouped({l \in recent : ChartKey(l)[1] \in newest}, ChartKey,
             LAMBDA T : [total |-> Cardinality(T), success |-> Cardinality(Successes(T)),
                         errors |-> Cardinality(T \ Successes(T)), avg |-> MeanDuration(T)])

\* latencyBuckets of buildChartDatasets(): the mean over the projects of a time.
LatencyAt(buckets, t) ==
  LET at == {k \in DOMAIN buckets : k[1] = t} IN
  Rounded(SumOf([k \in at |-> buckets[k].avg * buckets[k].total], at),
          SumOf([k \in at |-> buckets[k].total], at))

-----------------------------------------------------------------------------
(* What the hooks make of an answer and the logs that came since.          *)

\* useStats().
StatsMerged(st, live) ==
  LET n == st.total + Cardinality(live)
      codes == StatusCodes(live)
      Of(counts, c) == IF c \in DOMAIN counts THEN counts[c] ELSE 0
  IN [total |-> n, success |-> st.success + Cardinality(Successes(live)),
      errors |-> st.errors + (Cardinality(live) - Cardinality(Successes(live))),
      avg |-> IF n = 0 THEN 0 ELSE Rounded(st.avg * st.total + DurationSum(live), n),
      codes |-> [c \in DOMAIN st.codes \cup DOMAIN codes |-> Of(st.codes, c) + Of(codes, c)]]

\* useChartData(): each log of the range, which has moved on since the answer, is
\* counted into its bucket or starts one.  The buckets of the answer all stay.
ChartMerged(buckets, live, since) == CountedAll(buckets, live, since)

\* useProxyChartData().
ProxiesMerged(buckets, live) ==
  LET more == AllProxies(live)
      Plus(a, b) == [count |-> a.count + b.count, success |-> a.success + b.success,
                     errors |-> a.errors + b.errors, size |-> a.size + b.size]
  IN [k \in DOMAIN buckets \cup DOMAIN more |->
        IF k \notin DOMAIN more THEN buckets[k]
        ELSE IF k \notin DOMAIN buckets THEN more[k] ELSE Plus(buckets[k], more[k])]
=============================================================================
