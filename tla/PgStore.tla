------------------------------- MODULE PgStore -------------------------------
(***************************************************************************)
(* The write side of the PostgreSQL log store of the server                *)
(* (packages/server/src/store/pg.ts): add() buffers a log and hands back a *)
(* promise, flush() writes the buffer in one INSERT and falls back to one  *)
(* INSERT per row, trackInserts() and trim() keep a project under its row  *)
(* cap, clear() deletes logs, stats() answers from a short-lived cache and *)
(* close() flushes and ends the connection pool.                           *)
(*                                                                         *)
(* Node runs one callback at a time, so everything between two awaits is   *)
(* one step.  A query is three things that other steps may separate: it is *)
(* issued (ans = "none"), the database executes it (ans is set, the table  *)
(* changes), and Node continues the awaiting function with the answer.     *)
(* The pool has several connections, so queries execute in any order.      *)
(***************************************************************************)
EXTENDS Integers, Sequences, FiniteSets, Functions

CONSTANTS
  Calls,           (* the calls of add() that may be made, each at most once *)
  Ids, RowId,      (* RowId[c]: the primary key of the log passed by call c  *)
  Projects, ProjectOf,  (* the project of that log                           *)
  TimeOf,          (* its timestamp                                          *)
  Bad,             (* calls whose log the database rejects                   *)
  Flights,         (* bound: flush() invocations that may overlap            *)
  Clears,          (* calls of clear() that may be made, each at most once   *)
  Scopes, Unset,     (* the filters clear() is called with; Unset: no condition  *)
  Readers,         (* callers of stats()                                     *)
  Faults,          (* whether a query may fail for reasons of its own        *)
  FlushMax, CleanupInterval, MaxPerProject, TrimBatch

ASSUME PgStoreAssumption ==
  /\ IsFiniteSet(Calls)
  /\ RowId \in [Calls -> Ids]
  /\ ProjectOf \in [Calls -> Projects]
  /\ TimeOf \in [Calls -> Nat]
  /\ Bad \subseteq Calls
  /\ Scopes \subseteq [project : Projects \cup {Unset}, before : Nat \cup {Unset}]
  /\ Faults \in BOOLEAN
  /\ FlushMax \in Nat \ {0}
  /\ CleanupInterval \in Nat \ {0}
  /\ MaxPerProject \in Nat
  /\ TrimBatch \in Nat \ {0}

VARIABLES
  buffer,              (* calls waiting for a flush, oldest first            *)
  flushTimer,          (* whether the flush timer is armed                   *)
  flights,             (* the flush() invocations that are awaiting a query  *)
  promise,             (* the promise each call of add() returned            *)
  table,               (* request_logs: the calls whose row is stored        *)
  rowCounts,           (* rows each project is believed to have              *)
  insertsSinceCleanup, (* inserts counted since the last trim was started    *)
  trims,               (* the trim() of each project                         *)
  clears,              (* the calls of clear()                               *)
  cache,               (* the statistics cache: at most one answer           *)
  reads,               (* the calls of stats()                               *)
  closing,             (* progress of close(); "ended": closed, pool ended   *)
  removed,             (* history: keys of rows that trim or clear deleted   *)
  dropped              (* history: calls an unscoped clear took from buffer  *)

ingestVars == <<buffer, flushTimer, flights, promise>>
trimVars   == <<rowCounts, insertsSinceCleanup, trims>>
statsVars  == <<cache, reads>>
vars == <<ingestVars, table, trimVars, clears, statsVars, closing, removed, dropped>>

-----------------------------------------------------------------------------
Unknown   == -1                        (* Map.get() of a missing row count   *)
Answers   == {"none", "ok", "bad", "fault", "ended"}
Rejections == {"bad", "fault", "ended"}   (* the error a promise fails with   *)
IsUnscoped(s) == s.project = Unset /\ s.before = Unset

Flight == [pc : {"idle", "batch", "row"}, batch : Seq(Calls), next : Nat,
           ans : Answers, forClose : BOOLEAN]
Trim   == [pc : {"idle", "count", "delete"}, count : Int, ans : Answers, n : Nat]
Clear  == [pc : {"idle", "count", "truncate", "delete", "done", "failed"},
           scope : Scopes \cup {Unset}, ans : Answers, n : Nat, prior : SUBSET Calls]
Entry  == [data : SUBSET Calls, crossed : BOOLEAN]
Read   == [pc : {"idle", "query"}, ans : Answers, data : SUBSET Calls, crossed : BOOLEAN]

NoFlight == [pc |-> "idle", batch |-> << >>, next |-> 1, ans |-> "none", forClose |-> FALSE]
\* A trim or a clear that has issued its next query.
TrimAt(pc, count) == [pc |-> pc, count |-> count, ans |-> "none", n |-> 0]
NoTrim   == TrimAt("idle", 0)
ClearAt(pc, s, ans, prior) == [pc |-> pc, scope |-> s, ans |-> ans, n |-> 0, prior |-> prior]
NoClear  == ClearAt("idle", Unset, "none", {})
ReadAt(pc, ans) == [pc |-> pc, ans |-> ans, data |-> {}, crossed |-> FALSE]
NoRead   == ReadAt("idle", "none")

Init ==
  /\ buffer = << >> /\ flushTimer = FALSE
  /\ flights = [f \in Flights |-> NoFlight]
  /\ promise = [c \in Calls |-> "none"]
  /\ table = {}
  /\ rowCounts = [p \in Projects |-> Unknown]
  /\ insertsSinceCleanup = [p \in Projects |-> 0]
  /\ trims = [p \in Projects |-> NoTrim]
  /\ clears = [k \in Clears |-> NoClear]
  /\ cache = {} /\ reads = [r \in Readers |-> NoRead]
  /\ closing = "open"
  /\ removed = {} /\ dropped = {}

-----------------------------------------------------------------------------
(* The database.                                                           *)

\* What a query that Node issues now has for an answer: a pool that was ended
\* rejects it at once.
Issued == IF closing = "ended" THEN "ended" ELSE "none"

Stored(id) == \E r \in table : RowId[r] = id
RowsOf(p)  == {r \in table : ProjectOf[r] = p}
Matching(s) == {r \in table : /\ s.project \in {Unset, ProjectOf[r]}
                              /\ s.before = Unset \/ TimeOf[r] < s.before}
KeysOf(rows) == {RowId[r] : r \in rows}

\* INSERT ... ON CONFLICT (id) DO NOTHING: the rows of a statement that are new.
NewRows(batch) ==
  {batch[i] : i \in {j \in DOMAIN batch :
      /\ ~Stored(RowId[batch[j]])
      /\ \A h \in 1 .. j - 1 : RowId[batch[h]] # RowId[batch[j]]}}

\* An INSERT of batch: it commits and says so, it commits and the answer is lost,
\* or it fails as a whole, because of a malformed row or of a fault.
ExecuteInsert(batch, ans) ==
  \/ /\ Range(batch) \cap Bad = {}
     /\ table' = table \cup NewRows(batch)
     /\ ans = "ok" \/ (Faults /\ ans = "fault")
  \/ /\ UNCHANGED table
     /\ \/ Range(batch) \cap Bad # {} /\ ans = "bad"
        \/ Faults /\ ans = "fault"

\* A DELETE of the rows del: done, done with the answer lost, or not done.
ExecuteDelete(del, ans) ==
  \/ /\ table' = table \ del
     /\ removed' = removed \cup KeysOf(del)
     /\ ans = "ok" \/ (Faults /\ ans = "fault")
  \/ UNCHANGED <<table, removed>> /\ Faults /\ ans = "fault"

\* The subsets a DELETE with LIMIT n may choose among rows.
Limited(rows, n) ==
  {del \in SUBSET rows :
     Cardinality(del) = IF n <= Cardinality(rows) THEN n ELSE Cardinality(rows)}

\* ... and with ORDER BY timestamp ASC.
OldestOf(rows, n) ==
  {del \in Limited(rows, n) :
     \A old \in del, kept \in rows \ del : TimeOf[old] <= TimeOf[kept]}

-----------------------------------------------------------------------------
(* Retention: trackInserts() and trim().                                   *)

\* The loop head of trim(): ask for a deletion while the count is over the cap.
TrimLoop(count) ==
  IF count > MaxPerProject /\ closing # "ended"
    THEN TrimAt("delete", count) ELSE NoTrim

\* trim() up to its first await, given what rowCounts knows.
StartTrim(known) ==
  IF known = Unknown THEN TrimAt("count", 0) ELSE TrimLoop(known)

CountOf(batch, p) == Cardinality({i \in DOMAIN batch : ProjectOf[batch[i]] = p})

\* Enough inserts since the last trim to start one.
Due(batch, p) == /\ CountOf(batch, p) > 0
                 /\ insertsSinceCleanup[p] + CountOf(batch, p) >= CleanupInterval

\* A known row count grows with the batch, written or not, and a project that
\* is due gets a trim unless one is running.
TrackInserts(batch) ==
  IF closing = "ended" THEN UNCHANGED trimVars ELSE
  /\ rowCounts' = [p \in Projects |->
       IF rowCounts[p] = Unknown THEN Unknown ELSE rowCounts[p] + CountOf(batch, p)]
  /\ insertsSinceCleanup' = [p \in Projects |->
       IF Due(batch, p) THEN 0 ELSE insertsSinceCleanup[p] + CountOf(batch, p)]
  /\ trims' = [p \in Projects |->
       IF Due(batch, p) /\ trims[p].pc = "idle" THEN StartTrim(rowCounts'[p]) ELSE trims[p]]

\* The database executes the COUNT or the DELETE of trim(p).
ExecuteTrim(p) ==
  /\ trims[p].pc # "idle" /\ trims[p].ans = "none"
  /\ \/ /\ trims[p].pc = "count"
        /\ \/ trims' = [trims EXCEPT ![p].ans = "ok", ![p].n = Cardinality(RowsOf(p))]
           \/ Faults /\ trims' = [trims EXCEPT ![p].ans = "fault"]
        /\ UNCHANGED <<table, removed>>
     \/ /\ trims[p].pc = "delete"
        /\ LET excess == trims[p].count - MaxPerProject
               limit  == IF excess <= TrimBatch THEN excess ELSE TrimBatch
           IN \E del \in OldestOf(RowsOf(p), limit), ans \in {"ok", "fault"} :
                /\ ExecuteDelete(del, ans)
                /\ trims' = [trims EXCEPT ![p].ans = ans, ![p].n = Cardinality(del)]
  /\ UNCHANGED <<ingestVars, rowCounts, insertsSinceCleanup, clears, statsVars, closing, dropped>>

\* trim(p) continues with the row count it asked for.
TrimCounted(p) ==
  /\ trims[p].pc = "count" /\ trims[p].ans = "ok"
  /\ rowCounts' = [rowCounts EXCEPT ![p] = trims[p].n]
  /\ trims' = [trims EXCEPT ![p] = TrimLoop(trims[p].n)]
  /\ UNCHANGED <<ingestVars, table, insertsSinceCleanup, clears, statsVars, closing, removed, dropped>>

\* Mutant of Drained: the loop only looks at its count.
NeverDrained(t) == FALSE

\* The last DELETE found no row, whatever the count says.
Drained(t) == t.n = 0

\* trim(p) continues after a DELETE: the count is the one read before it.
TrimDeleted(p) ==
  /\ trims[p].pc = "delete" /\ trims[p].ans = "ok"
  /\ IF Drained(trims[p])
       THEN trims' = [trims EXCEPT ![p] = NoTrim] /\ UNCHANGED rowCounts
       ELSE LET left == trims[p].count - trims[p].n
            IN  /\ rowCounts' = [rowCounts EXCEPT ![p] = left]
                /\ trims' = [trims EXCEPT ![p] = TrimLoop(left)]
  /\ UNCHANGED <<ingestVars, table, insertsSinceCleanup, clears, statsVars, closing, removed, dropped>>

\* trim(p) gives up after a failed query and forgets the count.
TrimFailed(p) ==
  /\ trims[p].ans = "fault"
  /\ rowCounts' = [rowCounts EXCEPT ![p] = Unknown]
  /\ trims' = [trims EXCEPT ![p] = NoTrim]
  /\ UNCHANGED <<ingestVars, table, insertsSinceCleanup, clears, statsVars, closing, removed, dropped>>

-----------------------------------------------------------------------------
(* Ingestion: add() and flush().                                           *)

\* Mutants of TakeBuffer: the timer is left armed; the calls are copied, not taken.
TakeBufferKeepTimer == buffer' = << >> /\ UNCHANGED flushTimer
CopyBuffer == flushTimer' = FALSE /\ UNCHANGED buffer

ArmTimer   == flushTimer' = TRUE
TakeBuffer == flushTimer' = FALSE /\ buffer' = << >>

\* flush() up to its await, called with calls in the buffer: the timer is
\* cleared and the whole buffer becomes the batch of one INSERT.
Launch(f, calls, forClose) ==
  /\ flights[f].pc = "idle"
  /\ TakeBuffer
  /\ flights' = [flights EXCEPT ![f] =
       [pc |-> "batch", batch |-> calls, next |-> 1, ans |-> Issued, forClose |-> forClose]]

\* add(c) when the buffer stays below FLUSH_MAX: make sure the timer is armed.
AddBuffered(c) ==
  /\ promise[c] = "none"
  /\ Len(buffer) + 1 < FlushMax
  /\ buffer' = Append(buffer, c)
  /\ ArmTimer
  /\ promise' = [promise EXCEPT ![c] = "pending"]
  /\ UNCHANGED <<flights, table, trimVars, clears, statsVars, closing, removed, dropped>>

\* add(c) when the buffer reaches FLUSH_MAX: flush at once.
AddFull(c) ==
  /\ promise[c] = "none"
  /\ Len(buffer) + 1 >= FlushMax
  /\ \E f \in Flights : Launch(f, Append(buffer, c), FALSE)
  /\ promise' = [promise EXCEPT ![c] = "pending"]
  /\ UNCHANGED <<table, trimVars, clears, statsVars, closing, removed, dropped>>

\* The flush timer fires.
TimerFlush ==
  /\ flushTimer
  /\ IF buffer = << >>
       THEN flushTimer' = FALSE /\ UNCHANGED <<buffer, flights>>
       ELSE \E f \in Flights : Launch(f, buffer, FALSE)
  /\ UNCHANGED <<promise, table, trimVars, clears, statsVars, closing, removed, dropped>>

\* The database executes the INSERT of a flush, of the batch or of one row.
ExecuteFlush(f) ==
  /\ flights[f].pc # "idle" /\ flights[f].ans = "none"
  /\ \E ans \in {"ok", "bad", "fault"} :
       /\ LET fl == flights[f]
          IN  ExecuteInsert(IF fl.pc = "batch" THEN fl.batch ELSE <<fl.batch[fl.next]>>, ans)
       /\ flights' = [flights EXCEPT ![f].ans = ans]
  /\ UNCHANGED <<buffer, flushTimer, promise, trimVars, clears, statsVars, closing, removed, dropped>>

\* flush() returns; if close() awaits it, close() marks the store closed and
\* ends the pool.
FlushReturns(f) ==
  /\ TrackInserts(flights[f].batch)
  /\ flights' = [flights EXCEPT ![f] = NoFlight]
  /\ closing' = IF flights[f].forClose THEN "ended" ELSE closing

\* The batch was written: every promise of the batch resolves.
BatchWritten(f) ==
  /\ flights[f].pc = "batch" /\ flights[f].ans = "ok"
  /\ promise' = [c \in Calls |-> IF c \in Range(flights[f].batch) THEN "resolved" ELSE promise[c]]
  /\ FlushReturns(f)
  /\ UNCHANGED <<buffer, flushTimer, table, clears, statsVars, removed, dropped>>

\* Mutant of BatchFailed: a failed batch rejects every call of it.
BatchRejected(f) ==
  /\ flights[f].pc = "batch" /\ flights[f].ans \in Rejections
  /\ promise' = [c \in Calls |-> IF c \in Range(flights[f].batch) THEN flights[f].ans ELSE promise[c]]
  /\ FlushReturns(f)
  /\ UNCHANGED <<buffer, flushTimer, table, clears, statsVars, removed, dropped>>

\* The batch INSERT failed: insertOneByOne() starts with the first row.
BatchFailed(f) ==
  /\ flights[f].pc = "batch" /\ flights[f].ans \in Rejections
  /\ flights' = [flights EXCEPT ![f].pc = "row", ![f].ans = Issued]
  /\ UNCHANGED <<buffer, flushTimer, promise, table, trimVars, clears, statsVars, closing,
                 removed, dropped>>

\* Mutant of LastRow: one row too many.
PastLastRow(fl) == fl.next > Len(fl.batch)
\* Mutant of RowOutcome: the error of a row is swallowed.
AlwaysResolved(ans) == "resolved"

LastRow(fl) == fl.next = Len(fl.batch)
RowOutcome(ans) == IF ans = "ok" THEN "resolved" ELSE ans

\* insertOneByOne() settles the promise of one row and goes on with the next.
RowAnswered(f) ==
  LET fl == flights[f] IN
  /\ fl.pc = "row" /\ fl.ans # "none"
  /\ promise' = [promise EXCEPT ![fl.batch[fl.next]] = RowOutcome(fl.ans)]
  /\ IF LastRow(fl)
       THEN FlushReturns(f)
       ELSE /\ flights' = [flights EXCEPT ![f].next = fl.next + 1, ![f].ans = Issued]
            /\ UNCHANGED <<trimVars, closing>>
  /\ UNCHANGED <<buffer, flushTimer, table, clears, statsVars, removed, dropped>>

-----------------------------------------------------------------------------
(* clear().                                                                *)

Acknowledged == {c \in Calls : promise[c] = "resolved"}

\* clear(scope) with a project or a date: the buffer is left alone.
ClearScoped(k, s) ==
  /\ clears[k].pc = "idle" /\ ~IsUnscoped(s)
  /\ clears' = [clears EXCEPT ![k] = ClearAt("delete", s, Issued, Acknowledged)]
  /\ UNCHANGED <<ingestVars, table, trimVars, statsVars, closing, removed, dropped>>

\* clear() of everything: the buffer is dropped and its promises resolve.
ClearAll(k, s) ==
  /\ clears[k].pc = "idle" /\ IsUnscoped(s)
  /\ TakeBuffer
  /\ promise' = [c \in Calls |-> IF c \in Range(buffer) THEN "resolved" ELSE promise[c]]
  /\ dropped' = dropped \cup Range(buffer)
  /\ clears' = [clears EXCEPT ![k] =
       ClearAt("count", s, Issued, Acknowledged \cup Range(buffer))]
  /\ UNCHANGED <<flights, table, trimVars, statsVars, closing, removed>>

\* The database executes the COUNT, the TRUNCATE or one DELETE of a clear.
\* A TRUNCATE that waits too long for its lock is rolled back ("fault").
ExecuteClear(k) ==
  /\ clears[k].ans = "none"
  /\ \/ /\ clears[k].pc = "count"
        /\ \E ans \in {"ok", "fault"} :
             /\ Faults \/ ans = "ok"
             /\ clears' = [clears EXCEPT ![k].ans = ans]
        /\ UNCHANGED <<table, removed>>
     \/ /\ clears[k].pc = "truncate"
        /\ \E ans \in {"ok", "fault"} :
             /\ ExecuteDelete(table, ans)
             /\ clears' = [clears EXCEPT ![k].ans = ans]
     \/ /\ clears[k].pc = "delete"
        /\ \E del \in Limited(Matching(clears[k].scope), TrimBatch), ans \in {"ok", "fault"} :
             /\ ExecuteDelete(del, ans)
             /\ clears' = [clears EXCEPT ![k].ans = ans, ![k].n = Cardinality(del)]
  /\ UNCHANGED <<ingestVars, trimVars, statsVars, closing, dropped>>

\* Mutant of FoundRows: a full DELETE is taken for the last one.
FoundMoreThanLimit(k) == clears[k].n > TrimBatch

\* The last DELETE of a clear found rows, so there may be more.
FoundRows(k) == clears[k].n > 0

\* clear() goes on: TRUNCATE follows the COUNT, a DELETE follows one that found rows.
ClearContinues(k) ==
  /\ clears[k].ans = "ok"
  /\ \/ clears[k].pc = "count"  /\ clears' = [clears EXCEPT ![k].pc = "truncate", ![k].ans = Issued]
     \/ clears[k].pc = "delete" /\ FoundRows(k) /\ clears' = [clears EXCEPT ![k].ans = Issued]
  /\ UNCHANGED <<ingestVars, table, trimVars, statsVars, closing, removed, dropped>>

\* invalidateCaches(); a stats query that is under way keeps going.
InvalidateCaches ==
  /\ cache' = {}
  /\ reads' = [r \in Readers |-> [reads[r] EXCEPT !.crossed = reads[r].pc = "query"]]

\* clear() is done: the counters it made wrong and the caches are forgotten.
ClearReturns(k) ==
  LET s == clears[k].scope IN
  /\ clears[k].ans = "ok"
  /\ \/ /\ clears[k].pc = "truncate"
        /\ insertsSinceCleanup' = [p \in Projects |-> 0]
        /\ rowCounts' = [p \in Projects |-> Unknown]
     \/ /\ clears[k].pc = "delete" /\ ~FoundRows(k)
        /\ rowCounts' = [p \in Projects |-> IF s.project \in {Unset, p} THEN Unknown ELSE rowCounts[p]]
        /\ UNCHANGED insertsSinceCleanup
  /\ clears' = [clears EXCEPT ![k].pc = "done", ![k].ans = "none", ![k].n = 0]
  /\ InvalidateCaches
  /\ UNCHANGED <<ingestVars, table, trims, closing, removed, dropped>>

\* A query of clear() failed and clear() rejects.
ClearFails(k) ==
  /\ clears[k].ans \in Rejections
  /\ clears' = [clears EXCEPT ![k].pc = "failed", ![k].ans = "none", ![k].n = 0]
  /\ UNCHANGED <<ingestVars, table, trimVars, statsVars, closing, removed, dropped>>

-----------------------------------------------------------------------------
(* stats(), and its three siblings for the charts: an answer is cached for a *)
(* short time.  Time is left out: a cached answer may be found fresh or old. *)

StatsQueries(r) ==
  /\ reads[r].pc = "idle"
  /\ reads' = [reads EXCEPT ![r] = ReadAt("query", Issued)]
  /\ UNCHANGED <<ingestVars, table, trimVars, clears, cache, closing, removed, dropped>>

ExecuteStats(r) ==
  /\ reads[r].pc = "query" /\ reads[r].ans = "none"
  /\ \/ reads' = [reads EXCEPT ![r].ans = "ok", ![r].data = table]
     \/ Faults /\ reads' = [reads EXCEPT ![r].ans = "fault"]
  /\ UNCHANGED <<ingestVars, table, trimVars, clears, cache, closing, removed, dropped>>

StatsAnswers(r) ==
  /\ reads[r].pc = "query" /\ reads[r].ans # "none"
  /\ cache' = IF reads[r].ans = "ok"
                THEN {[data |-> reads[r].data, crossed |-> reads[r].crossed]} ELSE cache
  /\ reads' = [reads EXCEPT ![r] = NoRead]
  /\ UNCHANGED <<ingestVars, table, trimVars, clears, closing, removed, dropped>>

-----------------------------------------------------------------------------
\* close(): flush what is buffered, then mark the store closed and end the pool.
Close ==
  /\ closing = "open"
  /\ IF buffer = << >>
       THEN flushTimer' = FALSE /\ closing' = "ended" /\ UNCHANGED <<buffer, flights>>
       ELSE closing' = "flushing" /\ \E f \in Flights : Launch(f, buffer, TRUE)
  /\ UNCHANGED <<promise, table, trimVars, clears, statsVars, removed, dropped>>

-----------------------------------------------------------------------------
FlushStep(f) == ExecuteFlush(f) \/ BatchWritten(f) \/ BatchFailed(f) \/ RowAnswered(f)
TrimStep(p)  == ExecuteTrim(p) \/ TrimCounted(p) \/ TrimDeleted(p) \/ TrimFailed(p)
ClearStep(k) == ExecuteClear(k) \/ ClearContinues(k) \/ ClearReturns(k) \/ ClearFails(k)
StatsStep(r) == ExecuteStats(r) \/ StatsAnswers(r)

Next ==
  \/ \E c \in Calls : AddBuffered(c) \/ AddFull(c)
  \/ TimerFlush
  \/ \E f \in Flights : FlushStep(f)
  \/ \E p \in Projects : TrimStep(p)
  \/ \E k \in Clears, s \in Scopes : ClearScoped(k, s) \/ ClearAll(k, s)
  \/ \E k \in Clears : ClearStep(k)
  \/ \E r \in Readers : StatsQueries(r) \/ StatsStep(r)
  \/ Close

Spec == Init /\ [][Next]_vars

\* Node's event loop fires due timers and continues answered functions, and the
\* database answers every query; nobody has to call add, clear, stats or close.
Fairness ==
  /\ WF_vars(TimerFlush)
  /\ \A f \in Flights : WF_vars(FlushStep(f))
  /\ \A p \in Projects : WF_vars(TrimStep(p))
  /\ \A k \in Clears : WF_vars(ClearStep(k))
  /\ \A r \in Readers : WF_vars(StatsStep(r))

FairSpec == Spec /\ Fairness
-----------------------------------------------------------------------------
(* Properties.                                                             *)

TypeOK ==
  /\ buffer \in Seq(Calls) /\ flushTimer \in BOOLEAN
  /\ flights \in [Flights -> Flight]
  /\ \A f \in Flights : flights[f].pc # "idle" => flights[f].next \in 1 .. Len(flights[f].batch)
  /\ promise \in [Calls -> {"none", "pending", "resolved"} \cup Rejections]
  /\ table \in SUBSET Calls
  /\ rowCounts \in [Projects -> Int] /\ insertsSinceCleanup \in [Projects -> Nat]
  /\ trims \in [Projects -> Trim]
  /\ clears \in [Clears -> Clear]
  /\ cache \in SUBSET Entry /\ reads \in [Readers -> Read]
  /\ closing \in {"open", "flushing", "ended"}
  /\ removed \in SUBSET Ids /\ dropped \in SUBSET Calls

\* A buffered log never waits without a timer, an empty buffer never keeps one,
\* and the buffer is flushed before it holds FLUSH_MAX logs.  add(), flush(),
\* clear() and close() each touch both.
TimerCovers ==
  /\ flushTimer <=> buffer # << >>
  /\ Len(buffer) < FlushMax

\* The calls whose promise a flight has still to settle.
Unsettled(fl) == {fl.batch[i] : i \in fl.next .. Len(fl.batch)}
Awaiting == UNION {Unsettled(flights[f]) : f \in Flights}

IsOnce(s) == \A i, j \in DOMAIN s : s[i] = s[j] => i = j

\* Every unsettled call of add() is in the buffer or in one flush, once, and
\* nothing settled is in either: no log is lost on the way from the buffer to
\* the retry row by row, and no promise is settled twice.
OnePlace ==
  /\ {c \in Calls : promise[c] = "pending"} = Range(buffer) \cup Awaiting
  /\ Range(buffer) \cap Awaiting = {}
  /\ \A f, g \in Flights : f # g => Unsettled(flights[f]) \cap Unsettled(flights[g]) = {}
  /\ IsOnce(buffer)
  /\ \A f \in Flights : IsOnce(flights[f].batch)

\* A promise of add() is settled at most once: what a caller was told is not
\* changed by a retry, by a clear() or by the end of the pool.
SettledOnce ==
  [][\A c \in Calls : promise[c] \notin {"none", "pending"} => promise'[c] = promise[c]]_vars

\* add() resolves only for a log that reached the table, unless an unscoped
\* clear() took it from the buffer: afterwards its key is stored, or trim() or
\* clear() deleted it.  It covers duplicate keys and commits whose answer is lost.
Durable ==
  \A c \in Calls : promise[c] = "resolved" =>
    c \in dropped \/ RowId[c] \in KeysOf(table) \cup removed

\* The calls that a finished clear() had to remove: acknowledged when it started.
Cleared == UNION {{c \in clears[k].prior : /\ clears[k].scope.project \in {Unset, ProjectOf[c]}
                                           /\ clears[k].scope.before = Unset
                                              \/ TimeOf[c] < clears[k].scope.before} :
                  k \in {h \in Clears : clears[h].pc = "done"}}

\* Once clear() has returned, no log in its scope that was acknowledged before
\* it started is in the table, whatever was being flushed or retried meanwhile.
ClearedStayGone == table \cap Cleared = {}

\* The statistics cache holds no answer that counts a cleared log, unless the
\* query was already under way when a clear() invalidated the caches.
CacheForgetsCleared == \A e \in cache : ~e.crossed => e.data \cap Cleared = {}

\* What a returned clear() had to remove is neither stored nor counted again.
ClearIsFinal == ClearedStayGone /\ CacheForgetsCleared

Abstract == INSTANCE LogStore
\* The store keeps the contract of LogStore: each step is one of its steps or
\* none.  A row enters the table only while its add() is unanswered, so a retry
\* after a lost answer never stores a log that was already accounted for; and a
\* well-formed log is not refused because of a malformed one that shared its
\* batch (insertOneByOne()).
ImplementsLogStore == Abstract!Spec

\* Every promise of add() is settled in the end.
Settles == \A c \in Calls : (promise[c] = "pending") ~> (promise[c] # "pending")

\* The loops of trim() and of a scoped clear() end, whatever the counts say and
\* whatever is inserted or deleted between two DELETEs.
LoopsEnd ==
  /\ \A p \in Projects : trims[p].pc # "idle" ~> trims[p].pc = "idle"
  /\ \A k \in Clears : clears[k].pc # "idle" ~> clears[k].pc \in {"done", "failed"}

\* Whatever the store has begun it finishes.
EverythingEnds == Settles /\ LoopsEnd
=============================================================================
