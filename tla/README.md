# reqtrace in TLA+

reqtrace records the HTTP requests that Node programs make and shows them live.
An SDK in the program sends a `request_start` and a `request_end` for each
request over a WebSocket; a Fastify server stores the logs in PostgreSQL (or in
memory) and broadcasts them; a React dashboard shows them, scrolls back through
what is stored, and polls statistics.

This directory holds TLA+ modules of that system, the TLC configurations that
check them on small instances, and proofs of their most important invariants for
every instance, checked by TLAPS. `PROJECT.json` lists the runs, the lines of
source behind every definition, a mutant of the code for every property (a change
that the property detects), the hazards of the code, and the theorems. Source
paths below are relative to `src/packages/`.

    tlc -config MCDashSocket.cfg MCDashSocket      model-check one run
    tlapm PgStoreProofs.tla                        check the proofs of a module

## 1. The system

```
 host program                      server                               browser
+----------------------+   ws    +---------------------------+   ws   +---------------------+
| adapters -> core ->  | ------> | ws route -> log store     | -----> | WebSocketService -> |
|            transport |         |          -> broadcast     |        |   feed, filters     |
+----------------------+         | REST: logs, stats, auth   | <----- | loader, polls, auth |
                                 +-------------+-------------+  http  +---------------------+
                                          PostgreSQL
```

| Component | State | Operations | What is hard | Correct when |
| --- | --- | --- | --- | --- |
| PostgreSQL log store, `server/src/store/pg.ts` | insert buffer, flush timer, row counts, caches, the table | add, flush, retry row by row, trim, clear, stats, close | every await lets other callbacks in; lost answers, malformed rows, duplicate keys, several flushes, trims and clears at once | no log is lost, stored twice or acknowledged unstored; cleared rows stay out of the table; every promise settles; every loop ends |
| SDK transport, `sdk/src/transport.ts` | socket, buffer, reconnect timer and delay | connect, flush, send, close, the socket's events | who reconnects after which event; limits; order | one way forward at a time; every message accounted for; order kept; a rejected key is final |
| SDK core and adapters, `sdk/src/core.ts`, `adapters/*.ts` | configuration, the wrapped functions, deferred logs | install, eject, updateConfig, destroy, a traced call | the host's callbacks throw; several wrappers of one fetch; changes while a call is under way | the caller is not harmed; starts and ends belong together; fetch is restored |
| Dashboard connections, `server/src/ws/index.ts`, `routes/ws.ts`, `plugins/auth.ts` | clients, heartbeat, queues, the pending token queries | admission, heartbeat, broadcast, token check, shutdown | the socket closes while its token is looked up; dead peers; slow readers; ended sessions | nobody is connected and forgotten, unless a send() throws; who stays misses nothing; the dead and the revoked leave |
| Sessions, `server/src/routes/auth.ts`, `plugins/auth.ts`, `client/src/services/http.ts`, `stores/use-auth-store.ts` | `users.token`, the tab's token, `localStorage` | register, login, logout, the REST hook, 401 handling, storage events | concurrent logins, lost replies, failed updates, several tabs | a verdict was true during the request, unless its query failed; no browser holds a token that was never stored; a useless session is left |
| Dashboard feed, `client/src/hooks/use-websocket.ts`, `use-log-loader.ts`, `stores/use-log-store.ts` | list, in-flight map, message buffers, cursor, generation | flush, loader effect, loadMore, refreshLogs, pause, clear, filter change | pages that arrive late; starts and ends in one batch; buffers that overflow while paused | the list belongs to its filter and has no gap; scrolling goes on; what ended does not spin |
| Dashboard WebSocket service, `client/src/services/websocket.ts` | socket, timer | connect, reconnect, dispose | a pending close event against an armed timer; a refusal that logs out from inside its own event; signing in and out under way | one socket or one timer for the dashboard that is shown; the header is right; a lost link comes back; a dead token leaves |
| Paging, in-memory store, export, figures: `server/src/store/index.ts`, `store/pg.ts`, `routes/logs.ts`, `client/src/lib/log-filter.ts`, `hooks/use-*-data.ts`, `use-stats.ts` | array or table, cursor | add, clear, page, export, filter, aggregate, merge of live logs | inserts and deletes between two pages, equal timestamps, logs that arrive late; two stores and a browser that filter and count apart from one another; rounding | an export has every log that stayed, once, newest first; the panels show the figures of what the feed shows, charts and hosts those of the time range |
| Statistics, `client/src/hooks/use-polled-get.ts`, `server/src/routes/stats.ts`, caches of `store/pg.ts` | last answer, request under way, interval; cached answers | effect, poll, abort, hide and show, wipe, cached query | overlapping polls, changed parameters, a cache that is older than the question, time | a panel answers the question that is asked, not with an answer from before a wipe, and is not older than a bound |
| Server assembly, schemas, environment | none | start, shut down | order of the closing hooks | in Broadcast (`Shutdown`) and PgStore (`Close`) |
| User interface | none of its own | rendering | | not modelled |

How they interact: an adapter calls the core, which calls the transport's `send`.
The `/ws` route calls `store.add()`, awaits its promise and then calls
`broadcast()`; so the promise of `PgStore` is what decides whether an event of
`Broadcast` is sent, and an event of `Broadcast` is a message in the `inbox` of
`Feed`. `users.token` is shared by `Session`, which writes it, and `Broadcast`,
which compares it. Components are modelled with their neighbours reduced to what
they may do: `Feed`'s server stores, announces and clears; `Broadcast`'s sessions
start and end; `Transport`'s peer opens, rejects, reads or closes.

## 2. Modules

| Module | What it is |
| --- | --- |
| `Link` | what both ends that reconnect promise: a link that is lost comes up again until its owner lets go of it |
| `LogStore` | the contract of the log store: an `add()` is answered once; only an unanswered one enters the table; success only if the row was stored or a clear of everything took it; refused as malformed only if it is |
| `PgStore` | the store as it is implemented, refining `LogStore` |
| `Transport` | the SDK's connection, implementing `Link` |
| `DashSocket` | the dashboard's connection, implementing `Link`, with the page and the session that it belongs to |
| `Adapters` | core and adapters inside the host |
| `Broadcast` | dashboards connected to the server |
| `Session` | accounts, tokens, tabs |
| `Feed` | the live list of one dashboard |
| `Figures` | filters, aggregates and merges: pure operators |
| `Paging` | pages of both stores, the export, and the figures of each state |
| `LiveStats` | how one panel is kept up to date: hook, routes, caches, time |
| `MC*` | model values, symmetry and small instances of each |
| `PgStoreProofs`, `TransportProofs`, `AdaptersProofs`, `DashSocketProofs`, `SessionProofs`, `FeedProofs`, `LiveStatsProofs` | theorems, each about the module it is named after |
| `DeliveryProofs` | theorems about `Paging` and `Broadcast`, what the server hands out (`Paging`'s `PagingInit`, `PagingNext`, `PagingSpec`, `pagingVars`, `PagingTypeOK` have its name in theirs, so that both can be extended) |

**Atomicity.** Node and the browser run one callback at a time. What runs between
two awaits is one action, everything it calls included; a query is issued in one
action, executed by its server in another and continued in a third, and the
actions of other callbacks, of other queries and of other programs come between.
So `PgStore` splits `flush()` into `Launch` (the buffer is taken and the INSERT
issued), `ExecuteFlush` (the database runs it, rejects it, or commits and loses
the answer), and `BatchWritten` or `BatchFailed` (the continuation); and
`Session` splits a login into `LoginChecked` and `LoginStored`. Names of actions
and variables follow the source where TLA+ allows.

**PgStore.** A log is the call of `add()` that passed it, with a key, a project
and a time; `table` is the set of calls whose row is stored, so that a duplicate
key and a second row are told apart. `flights` are flushes under way. The
database executes queries in any order, since the pool has several connections;
an INSERT whose answer is lost may have been committed. `Bad` logs make the
whole INSERT fail, and the retry row by row blames them alone. A statistics query
carries the rows it saw, and whether a clear invalidated the caches meanwhile.

**Transport.** Messages are numbered, a size is one, so `bufferedAmount` is the
length of `queue`. `handed` is the order in which messages reached sockets.
A socket is `connecting`, `open`, `closing` (its close event is pending) or gone;
a constructor that throws is an outcome of `Connect`.

**Adapters.** `current` is `globalThis.fetch`, `original[a]` what adapter `a`
found when it was installed; `Reach`, the least set closed under these, is the wrappers
that a call of fetch passes on the way. A trace is a call, an adapter and the project its start
named. `starts` and `ends` collect what was handed to the transport, `jobs` are
the logs deferred with `setImmediate`.

**Broadcast.** `clients` stands for `clients` and `authClients`, which the code
changes together. `admission[s]` is the SELECT that `routes/ws.ts` awaits, `check`
the one of the periodic check. `peer[s]` says whether the browser is still there,
`queue[s]` what it has not read. `ping()` and `send()` may throw; both callers catch that
with `removeClient()` alone, so the socket stays open (`server/src/ws/index.ts:51-55`,
`87-91`). `thrown` remembers these sockets until they close.

**Session.** Each tab has at most one form, one request to a guarded route and one
logout under way. A token is the address and the second it was signed in, as in
`app.jwt.sign({ email })`: two logins of one second give the same token. Storage
events reach the other tabs of a browser later and in order. `seen` is a history: what
was so of the token of a tab's guarded request at any moment since it was sent (stored or
ended, valid or expired), and whether the request's own query failed.

**Paging.** `logs` is the array of the in-memory store, in the order of insertion;
for PostgreSQL only the set of its members counts. The run explores both stores
(`backend`). A page is a function of the store, a filter and a cursor, as
`list()` and `pageQuery` compute it: of the rows found, the first n in an order
(`First`), the i-th being the one with i - 1 before it (`Rank`). The export alternates between reading a page
(`ReadPage`, the awaited `listFull()`) and writing it (`WritePage`), and logs come and
go in between. A row's timestamp returns from PostgreSQL as a JavaScript `Date`, so
the cursor keeps whole milliseconds (`CursorOf`). The browser keeps the newest
`MaxClientLogs` rows that arrived, of whatever filter (`Held`).

**Figures.** Four aggregates, each in up to three versions: SQL over the table, a
loop over the array of the in-memory store, and a loop in the browser that goes on
from an answer of either. `TableChart` groups a set of logs; `MemoryChart` and
`ChartMerged` count one log after another (`CountedAll`), which rounds the mean with
every log. A filter is
evaluated by `ServerMatches` or by `ClientMatches`. Charts and hosts take a time from
which on logs count (`since`): the server's now less `chartRange` for an answer, the
browser's, which has moved on, for the live rows. The range cuts the oldest bucket in the
middle, and it sets the width of all (`Width`). Statistics have no range, and the route of
the proxies does not read the one that it is sent. `FiguresTrue` compares them in every
state of `Paging`.

**LiveStats.** The four panels share neither requests nor caches, so one is enough.
Contents do not matter here, only how long ago an answer was true. Ages count up to a
bound with `Tick`, which waits for what is due: an effect, the interval, a request
that has taken its longest. `shown.current` and `request[s].current` say whether an
answer is one to the question that is asked now, `old` whether it was there at the last
wipe, shown, on its way from the server or cached. The answer of a query that is under way
at the wipe is not: `clear()` cannot keep it from the cache (`server/src/store/pg.ts:370`).

**DashSocket.** Services are kept apart from their sockets, since sockets outlive
them: `reconnect()` detaches the old one, and `dispose()` leaves its events coming. A
callback that changes the auth store re-renders `App` in its own microtask, so
`Rendered` is part of `SignIn`, `SignOut` and `Rejected`.

**Link.** "down", "up" or "gone". Both refinement mappings are a definition `link` of
the concrete module; fairness is refined too.

**Feed.** Requests are numbered by the time they ended, which orders pages. The
loader's fetch, that of `loadMore()` and that of `refreshLogs()` are three
variables; an older generation's answer is ignored, as the code does. A filter is
"all", a project or "pendingOnly". A `scenario` is chosen at the start and says what
is stored before, which filters may be chosen and what may happen besides. `ended`
holds the ends the dashboard has received and not lost: what `MAX_BUFFER` pushes out of
`pendingRemoveIds` is forgotten there too, until `prunePending` takes the entry out.
`InOrder`, `With` and `Without` are a sorted page and the two operations on a
JavaScript map, written so that the proofs can unfold them.

## 3. Runs

Every passing run explores its whole state space. The sets and bounds are in the
`.cfg` files.

| Run | Instance | Question |
| --- | --- | --- |
| PgStoreScenarios | 4 logs of one project; 2 flushes. Either a batch with a good, a malformed and a duplicate log, faults, close, 1 clear of everything; or 2 logs, 2 clears, of everything, of a project or up to a time, and a statistics query | Is any log lost, settled twice, blamed for another, or acknowledged without being stored? Are cleared rows gone from the table, and from the cache but for answers of queries that a clear crossed? Does the store keep the contract of `LogStore`? |
| PgStoreLive | cap 0 and a trim after every insert, so that every trim deletes; faults; 1 clear; fairness | Is every `add()` answered, and does every loop end? |
| Transport | 5 messages, buffer of 2, delays 1 to 3; fairness for liveness | Are messages accounted for and in order? Is there one way forward? Is it a `Link`? |
| Adapters | 2 fetch adapters, axios, CycleTLS; 1 call, 2 projects, 4 changes | Who is harmed by the host's callbacks and by ejects? Do starts and ends belong together? |
| Broadcast | 2 dashboards; queries fail, `send()` and `ping()` throw; 2 events in the first session, or 2 sessions without events; fairness | Heartbeat, orphans, gaps; do the dead leave, and clients whose session was ended or replaced? |
| Session | 2 tabs of 2 browsers or 1, 1 address, 2 forms, 2 requests at once, faults; 2 seconds, of which a token lives the first | Was every verdict true? Was every token that a browser got stored? |
| SessionLive | 2 tabs of 1 browser, expiry after the first second, fairness | Is a dead session left? |
| Feed | pages of 2, list of 4, buffers of 2. Either 5 stored logs of 2 projects, filters, failures, losses, clears; or 2 live requests, pause, absence, refresh; fairness | Late pages, gaps, hasMore, readiness; does an ended request spin? |
| Paging | 4 logs of 2 projects, 2 hosts, 3 proxies and 3 timestamps, one of them within a millisecond; 3 entries in memory; pages of 2; charts of a range of 2 with 1 bucket, merged 0 or 4 after the answer; a browser that keeps 3 rows; limits of 2 hosts, 2 proxies | Does an export have every log once? Are the figures those of what is shown? |
| DashSocket | the dashboard is shown twice; 3 sockets whose close event has not come; delays 2 and 3; fairness | One socket or timer? Is the header right? Is it a `Link`? Does a dead token leave? |
| LiveStats | 2 filters; 2 requests at a time; an interval of 3, a cache of 2, requests of up to 1 | Is the answer one to the question, and not from before a wipe? How old can it be? |
| FeedStuck | 3 stored logs, pages of 2, absence | *violated*: see Findings |

**Why the bounds are enough.** The hazards need two of something: two flushes (one
to outlive a clear or a close), two clears, two tabs, two wrappers, two clients.
Limits are small so that they are reached: `FLUSH_MAX` 2 lets the size limit and
the timer both fire, pages of 2 in a list of 4 give pages, a full list and a cut
one, `MaxQueued` 0 makes a client slow after one event, two sessions let one replace the other,
a token that lives one of two seconds expires during a request, a delay of 3 after 1 is
reached by doubling and by the cap. Three logs give a batch with a good row, a
malformed row and a duplicate. The bounds on events are bounds on what the
environment does (changes, messages, forms, seconds); when they are used up the
system may stop, and such runs have deadlock checking off. Cycles of wrappers
need three fetch adapters and are not in the instance of `Adapters`. In `DashSocket`
the third socket is needed when a former dashboard's socket and a replaced one are
both closing; two dashboards suffice, since a third finds of the first what the
second finds. In `LiveStats` the age bound is reached: with one less, `UpToDate` is
violated. In `Paging` the times 0, 1 and 3, the range 2 and buckets of 2 give a bucket cut by
the range and logs beyond it; with a fourth row the browser has lost one.

**What the properties say.** The type invariant of each module is checked too.

- `TimerCovers`: the flush timer is armed exactly when something is buffered.
- `OnePlace`: an unanswered `add()` is in the buffer or in one flush, once.
- `Durable`: a resolved `add()` was stored, unless a clear took it from the buffer.
- `ImplementsLogStore`: the store is an implementation of `LogStore`; in particular no
  log is refused for another's malformed row.
- `ClearIsFinal`: what a finished clear had to remove is not in the table, and no cached
  answer counts it, except those of statistics queries that began before a clear invalidated
  the caches and ended after it: they fill the cache with what they saw.
- `EverythingEnds`: every `add()` is settled, and every trim and clear ends.
- `Accounted`, `InOrder`, `OneRecovery`: messages, their order, and one socket or one
  timer, neither after close() or a rejection. `ImplementsLink`: a connection in the
  end, unless it was given up; and once gone it is never wanted again.
- `OneTrueSocket`: the dashboard that is shown has one socket, or one timer, or was
  refused; no other socket is or becomes open; the header says "connected" when it is
  and does not while the next attempt waits. `ImplementsLink`, for a link that may be
  wanted again. `BadTokenLeaves`: a tab whose token is not good leaves its dashboard.
- `HeartbeatCovers`: the heartbeat runs exactly while there are clients. `NoOrphan`: an
  admitted connection that is open is a client, except after its `send()` or `ping()` threw.
  `Gapless`: a client misses no event. `GoneLeave`: clients leave that are dead, closed
  before their admission, or whose session was ended or replaced.
- `VerdictWasTrue`: a request is served only if its token was the stored one at some
  moment since it was sent, and valid; and refused only if at some moment it was not the
  stored one or had expired, or if this request's own query failed. A run without either
  exception is violated. `GivenWasStored`: no browser holds a token that was never stored.
  `BadTokenOut`: a useless session is left.
- `ListIsExact`: the list matches its filter, has no row that was cleared, no gap and
  no row twice. `ScrollReachesAll`: scrolling is never stuck, and ends only at the
  oldest row. Both are stated for a list that only the loader and `loadMore()` write
  (`OnlyPages`): live rows and `refreshLogs()` break them, see section 6.
  `EndedNotPending`: what ended is not shown in flight. `BecomesReady`.
- `HostUnharmed`: fetch reaches the platform's and is the platform's again when all
  adapters are ejected; a call fails only as it would without them, or by a filter
  that throws under fetch or CycleTLS. `EndFollowsStart`, `StartIsEnded`.
- `ExportExact`: an export has no log twice, the newest first, and at its end every
  matching log that was stored from its start on. It assumes `Sound`: in memory the
  logs came in the order of their timestamps, those of one timestamp in that of their ids,
  in the table timestamps are whole
  milliseconds. Cursors only move to older logs, so an export ends although logs
  keep arriving.
- `FiguresTrue`: whichever store counted the logs up to a time, and whatever the browser
  adds of those after it, statistics and proxies are those of all the logs that the feed
  would show. A chart has the logs of its range: a bucket that begins within it has all of
  its time and project, the oldest one those within the range and perhaps more, for the
  browser does not take away what the server counted; only the table leaves times out, below
  `BAR_COUNT` later ones. Hosts that fit the limit add up to the logs of the range as it was
  at the answer. All this holds while the browser has every row after that time: not when
  more than `MAX_CLIENT_LOGS` came, or a scroll far back pushed them out. The mean of the stats bar may be off by one. A mean that is rounded with each
  of n logs may be off by (n + 1)/4, one over the projects of a time by (n + 3)/4, as
  it is rounded once more (`Near`).
- `AnswersQuestion`: a panel never shows the figures of a former filter or range, nor, once
  it was told of a wipe, an answer that was shown, on its way or cached at that wipe, and it
  awaits one answer at a time. The answer of a query under way at the wipe is excepted: it
  fills the cache afterwards, and figures from before the wipe may be shown. `UpToDate`: while
  it is visible it shows nothing older than an interval, the cache's time and two
  queries, from the first answer to its question on.

## 4. Fairness

Only what the event loop, the database and timers do by themselves is fair; nobody
is obliged to send, read, click, clear or close.

- `PgStore`: the armed timer fires, answered functions continue, the database
  answers (perhaps with an error). Weak fairness
  suffices.
- `Transport`: the timer fires, a closing socket gets its close event. `Open` is
  strongly fair: among attempts made again and again one succeeds. Attempts end:
  the code has no handshake timeout, so this is an assumption about `ws` and the
  peer, and `ImplementsLink` rests on it.
- `Adapters`: calls settle; deferred callbacks run.
- `Broadcast`: the two intervals fire, awaited answers are continued, a closing
  handshake ends (`ws` bounds it). Among the checks some token query is answered
  (strong fairness), since a failed one is only retried at the next interval.
- `Session`: the server answers; the dashboard's polls ask again and again and of
  their replies some arrive (strong fairness).
- `Feed`: effects run, fetches are executed and resolve. `BecomesReady` needs no fetch
  to succeed.
- `DashSocket`: the timer fires and closing sockets get their close events (strong
  fairness, since a return to the tab may replace timer and socket again and again);
  of attempts made again and again one succeeds; a socket whose token is not good is
  refused, at its admission or by the server's periodic check, as `Broadcast` shows.
- `LiveStats` has no fairness: its time bounds are invariants, since `Tick` waits for
  what is due. They assume that a request takes less than the interval.

## 5. Theorems

All theorems are about every value of the constants that the module's assumption
allows: any finite set of logs, any number of flushes, trims and clears at once,
any connections, limits, delays, adapters, calls, tabs, requests, pages, intervals. No
assumption is made beyond the named `ASSUME` of each module, which TLC evaluates for
the instances. Besides the types of the constants these say that the first
reconnect delay is positive and not above the longest, that a list of the feed holds a page
(`PageSize <= MaxLogs`, 200 and 1000 in the code), that "all" is among the filters, that
every log has its attributes (a duration that is a natural number, a size that may be
unknown) and a proxy is a host with perhaps a port, that limits and
numbers of bars are positive (the range and the browser's rows are natural numbers), that a request for statistics takes less than the interval, and that `None` is no value.

| Module | Theorem | Says |
| --- | --- | --- |
| PgStoreProofs | `TypeCorrect` | `TypeOK` |
| PgStoreProofs | `TimerAlwaysCovers` | `TimerCovers` |
| PgStoreProofs | `AlwaysOnePlace` | `OnePlace` |
| PgStoreProofs | `AlwaysSettledOnce` | a settled promise never changes |
| PgStoreProofs | `AlwaysDurable` | `Durable` |
| PgStoreProofs | `Refinement` | `ImplementsLogStore` |
| PgStoreProofs | `AlwaysClearIsFinal` | `ClearIsFinal` |
| TransportProofs | `TypeCorrect`, `AlwaysAccounted`, `AlwaysOneRecovery`, `AlwaysInOrder` | `TypeOK`, `Accounted`, `OneRecovery`, `InOrder` |
| TransportProofs | `NoHammering` | no socket is created after close() or a rejection (`ClosedForGood`) |
| TransportProofs | `LinkSafety` | every step is one of `Link`, or none |
| TransportProofs | `AlwaysBounded` | buffer and queue stay within their limits |
| DeliveryProofs | `PagesTyped`, `ExportsAreExact`, `FiguresAreTrue` | `PagingTypeOK`, `ExportExact`, `FiguresTrue` |
| DeliveryProofs | `ClientsTyped`, `HeartbeatRuns`, `NobodyForgotten`, `NothingMissed` | of Broadcast, `TypeOK`, `HeartbeatCovers`, `NoOrphan`, `Gapless` |
| DeliveryProofs | `QueueBounded` | a queue passes its limit by one event at most |
| AdaptersProofs | `TypeCorrect`, `EndsAreAnnounced`, `HostStaysUnharmed` | `TypeOK`, `EndFollowsStart`, `HostUnharmed` |
| DashSocketProofs | `TypeCorrect`, `AlwaysOneTrueSocket` | `TypeOK`, `OneTrueSocket` |
| DashSocketProofs | `LinkSafety` | every step is one of `Link`, or none |
| SessionProofs | `TypeCorrect`, `VerdictTrue`, `GivenStored` | `TypeOK`, `VerdictWasTrue`, `GivenWasStored` |
| FeedProofs | `TypeCorrect`, `NoneSpins` | `TypeOK`, `EndedNotPending` |
| FeedProofs | `AlwaysExact`, `AlwaysScrolls` | `ListIsExact`, `ScrollReachesAll` |
| LiveStatsProofs | `TypeCorrect`, `ShowsTheAnswer`, `StaysUpToDate` | `TypeOK`, `AnswersQuestion`, `UpToDate` |

**The invariants behind them.**

- *PgStore.* `TimerCovers` is inductive with the types. `OnePlace` is not: that a
  continuation settles only its own calls needs to know what an idle flight and a
  flight in its row-by-row phase look like. `Placement` adds that. `Durable` needs
  `Durability`: a flight whose INSERT was confirmed has every key of its batch in
  the table or among those since deleted, and likewise for a row that was
  confirmed; the least position of a key in a batch (`LeastElement`) is the one
  that `ON CONFLICT DO NOTHING` stores. The refinement uses both: a row enters the
  table only while its call is unanswered (from `OnePlace`), success is reported
  only for keys that were stored (from `Durability`), and a log is refused as
  malformed only by the INSERT of its own row (`RowBlame`). Each step of
  `PgStore` is then a step of `LogStore` or leaves its variables alone.
  `ClearIsFinal` follows from that refinement: a call that is answered and not in the
  table (`Gone`) can never enter it. `Finality` adds that what a clear owes was answered
  before it began and is gone once its last query has seen so (`Cleaned`: a TRUNCATE
  that succeeded, or a DELETE that found nothing), and that a statistics query which no
  clear has crossed carries no cleared row (`Unaware`), so neither does the cache.
- *Transport.* `Inv` adds `Fresh` (a socket that is not open has an empty queue, so
  the flush on open starts with the whole limit), `Flushed` (an open socket leaves
  nothing in the buffer unless a flush was cut short, so a direct send overtakes
  nothing) and `GaveUp` (close() and a rejection close the transport, and a closed
  one has no socket).
- *Paging.* `ExportExact` speaks of the end. `SoFar` says, at any time, where each log is
  that the export owes (`kept`): written, in the page it holds, or beyond its cursor. The
  logs written, and after them the page, go from the newest to older ones, all match the
  filter, and what will be read lies beyond. `Stored` says that what the store holds was
  added and, in memory, lies in the order of the timestamps as long as it came so. A page
  that is cut from rows in an order leaves only later ones (`FirstLeaves`), so a log that
  stays while pages are read is in one of them, whatever else comes or goes, and a page
  that is not full leaves none.
- *Figures.* Of the store `FiguresTrue` needs only `Apart`, that no log is at two
  positions. The rest is about the operators. The loops keep that what they have counted
  describes a set of logs (`Describes`): there is a bucket for each key that occurs, it
  counts the logs of its key, and its mean is `Near` theirs; each rounding shifts the sum
  of the durations by at most half the number of logs (`RoundedNear`, `LogAdded`). It
  holds of the empty chart, and of the table's, whose means are rounded once. The table
  keeps its newest times, and live logs are later than the ones it counted, so none of
  them opens a bucket again that the table has cut, provided that it shows a bar at all
  (`ChartComplete`). The range enters as a time from which on logs count: what an answer left
  out for it the browser, whose range begins no earlier, leaves out too, so `Describes` is
  about the set that was counted, and a bucket that begins within the range (`BucketBegins`,
  from the width of `WidthIs`) was counted whole. Unless the filter is `Ambiguous`, server and browser select the
  same logs (`FiltersAgree`), and the sums over both parts add up (`SumSplits`). The
  provers cannot use the library's induction theorems, so `NumbersReached` and
  `SetsReached` give induction over numbers and over finite sets as facts about sets: a
  set that has 0 and with n also n + 1 has all numbers.
- *Broadcast.* `Unadmitted`: before its admission a connection has an empty queue
  and no listener, and it is admitted once. Without it, a socket that closes while
  its token is looked up could be thought to be a client that lost its place. `thrown` needs
  no more: only the two catch paths remove a client whose socket stays open, and they add to
  it, and only the socket's close event takes from it.
- *Adapters.* `CallsAnnounced` and `JobsAnnounced`: until the core is destroyed,
  every trace of a call and of a deferred log has been announced. A wrapper traces
  only while the core is enabled and hands the start over in the same turn.
  `HostUnharmed` needs that the wrappers form a stack (`StackInv`): until an eject out
  of order, some sequence lists the installed adapters, each having found the one below
  it, the first the platform's fetch. So `Reach` ends at the platform's, an eject in
  order takes the top away, and `CallerUnharmed` speaks of one call.
- *DashSocket.* `OneTrueSocket` says nothing of who owns a socket that is closing.
  `Holds` and `Owned` add that a service and its socket name each other, and that a
  socket which is still listened to is the one of its owner, so the close event of a
  replaced or disposed socket cannot touch another. `Used`, `Idle` and `Single` keep
  open sockets and timers to the one live service; `Shown` says that a page that needs
  no token has one, so a logout never creates a service there. Each is a predicate of
  the services and the sockets, and each method keeps them: connect() from a service
  without a socket or a timer (`Ready`), reconnect(), dispose() and the effects after a
  render; an event is then one of these or changes a single socket. The steps of `Link`
  follow: only an open event opens a socket (`NoneOpened` of every method), and its owner
  is live and not refused, so the link was "down".
- *Session.* `VerdictWasTrue` speaks of the reply, `Justified` of every phase before it:
  a request without a token was refused from the start, one whose token
  verified was valid at that moment, and the answer that is compared was the stored token
  when it was read, so `seen` has already noted the verdict that the comparison, perhaps too
  late, is going to give; a failed query notes itself in the step that refuses. `Held` and `Carries`
  say that what a browser, a tab, a storage event or a reply on its way holds was issued.
- *Feed.* For ends (`EndsInv`): in the inbox no end precedes its start, an end that was
  received has no start under way (`EndsAnnounced`), and an ended request that is in the
  buffers or in the map waits among the removals (`EndsKept`). For the list
  (`ExactInv`): `Still` says what cannot happen without live logs; `Loading` holds
  whatever filter is shown: an answer covers its filter below its cursor (`Covers`: the
  newest rows that fit), and a fetch of loadMore() that will be merged continues the
  list that is shown; `Current` holds while no effect is due: fetches and list are of
  the present filter, carry no cleared row, and the cursor of the next page is below the
  last one. That the last is inductive is what the finding of section 6 denies for lists
  that a refresh has replaced.
- *LiveStats.* A wipe leaves nothing in the cache and marks what is shown and on its way; an
  answer that is made later is not `old`, so what `Renders` leaves current is none of these
  (`AnswersQuestion`). `Sound` and `Entry` bound the age of what is under way or cached by the
  way it has taken. A visible panel is in one of four situations (`Kept`): what it shows
  lasts until the timer fires (`FreshResting`) or until the answer that it awaits
  (`FreshAwaiting`); or that answer comes in time (`Awaited`); or there is time left for
  the one the timer will ask for (`Spared`). Time passes from each to itself, and every
  other step leads from one to another.

**What is model-checked only.** Liveness (fairness and ENABLED are beyond the prover):
`EverythingEnds`, `GoneLeave`, `BadTokenOut`, `BadTokenLeaves`, `BecomesReady`,
`StartIsEnded`, and of both `ImplementsLink` the fairness (the steps are proved).
Every invariant of a run that passes is proved.

## 6. Findings

**FeedStuck** (`client/src/hooks/use-log-loader.ts:90`). `refreshLogs()` replaces the
list by the first page and leaves `lastCursorRef` as it was. Open the dashboard
with more logs than a page, scroll back once, leave the tab and return: the oldest
row is again the cursor of the page that was loaded before, `loadMore()` takes the
request for a repetition and returns, and the rows below are out of reach although
`hasMore` is true. The comment at the guard says that it would re-request the same
rows; after the refresh they are no longer shown.

Other behaviours met while modelling, in the models as the code has them, that a
reader of the code should know of:

- PgStore: `trim()` overwrites counts that grew while it awaited, so a project may
  stay above its cap unnoticed; refused rows, duplicates and a clear in between make
  the count exceed the table, and a later trim deletes too much. A clear of
  everything acknowledges the buffered logs before its TRUNCATE, which may fail.
  `close()` awaits its own flush, not one that is already under way.
- PgStore, LiveStats: a statistics query that is under way when the logs are cleared fills
  the cache after `invalidateCaches()` (`server/src/store/pg.ts:370`), so the cleared figures
  are shown again for the cache's time.
- Broadcast: a client whose `ping()` or `send()` throws is removed and its socket stays open
  (`server/src/ws/index.ts:51-55`, `87-91`): its browser shows "Connected" and gets nothing,
  and neither heartbeat nor token check reaches it. The token check compares clients that joined after its query with the
  answer from before; a login at that moment logs out the new dashboard. A failed
  token query refuses a valid token at admission.
- Session: the first registration counts users and inserts in one statement, but two
  such statements with different addresses may both insert. A request whose token query failed is answered 401,
  which logs a valid session out. A tab that registered and signed out offers to register again until it is reloaded. Two logins within a
  second share a token. A 401 to a request of the former session ends the new one,
  and a logout may clear a login that came in between. Two tabs that write their
  token at the same moment may exchange them by storage events.
- Feed: `refreshLogs()` has no generation: its page is shown after the filter changed
  or the logs were cleared. A row may be in a page and in the buffer, and is shown
  twice. Entries in flight whose end was lost stay until something else arrives.
- Paging: the in-memory store shows logs in the order of insertion and continues a
  page at the timestamp of its last row. A log's timestamp is the clock of its host at
  the end of the request, and logs arrive in the order of messages and batches, from
  several hosts, so the next page may repeat a log or skip one, although the export
  "streams every matching log" (`server/src/routes/logs.ts:119`). PostgreSQL orders by
  the cursor's own key; there only logs of other clients, with timestamps finer than
  milliseconds, can be skipped. (TLC finds both when `Sound` is dropped from
  `ExportExact`.)
- Figures: a filter by a proxy without a port takes, on the server, every port of that
  host, and in the browser only rows without one (`Ambiguous`). The oldest bucket of a chart is
  cut by the range, so its bar shrinks and, with live rows, may hold rows that have left the
  range; hosts are of the range, so they do not add up to the total of the stats bar. The
  browser counts on only with the rows of its list, and `use-stats.ts:24` says that totals
  drift. `proxyStats()` has a
  LIMIT, below which live logs start a bar anew. The proxy route ignores the range that
  the hook sends (`routes/stats.ts:61`). Means in memory and of charts with live logs
  are rounded with every log and drift.
- LiveStats: the server's cache is filled in the order in which queries end, so a panel
  may be given an older answer after a newer one; `use-polled-get.ts:12` is about the
  panel's own requests only. A query that takes longer than the interval is aborted
  by the next and never shown.
- DashSocket: a status request that fails is taken for the test mode: the dashboard is
  shown with or without a token; without a good one it is refused and logs out, and
  nothing but a return to the tab reconnects it.
- Adapters: ejects in another order than the installs break the global fetch
  (`disorder` in the model). A filter that throws fails the call under fetch and
  CycleTLS; only the axios adapter catches it. The axios adapter asks the filter and
  reads the project again at the end: the end of a traced call may be missing, name
  another project, or carry an id of its own.

## 7. Not modelled

- The order in which the connection pool serves queries, and how long they take:
  any order is possible. A query that the server executes after its connection was
  lost is executed before its failure is reported.
- In `PgStore`, the time-to-live of the statistics cache (an entry may be used for
  ever) and the contents of statistics: these are the matter of `LiveStats` and
  `Figures`. Requests per minute, and the clocks of browser, host and database: in
  `Figures` the boundary between what the server counted and what the browser adds is
  one time (see the hazard at `use-stats.ts:50`).
- Handshakes that never end; in `Transport`, events of a socket that was let go of.
- What is captured, truncated, redacted and estimated of a request; a log handler of
  the host's own; a client that keeps a wrapper after its eject.
- Pages by offset, which only other clients of the API ask for; the HAR format of an
  export; POST /resend.
- Rate limits and refused input (replies without effect); a reload of the page; a
  restart of the server in the middle of a session.
- In `Feed`, filters on status and proxy (their predicates are in `Figures`); search
  text; scroll positions; rendering.

## 8. Plan

Every component is modelled but the assembly of the server and the user interface,
which keep no state of their own. What is left, in this order:

1. `Ingest`, the composition of `LogStore` and `Broadcast` by the `/ws` route:
   every event broadcast was stored.
2. Runs that show the disagreements of section 6, above all the two accounts of two
   first registrations (`server/src/routes/auth.ts:31`).
