------------------------------ MODULE LiveStats ------------------------------
(***************************************************************************)
(* How the figures of a panel are kept up to date: usePolledGet() of       *)
(* packages/client/src/hooks/use-polled-get.ts asks every few seconds, the *)
(* routes of packages/server/src/routes/stats.ts answer from a cache or    *)
(* the database (store/pg.ts), and other dashboards ask the same.  The     *)
(* four panels (stats, charts, proxies, hosts) share neither requests nor  *)
(* caches: this is any one of them.                                        *)
(*                                                                         *)
(* Of an answer only the time matters at which it was true, when the       *)
(* database was read; what figures are made of it is in Figures.  A time   *)
(* that was is an age, a time to come is counted down, and what is due     *)
(* happens before Tick: the timer, an effect of React, and the end of a    *)
(* request that takes MaxAnswer.  The in-memory store answers at once and  *)
(* has no cache, which is less.                                            *)
(***************************************************************************)
EXTENDS Integers, FiniteSets

CONSTANTS
  Params,    (* the filters and ranges that the user may choose              *)
  None,      (* no timer, nothing shown, nothing cached                      *)
  Slots,     (* bound: requests under way at a time                          *)
  Interval,  (* REFETCH_INTERVAL                                             *)
  TTL,       (* STATS_CACHE_TTL_MS                                           *)
  MaxAnswer  (* how long a request takes, or fails                           *)

ASSUME LiveStatsAssumption ==
  /\ Interval \in Nat \ {0} /\ TTL \in Nat \ {0}
  /\ MaxAnswer \in Nat /\ MaxAnswer < Interval
  /\ None \notin Nat /\ None \notin [taken : Nat, current : BOOLEAN, old : BOOLEAN]

VARIABLES
  question,  (* params and pendingOnly of the last render                    *)
  effectDue, (* they have changed since the effect ran                       *)
  timer,     (* in what time the interval fires                              *)
  visible,   (* document.visibilityState                                     *)
  shown,     (* state of the hook: how long ago it was true, current, old    *)
  request,   (* the requests under way, of this panel and of others          *)
  cache,     (* statsCache: how long ago an entry was made and was true      *)
  wiped,     (* whether a wipe has not been heard of                         *)
  grace      (* history: in what time the panel should be up to date         *)

vars == <<question, effectDue, timer, visible, shown, request, cache, wiped, grace>>

\* `current` and `old` are history: the request was made with the params and the dataEpoch
\* of the last render; the answer was there, at the server or the panel, at the last wipe.
Question == [params : Params, pendingOnly : BOOLEAN]
Free == [pc |-> "free", params |-> None, wanted |-> FALSE, current |-> FALSE, age |-> 0,
         taken |-> 0, old |-> FALSE]

Init ==
  /\ question \in Question /\ effectDue = TRUE
  /\ timer = None /\ visible \in BOOLEAN
  /\ shown = None
  /\ request = [s \in Slots |-> Free]
  /\ cache = [p \in Params |-> None] /\ wiped = FALSE
  /\ grace = 0

-----------------------------------------------------------------------------
(* The hook.                                                               *)

\* Mutant of Abandoned: abort() is not called.
NotAbandoned(requests) == requests

\* controller.abort(): the browser takes no answer any more.  The server may still
\* get the request and goes on with it.
Abandoned(requests) ==
  [s \in Slots |-> IF requests[s].pc = "back" THEN Free
                   ELSE [requests[s] EXCEPT !.wanted = FALSE, !.current = FALSE]]

FreeSlots(requests) == {s \in Slots : requests[s].pc = "free"}

\* run(): abort the request before, and ask for what was rendered last.
Runs ==
  \E s \in FreeSlots(Abandoned(request)) :
    request' = [Abandoned(request) EXCEPT ![s] =
      [Free EXCEPT !.pc = "sent", !.params = question.params, !.wanted = TRUE, !.current = TRUE]]

\* The effect: the cleanup of the one before, and a first request at any rate.
Effect ==
  /\ effectDue /\ effectDue' = FALSE
  /\ shown' = None
  /\ IF question.pendingOnly
     THEN request' = Abandoned(request) /\ timer' = None
     ELSE Runs /\ timer' = Interval
  /\ grace' = MaxAnswer + 1
  /\ UNCHANGED <<question, visible, cache, wiped>>

\* The interval: ask when the tab is visible.
TimerFires ==
  /\ timer = 0 /\ timer' = Interval
  /\ IF visible THEN Runs ELSE UNCHANGED request
  /\ UNCHANGED <<question, effectDue, visible, shown, cache, wiped, grace>>

Hides ==
  /\ visible /\ visible' = FALSE
  /\ UNCHANGED <<question, effectDue, timer, shown, request, cache, wiped, grace>>

\* The tab becomes visible: ask at once.  The timer may abort that request.
Shows ==
  /\ ~visible /\ visible' = TRUE
  /\ IF timer # None THEN Runs ELSE UNCHANGED request
  /\ grace' = 2 * MaxAnswer + 1
  /\ UNCHANGED <<question, effectDue, timer, shown, cache, wiped>>

\* What the panel has and awaits is not what it now is to show.
Renders ==
  /\ effectDue' = TRUE
  /\ shown' = IF shown = None THEN None ELSE [shown EXCEPT !.current = FALSE]
  /\ request' = [s \in Slots |-> [request[s] EXCEPT !.current = FALSE]]

\* The user changes a filter or the range.  Until the effect runs, the effect before
\* asks with the new parameters (paramsRef).
Chooses ==
  /\ question' \in Question \ {question}
  /\ Renders
  /\ UNCHANGED <<timer, visible, cache, wiped, grace>>

\* The answer is set.
Lands(s) ==
  /\ request[s].pc = "back"
  /\ shown' = [taken |-> request[s].taken, current |-> request[s].current, old |-> request[s].old]
  /\ request' = [request EXCEPT ![s] = Free]
  /\ UNCHANGED <<question, effectDue, timer, visible, cache, wiped, grace>>

\* The request fails, on the way or at the server: what is shown stays, until the
\* timer asks again.
Fails(s) ==
  /\ request[s].pc \in {"sent", "query"}
  /\ request' = [request EXCEPT ![s] = Free]
  /\ grace' = IF request[s].wanted THEN timer + MaxAnswer + 1 ELSE grace
  /\ UNCHANGED <<question, effectDue, timer, visible, shown, cache, wiped>>

-----------------------------------------------------------------------------
(* The server.                                                             *)

\* An answer that nobody waits for is gone.
Answered(r, found) ==
  IF r.wanted THEN [r EXCEPT !.pc = "back", !.taken = found.taken, !.old = found.old] ELSE Free

KeyOf(s) == request[s].params

\* Mutant of Served: an entry that is used is as new as on the first day.
ServedAnew(s) ==
  /\ request[s].pc = "sent" /\ cache[KeyOf(s)] # None
  /\ request' = [request EXCEPT ![s] = Answered(@, cache[KeyOf(s)])]
  /\ cache' = [cache EXCEPT ![KeyOf(s)].age = 0]
  /\ UNCHANGED <<question, effectDue, timer, visible, shown, wiped, grace>>

\* stats() finds the answer in the cache.
Served(s) ==
  /\ request[s].pc = "sent" /\ cache[KeyOf(s)] # None
  /\ request' = [request EXCEPT ![s] = Answered(@, cache[KeyOf(s)])]
  /\ UNCHANGED <<question, effectDue, timer, visible, shown, cache, wiped, grace>>

\* ... or does not, and queries.  A query that waits for a connection reads later,
\* and is newer when it is answered.
Queries(s) ==
  /\ request[s].pc = "sent" /\ cache[KeyOf(s)] = None
  /\ request' = [request EXCEPT ![s].pc = "query", ![s].taken = 0]
  /\ UNCHANGED <<question, effectDue, timer, visible, shown, cache, wiped, grace>>

\* Another dashboard asks, and finds nothing in the cache.
OtherAsks ==
  /\ \E s \in FreeSlots(request), p \in Params :
       /\ cache[p] = None
       /\ request' = [request EXCEPT ![s] = [Free EXCEPT !.pc = "query", !.params = p]]
  /\ UNCHANGED <<question, effectDue, timer, visible, shown, cache, wiped, grace>>

\* The answer of the database arrives and is cached, whatever was cached meanwhile.
Answers(s) ==
  /\ request[s].pc = "query"
  /\ cache' = [cache EXCEPT ![KeyOf(s)] = [age |-> 0, taken |-> request[s].taken, old |-> FALSE]]
  /\ request' = [request EXCEPT ![s] = Answered(@, @)]
  /\ UNCHANGED <<question, effectDue, timer, visible, shown, wiped, grace>>

\* What the panel shows and is being sent is of before the wipe.
Outdates ==
  /\ shown' = IF shown = None THEN None ELSE [shown EXCEPT !.old = TRUE]
  /\ request' = [s \in Slots |-> [request[s] EXCEPT !.old = (request[s].pc = "back")]]

\* Mutant of Wipes: the caches are kept.
WipesTable ==
  /\ ~wiped /\ wiped' = TRUE
  /\ Outdates
  /\ cache' = [p \in Params |-> IF cache[p] = None THEN None ELSE [cache[p] EXCEPT !.old = TRUE]]
  /\ UNCHANGED <<question, effectDue, timer, visible, grace>>

\* clear(): the caches are invalidated, the dashboards are told.  Bound: one at a time.
Wipes ==
  /\ ~wiped /\ wiped' = TRUE
  /\ Outdates
  /\ cache' = [p \in Params |-> None]
  /\ UNCHANGED <<question, effectDue, timer, visible, grace>>

\* bumpDataEpoch().
HearsOfWipe ==
  /\ wiped /\ wiped' = FALSE
  /\ Renders
  /\ UNCHANGED <<question, timer, visible, cache, grace>>

-----------------------------------------------------------------------------
(* Time.                                                                   *)

\* The age of what a panel shows at the worst: what it shows until the answer of the
\* next poll is an entry that was about to expire and was true a query before.
MaxAge == Interval + MaxAnswer + (TTL - 1) + MaxAnswer

Older(age) == IF age <= MaxAge THEN age + 1 ELSE age
Less(time) == IF time = 0 THEN 0 ELSE time - 1

\* Mutant of Expired: an entry as old as the TTL is used.
ExpiredLate(age) == age > TTL

\* Date.now() - cached.at < STATS_CACHE_TTL_MS does not hold.
Expired(age) == age >= TTL

Tick ==
  /\ ~effectDue /\ timer # 0
  /\ \A s \in Slots : request[s].pc # "free" => request[s].age < MaxAnswer
  /\ timer' = IF timer = None THEN None ELSE timer - 1
  /\ shown' = IF shown = None THEN None
              ELSE [shown EXCEPT !.taken = Older(@)]
  /\ request' = [s \in Slots |-> IF request[s].pc = "free" THEN Free
                                 ELSE [request[s] EXCEPT !.age = @ + 1, !.taken = Older(@)]]
  /\ cache' = [p \in Params |->
       IF cache[p] = None \/ Expired(cache[p].age + 1) THEN None
       ELSE [cache[p] EXCEPT !.age = @ + 1, !.taken = Older(@)]]
  /\ grace' = Less(grace)
  /\ UNCHANGED <<question, effectDue, visible, wiped>>

Next ==
  \/ Effect \/ TimerFires \/ Hides \/ Shows \/ Chooses
  \/ OtherAsks \/ Wipes \/ HearsOfWipe \/ Tick
  \/ \E s \in Slots : Lands(s) \/ Fails(s) \/ Served(s) \/ Queries(s) \/ Answers(s)

Spec == Init /\ [][Next]_vars

-----------------------------------------------------------------------------
(* Properties.                                                             *)

Age == 0 .. MaxAge + 1
TypeOK ==
  /\ question \in Question /\ effectDue \in BOOLEAN
  /\ timer \in {None} \cup 0 .. Interval
  /\ visible \in BOOLEAN /\ wiped \in BOOLEAN /\ grace \in Nat
  /\ shown \in {None} \cup [taken : Age, current : BOOLEAN, old : BOOLEAN]
  /\ request \in [Slots -> [pc : {"free", "sent", "query", "back"}, params : Params \cup {None},
                            wanted : BOOLEAN, current : BOOLEAN, age : 0 .. MaxAnswer,
                            taken : Age, old : BOOLEAN]]
  /\ cache \in [Params -> {None} \cup [age : 0 .. TTL - 1, taken : 0 .. MaxAnswer + TTL - 1,
                                      old : BOOLEAN]]

\* What a panel shows answers the question it is asked: not that of a former filter or
\* range, and, once it was told of a wipe, not with an answer that was there before it,
\* shown, being sent or cached.  (The answer of a query under way at the wipe is none of
\* these: clear() lets it fill the cache afterwards, so that figures of before the wipe
\* can be shown after it, for the times UpToDate bounds.)  And the panel awaits one
\* answer at a time, "so a slow aggregate cannot land after a newer response".
AnswersQuestion ==
  /\ ~effectDue /\ shown # None => shown.current /\ (~wiped => ~shown.old)
  /\ \A s, t \in Slots : request[s].wanted /\ request[t].wanted => s = t

\* A panel that is visible is up to date: after it was asked something new, became
\* visible or failed to get an answer, it is so again with the next answer, and never
\* shows figures older than the interval, the cache's time and two queries, the one
\* that filled the cache and its own.
UpToDate ==
  visible /\ timer # None /\ ~effectDue /\ grace = 0 => shown # None /\ shown.taken <= MaxAge
=============================================================================
