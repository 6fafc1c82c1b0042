--------------------------- MODULE LiveStatsProofs ---------------------------
(***************************************************************************)
(* Proofs about LiveStats, for any filters, slots, interval, time to live  *)
(* and duration of a request below the interval.  Inv is inductive: at     *)
(* most one request is wanted, it answers what was rendered last once the  *)
(* effect has run, a wipe leaves nothing in the cache, what is cached or   *)
(* under way is not older than its way accounts for, and a panel that is   *)
(* visible is in one of four situations (Kept): it shows figures that are  *)
(* fresh until the timer fires, or until the answer it awaits is due, or   *)
(* the time it is spared lasts until then.                                 *)
(***************************************************************************)
EXTENDS LiveStats, TLAPS

RequestSet ==
  [pc : {"free", "sent", "query", "back"}, params : Params \cup {None},
   wanted : BOOLEAN, current : BOOLEAN, age : 0 .. MaxAnswer, taken : Age, old : BOOLEAN]

\* What a panel shows, and what a cache holds.
ShownSet == [taken : Age, current : BOOLEAN, old : BOOLEAN]
EntrySet == [age : 0 .. TTL - 1, taken : 0 .. MaxAnswer + TTL - 1, old : BOOLEAN]

\* How old an answer from the cache is at most, beyond the time it was under way.
Stale == MaxAnswer + TTL - 1

\* One request.
Sound(r) ==
  /\ r \in RequestSet
  /\ r.pc = "free" => ~r.wanted
  /\ r.pc = "back" => r.wanted
  /\ r.old => r.pc = "back"
  /\ r.pc # "free" => r.params \in Params
  /\ r.pc = "query" => r.taken <= r.age
  /\ r.taken <= r.age + Stale

\* A request that is wanted: there is a timer; it answers what was rendered last, and not
\* with an answer that a wipe found, once the panel was told; and it was sent when the
\* timer was last set, or later.
Due(r) ==
  r.wanted => /\ timer \in 0 .. Interval
              /\ ~effectDue => r.current /\ (~wiped => ~r.old)
              /\ visible => timer + r.age <= Interval

OneWanted == \A s, t \in Slots : request[s].wanted /\ request[t].wanted => s = t

\* An entry of the cache was made after the last wipe, and was true a query before.
Entry(c) == c # None => c.taken <= c.age + MaxAnswer /\ ~c.old

\* The panel awaits an answer, which will be there before the timer fires, and shows
\* figures that will do until then.
FreshAwaiting(r) ==
  /\ r.wanted /\ timer + r.age > MaxAnswer
  /\ shown # None /\ shown.taken <= Interval + r.age + Stale

\* The panel shows figures that will do until the timer fires.
FreshResting ==
  /\ \A s \in Slots : ~request[s].wanted
  /\ shown # None /\ shown.taken <= Interval - timer + Stale

\* The panel awaits an answer that comes before the timer fires and in time.
Awaited(r) == r.wanted /\ timer + r.age > MaxAnswer /\ grace + r.age > MaxAnswer

\* There is time until the answer of the request the timer will make.
Spared == grace > timer + MaxAnswer

Kept == \/ FreshResting \/ Spared
        \/ \E s \in Slots : FreshAwaiting(request[s]) \/ Awaited(request[s])

Inv ==
  /\ TypeOK /\ OneWanted
  /\ \A s \in Slots : Sound(request[s]) /\ Due(request[s])
  /\ \A p \in Params : Entry(cache[p])
  /\ ~effectDue /\ shown # None => shown.current /\ (~wiped => ~shown.old)
  /\ visible /\ timer # None /\ ~effectDue => Kept

-----------------------------------------------------------------------------
(* The records of a request.                                               *)

\* A request with other flags.
LEMMA WithUse ==
  ASSUME NEW r \in RequestSet, NEW x, NEW y
  PROVE [r EXCEPT !.wanted = x, !.current = y]
          = [pc |-> r.pc, params |-> r.params, wanted |-> x,
           current |-> y, age |-> r.age, taken |-> r.taken, old |-> r.old]
<1> DEFINE q == [pc |-> r.pc, params |-> r.params, wanted |-> x,
                 current |-> r.current, age |-> r.age, taken |-> r.taken, old |-> r.old]
<1>1. [r EXCEPT !.wanted = x] = q  BY DEF RequestSet
<1>2. [r EXCEPT !.wanted = x, !.current = y] = [[r EXCEPT !.wanted = x] EXCEPT !.current = y]
  OBVIOUS
<1>3. [q EXCEPT !.current = y]
        = [pc |-> r.pc, params |-> r.params, wanted |-> x,
         current |-> y, age |-> r.age, taken |-> r.taken, old |-> r.old]
  OBVIOUS
<1> HIDE DEF q
<1> QED BY <1>1, <1>2, <1>3, Zenon

\* A request that is older.
LEMMA WithAge ==
  ASSUME NEW r \in RequestSet, NEW x, NEW y
  PROVE [r EXCEPT !.age = x, !.taken = y]
          = [pc |-> r.pc, params |-> r.params, wanted |-> r.wanted,
           current |-> r.current, age |-> x, taken |-> y, old |-> r.old]
<1> DEFINE q == [pc |-> r.pc, params |-> r.params, wanted |-> r.wanted,
                 current |-> r.current, age |-> x, taken |-> r.taken, old |-> r.old]
<1>1. [r EXCEPT !.age = x] = q  BY DEF RequestSet
<1>2. [r EXCEPT !.age = x, !.taken = y] = [[r EXCEPT !.age = x] EXCEPT !.taken = y]
  OBVIOUS
<1>3. [q EXCEPT !.taken = y]
        = [pc |-> r.pc, params |-> r.params, wanted |-> r.wanted,
         current |-> r.current, age |-> x, taken |-> y, old |-> r.old]
  OBVIOUS
<1> HIDE DEF q
<1> QED BY <1>1, <1>2, <1>3, Zenon

\* A request that goes on with something else.
LEMMA WithPhase ==
  ASSUME NEW r \in RequestSet, NEW x, NEW y
  PROVE [r EXCEPT !.pc = x, !.taken = y]
          = [pc |-> x, params |-> r.params, wanted |-> r.wanted,
           current |-> r.current, age |-> r.age, taken |-> y, old |-> r.old]
<1> DEFINE q == [pc |-> x, params |-> r.params, wanted |-> r.wanted,
                 current |-> r.current, age |-> r.age, taken |-> r.taken, old |-> r.old]
<1>1. [r EXCEPT !.pc = x] = q  BY DEF RequestSet
<1>2. [r EXCEPT !.pc = x, !.taken = y] = [[r EXCEPT !.pc = x] EXCEPT !.taken = y]
  OBVIOUS
<1>3. [q EXCEPT !.taken = y]
        = [pc |-> x, params |-> r.params, wanted |-> r.wanted,
         current |-> r.current, age |-> r.age, taken |-> y, old |-> r.old]
  OBVIOUS
<1> HIDE DEF q
<1> QED BY <1>1, <1>2, <1>3, Zenon

\* A request that is answered.
LEMMA WithAnswer ==
  ASSUME NEW r \in RequestSet, NEW x, NEW y, NEW z
  PROVE [r EXCEPT !.pc = x, !.taken = y, !.old = z]
          = [pc |-> x, params |-> r.params, wanted |-> r.wanted,
           current |-> r.current, age |-> r.age, taken |-> y, old |-> z]
<1> DEFINE q == [pc |-> x, params |-> r.params, wanted |-> r.wanted,
                 current |-> r.current, age |-> r.age, taken |-> y, old |-> r.old]
<1>1. [r EXCEPT !.pc = x, !.taken = y] = q  BY WithPhase, Zenon
<1>2. [r EXCEPT !.pc = x, !.taken = y, !.old = z]
        = [[r EXCEPT !.pc = x, !.taken = y] EXCEPT !.old = z]
  OBVIOUS
<1>3. [q EXCEPT !.old = z]
        = [pc |-> x, params |-> r.params, wanted |-> r.wanted,
         current |-> r.current, age |-> r.age, taken |-> y, old |-> z]
  OBVIOUS
<1> HIDE DEF q
<1> QED BY <1>1, <1>2, <1>3, Zenon

\* An entry of the cache that is older.
LEMMA EntryAged ==
  ASSUME NEW c \in EntrySet, NEW x, NEW y
  PROVE [c EXCEPT !.age = x, !.taken = y] = [age |-> x, taken |-> y, old |-> c.old]
<1> DEFINE q == [age |-> x, taken |-> c.taken, old |-> c.old]
<1>1. [c EXCEPT !.age = x] = q  BY DEF EntrySet
<1>2. [c EXCEPT !.age = x, !.taken = y] = [[c EXCEPT !.age = x] EXCEPT !.taken = y]
  OBVIOUS
<1>3. [q EXCEPT !.taken = y] = [age |-> x, taken |-> y, old |-> c.old]
  OBVIOUS
<1> HIDE DEF q
<1> QED BY <1>1, <1>2, <1>3, Zenon

\* A request that asks for something.
LEMMA WithParams ==
  ASSUME NEW r \in RequestSet, NEW x, NEW y
  PROVE [r EXCEPT !.pc = x, !.params = y]
          = [pc |-> x, params |-> y, wanted |-> r.wanted,
           current |-> r.current, age |-> r.age, taken |-> r.taken, old |-> r.old]
<1> DEFINE q == [pc |-> x, params |-> r.params, wanted |-> r.wanted,
                 current |-> r.current, age |-> r.age, taken |-> r.taken, old |-> r.old]
<1>1. [r EXCEPT !.pc = x] = q  BY DEF RequestSet
<1>2. [r EXCEPT !.pc = x, !.params = y] = [[r EXCEPT !.pc = x] EXCEPT !.params = y]
  OBVIOUS
<1>3. [q EXCEPT !.params = y]
        = [pc |-> x, params |-> y, wanted |-> r.wanted,
         current |-> r.current, age |-> r.age, taken |-> r.taken, old |-> r.old]
  OBVIOUS
<1> HIDE DEF q
<1> QED BY <1>1, <1>2, <1>3, Zenon

\* The free slot.
LEMMA FreeSound ==
  /\ Sound(Free) /\ Free \in RequestSet /\ Free.pc = "free" /\ Free.params = None
  /\ Free.wanted = FALSE /\ Free.current = FALSE /\ Free.age = 0 /\ Free.taken = 0
  /\ Free.old = FALSE
<1>1. Free.pc = "free" /\ Free.wanted = FALSE /\ Free.age = 0 /\ Free.taken = 0
      /\ Free.current = FALSE /\ Free.params = None /\ Free.old = FALSE
  BY DEF Free
<1>2. 0 \in 0 .. MaxAnswer /\ 0 \in Age /\ 0 <= 0 + Stale
  BY LiveStatsAssumption DEF LiveStatsAssumption, Age, MaxAge, Stale
<1>3. Free \in RequestSet  BY <1>2 DEF Free, RequestSet
<1> QED BY <1>1, <1>2, <1>3 DEF Sound

\* The request that a panel sends.
Sent == [Free EXCEPT !.pc = "sent", !.params = question.params, !.wanted = TRUE, !.current = TRUE]

\* What it is.
LEMMA SentSound ==
  ASSUME question \in Question
  PROVE Sound(Sent) /\ Sent.wanted /\ Sent.current /\ Sent.age = 0 /\ ~Sent.old
<1> DEFINE q == [Free EXCEPT !.pc = "sent", !.params = question.params]
<1>1. question.params \in Params  BY DEF Question
<1>2. q = [pc |-> "sent", params |-> question.params, wanted |-> Free.wanted,
           current |-> Free.current, age |-> Free.age, taken |-> Free.taken,
           old |-> Free.old]
  BY FreeSound, WithParams, Zenon
<1>3. Sent = [[q EXCEPT !.wanted = TRUE] EXCEPT !.current = TRUE]  BY DEF Sent
<1>4. [[q EXCEPT !.wanted = TRUE] EXCEPT !.current = TRUE]
        = [q EXCEPT !.wanted = TRUE, !.current = TRUE]
  OBVIOUS
<1> HIDE DEF q
<1>5. q \in RequestSet /\ q.pc = "sent" /\ q.params \in Params
      /\ q.age = 0 /\ q.taken = 0 /\ q.old = FALSE
  BY <1>1, <1>2, FreeSound DEF RequestSet
<1>6. Sent = [pc |-> q.pc, params |-> q.params, wanted |-> TRUE,
              current |-> TRUE, age |-> q.age, taken |-> q.taken, old |-> q.old]
  BY <1>3, <1>4, <1>5, WithUse, Zenon
<1>7. Sent \in RequestSet  BY <1>5, <1>6 DEF RequestSet
<1>8. Sent.wanted = TRUE /\ Sent.current = TRUE /\ Sent.age = 0 /\ Sent.taken = 0
      /\ Sent.pc = "sent" /\ Sent.params \in Params /\ Sent.old = FALSE
  BY <1>5, <1>6
<1>9. 0 <= 0 + Stale  BY LiveStatsAssumption DEF LiveStatsAssumption, Stale
<1> QED BY <1>7, <1>8, <1>9 DEF Sound

\* A request that nobody waits for, because it is abandoned.
LEMMA AbandonedSound ==
  ASSUME \A s \in Slots : Sound(request[s]), NEW s \in Slots
  PROVE Sound(Abandoned(request)[s]) /\ ~Abandoned(request)[s].wanted
<1> DEFINE r == request[s]
<1>1. CASE r.pc = "back"
  BY <1>1, FreeSound DEF Abandoned
<1>2. CASE r.pc # "back"
  <2> DEFINE q == [r EXCEPT !.wanted = FALSE, !.current = FALSE]
  <2>1. Abandoned(request)[s] = q  BY <1>2 DEF Abandoned
  <2>2. r \in RequestSet /\ Sound(r)  BY DEF Sound
  <2>3. q = [pc |-> r.pc, params |-> r.params, wanted |-> FALSE,
             current |-> FALSE, age |-> r.age, taken |-> r.taken, old |-> r.old]
    BY <2>2, WithUse, Zenon
  <2> HIDE DEF q
  <2>4. q \in RequestSet  BY <2>2, <2>3 DEF RequestSet
  <2>5. ~q.wanted /\ q.pc = r.pc /\ q.params = r.params /\ q.age = r.age /\ q.taken = r.taken
        /\ q.old = r.old
    BY <2>3
  <2>6. Sound(q)  BY <1>2, <2>2, <2>4, <2>5 DEF Sound
  <2> QED BY <2>1, <2>5, <2>6
<1> QED BY <1>1, <1>2

-----------------------------------------------------------------------------
(* What the steps do to the requests.                                      *)

AllSound == \A s \in Slots : Sound(request[s])
AllDue   == \A s \in Slots : Due(request[s])
Up       == visible /\ timer # None /\ ~effectDue => Kept

\* The constants are natural numbers.
LEMMA Numbers ==
  /\ Interval \in Nat /\ Interval > 0 /\ MaxAnswer \in Nat /\ MaxAnswer < Interval
  /\ TTL \in Nat /\ TTL > 0 /\ Stale \in Nat /\ MaxAge = Interval + MaxAnswer + Stale
  /\ None \notin Nat
  BY LiveStatsAssumption DEF LiveStatsAssumption, Stale, MaxAge

\* A sound request is one.
LEMMA SoundRequest ==
  ASSUME NEW r, Sound(r)
  PROVE /\ r \in RequestSet /\ r.age \in Nat /\ r.age <= MaxAnswer /\ r.taken \in Nat
        /\ r.wanted \in BOOLEAN /\ r.current \in BOOLEAN /\ r.old \in BOOLEAN
  BY Numbers DEF Sound, RequestSet, Age

\* The panel asks in slot s, and awaits nothing else.
Asking(s) ==
  /\ request' \in [Slots -> RequestSet] /\ AllSound'
  /\ request'[s].wanted /\ request'[s].current /\ request'[s].age = 0 /\ ~request'[s].old
  /\ \A u \in Slots : u # s => ~request'[u].wanted

\* Runs asks.
LEMMA RunsAsks ==
  ASSUME AllSound, question \in Question, Runs
  PROVE \E s \in Slots : Asking(s)
<1>1. PICK s \in Slots : request' = [Abandoned(request) EXCEPT ![s] = Sent]
  BY DEF Runs, FreeSlots, Sent
<1>2. \A u \in Slots : Sound(Abandoned(request)[u]) /\ ~Abandoned(request)[u].wanted
  BY AbandonedSound DEF AllSound
<1>3. Abandoned(request) = [u \in Slots |-> Abandoned(request)[u]]  BY DEF Abandoned
<1>4. request' = [u \in Slots |-> IF u = s THEN Sent ELSE Abandoned(request)[u]]
  BY <1>1, <1>3
<1>5. \A u \in Slots : Sound(request'[u])  BY <1>2, <1>4, SentSound
<1>6. \A u \in Slots : request'[u] \in RequestSet  BY <1>5 DEF Sound
<1>7. request' \in [Slots -> RequestSet]  BY <1>4, <1>6
<1>8. request'[s] = Sent /\ \A u \in Slots : u # s => ~request'[u].wanted
  BY <1>2, <1>4
<1> QED BY <1>5, <1>7, <1>8, SentSound DEF Asking, AllSound

\* The request that is asked is the only one, and due.
LEMMA AskingDue ==
  ASSUME NEW s \in Slots, Asking(s), timer' \in 0 .. Interval
  PROVE OneWanted' /\ AllDue'
<1>1. OneWanted'  BY DEF Asking, OneWanted
<1>2. ASSUME NEW u \in Slots
      PROVE Due(request[u])'
  <2>1. CASE u = s
    <3>1. timer' + request'[u].age <= Interval  BY <2>1, Numbers DEF Asking
    <3> QED BY <2>1, <3>1, Zenon DEF Asking, Due
  <2>2. CASE u # s  BY <2>2, Zenon DEF Asking, Due
  <2> QED BY <2>1, <2>2
<1> QED BY <1>1, <1>2 DEF AllDue

\* Its answer will be there before the timer fires.
LEMMA AskingKept ==
  ASSUME NEW s \in Slots, Asking(s), timer' > MaxAnswer, grace' > MaxAnswer,
         timer' \in Nat, grace' \in Nat
  PROVE Kept'
<1>1. request'[s].wanted  BY Zenon DEF Asking
<1>2. request'[s].age = 0  BY Zenon DEF Asking
<1>3. timer' + request'[s].age > MaxAnswer /\ grace' + request'[s].age > MaxAnswer
  BY <1>2
<1>4. Awaited(request[s])'  BY <1>1, <1>3, Zenon DEF Awaited
<1> QED BY <1>4 DEF Kept

\* A request r that, if it is still wanted as q, is the same.
Remains(r, q) ==
  q.wanted => /\ r.wanted /\ q.age = r.age /\ (r.current => q.current)
              /\ wiped' \/ (q.old => r.old)

AllRemain == \A s \in Slots : Remains(request[s], request'[s])

\* What is wanted stays due.
LEMMA RemainDue ==
  ASSUME OneWanted, AllDue, AllRemain, timer' = timer, effectDue => effectDue',
         visible' => visible, wiped => wiped'
  PROVE OneWanted' /\ AllDue'
<1>1. OneWanted'  BY Zenon DEF OneWanted, AllRemain, Remains
<1>2. ASSUME NEW u \in Slots
      PROVE Due(request[u])'
  <2>1. Remains(request[u], request'[u]) /\ Due(request[u])  BY DEF AllRemain, AllDue
  <2>2. ~request'[u].wanted \/ request'[u].age = request[u].age  BY <2>1 DEF Remains
  <2>3. CASE ~request'[u].wanted  BY <2>3 DEF Due
  <2>4. CASE request'[u].wanted
    <3>1. request[u].wanted /\ request'[u].age = request[u].age
          /\ (request[u].current => request'[u].current)
          /\ (wiped' \/ (request'[u].old => request[u].old))
      BY <2>1, <2>4 DEF Remains
    <3>2. /\ timer' \in 0 .. Interval
          /\ ~effectDue' => request'[u].current /\ (~wiped' => ~request'[u].old)
          /\ visible' => timer' + request'[u].age <= Interval
      BY <2>1, <3>1 DEF Due
    <3> QED BY <3>2, Zenon DEF Due
  <2> QED BY <2>3, <2>4
<1> QED BY <1>1, <1>2 DEF AllDue

\* When none that was wanted is lost, the panel stays up to date.
LEMMA RemainUp ==
  ASSUME Up, AllRemain, \A s \in Slots : request[s].wanted => request'[s].wanted,
         timer' = timer, effectDue' = effectDue, visible' = visible, grace' = grace,
         shown # None => shown' # None /\ shown'.taken = shown.taken
  PROVE Up'
<1> SUFFICES ASSUME visible', timer' # None, ~effectDue' PROVE Kept'  BY DEF Up
<1>1. Kept  BY DEF Up
<1>2. CASE FreshResting
  BY <1>2 DEF FreshResting, AllRemain, Remains, Kept
<1>3. CASE Spared  BY <1>3 DEF Spared, Kept
<1>4. ASSUME NEW s \in Slots, FreshAwaiting(request[s]) \/ Awaited(request[s])
      PROVE Kept'
  <2>1. request'[s].wanted  BY <1>4 DEF FreshAwaiting, Awaited
  <2>2. request'[s].age = request[s].age  BY <2>1 DEF AllRemain, Remains
  <2>3. FreshAwaiting(request[s])' \/ Awaited(request[s])'
    BY <1>4, <2>1, <2>2 DEF FreshAwaiting, Awaited
  <2> QED BY <2>3 DEF Kept
<1> QED BY <1>1, <1>2, <1>3, <1>4 DEF Kept

\* One request is replaced by one that is sound.
LEMMA ReplacedSound ==
  ASSUME request \in [Slots -> RequestSet], AllSound, NEW s \in Slots, NEW q, Sound(q),
         request' = [request EXCEPT ![s] = q]
  PROVE /\ request' \in [Slots -> RequestSet] /\ AllSound'
        /\ request'[s] = q /\ \A u \in Slots : u # s => request'[u] = request[u]
<1>1. q \in RequestSet  BY DEF Sound
<1>2. request' \in [Slots -> RequestSet] /\ request'[s] = q
      /\ \A u \in Slots : u # s => request'[u] = request[u]
  BY <1>1
<1>3. \A u \in Slots : Sound(request'[u])  BY <1>2 DEF AllSound
<1> QED BY <1>2, <1>3 DEF AllSound

\* Requests are the same to begin with.
LEMMA RemainSelf ==
  ASSUME NEW s \in Slots, NEW q, Remains(request[s], q), request'[s] = q,
         \A u \in Slots : u # s => request'[u] = request[u]
  PROVE AllRemain
<1>1. \A u \in Slots : Remains(request[u], request[u])  BY DEF Remains
<1> QED BY <1>1 DEF AllRemain

-----------------------------------------------------------------------------
(* The steps of the hook.                                                  *)

\* What is left of the invariant besides the requests and the time.
Rest ==
  /\ question \in Question /\ effectDue \in BOOLEAN
  /\ timer \in {None} \cup 0 .. Interval
  /\ visible \in BOOLEAN /\ wiped \in BOOLEAN /\ grace \in Nat
  /\ shown \in {None} \cup ShownSet
  /\ cache \in [Params -> {None} \cup EntrySet]
  /\ \A p \in Params : Entry(cache[p])
  /\ ~effectDue /\ shown # None => shown.current /\ (~wiped => ~shown.old)

\* The parts of the invariant.
LEMMA Parts ==
  Inv <=> /\ Rest /\ request \in [Slots -> RequestSet] /\ OneWanted
          /\ AllSound /\ AllDue /\ Up
  BY DEF Inv, Rest, TypeOK, RequestSet, ShownSet, EntrySet, AllSound, AllDue, Up

\* ... and after a step.
LEMMA PartsNext ==
  ASSUME Rest', request' \in [Slots -> RequestSet], OneWanted', AllSound', AllDue', Up'
  PROVE Inv'
  BY DEF Inv, Rest, TypeOK, RequestSet, ShownSet, EntrySet, AllSound, AllDue, Up

\* The effect: a new timer, and the only request, whose answer comes first.
LEMMA EffectInv ==
  ASSUME Inv, Effect
  PROVE Inv'
<1>1. Rest /\ request \in [Slots -> RequestSet] /\ AllSound  BY Parts
<1>2. grace' = MaxAnswer + 1 /\ shown' = None /\ effectDue' = FALSE
      /\ question' = question /\ visible' = visible /\ cache' = cache /\ wiped' = wiped
  BY DEF Effect
<1>3. CASE question.pendingOnly
  <2>1. request' = Abandoned(request) /\ timer' = None  BY <1>3 DEF Effect
  <2>2. \A u \in Slots : Sound(request'[u]) /\ ~request'[u].wanted
    BY <1>1, <2>1, AbandonedSound DEF AllSound
  <2>3. request' = [u \in Slots |-> request'[u]]  BY <2>1 DEF Abandoned
  <2>4. request' \in [Slots -> RequestSet]  BY <2>2, <2>3 DEF Sound
  <2>5. OneWanted' /\ AllSound' /\ AllDue'
    BY <2>2 DEF OneWanted, AllSound, AllDue, Due
  <2>6. Up'  BY <2>1 DEF Up
  <2>7. timer' \in {None} \cup 0 .. Interval /\ grace' \in Nat
        /\ shown' \in {None} \cup ShownSet
        /\ (~effectDue' /\ shown' # None => shown'.current /\ (~wiped' => ~shown'.old))
    BY <1>2, <2>1, Numbers
  <2>8. Rest'  BY <1>1, <1>2, <2>7, Zenon DEF Rest
  <2> QED BY <2>4, <2>5, <2>6, <2>8, PartsNext
<1>4. CASE ~question.pendingOnly
  <2>1. Runs /\ timer' = Interval  BY <1>4 DEF Effect
  <2>2. PICK s \in Slots : Asking(s)  BY <1>1, <2>1, RunsAsks DEF Rest
  <2>3. timer' \in 0 .. Interval /\ timer' \in Nat /\ timer' > MaxAnswer
        /\ grace' \in Nat /\ grace' > MaxAnswer
    BY <1>2, <2>1, Numbers
  <2>4. OneWanted' /\ AllDue'  BY <2>2, <2>3, AskingDue
  <2>5. Kept'  BY <2>2, <2>3, AskingKept
  <2>6. Rest'  BY <1>1, <1>2, <2>3 DEF Rest
  <2>7. request' \in [Slots -> RequestSet] /\ AllSound'  BY <2>2 DEF Asking
  <2> QED BY <2>4, <2>5, <2>6, <2>7, PartsNext DEF Up
<1> QED BY <1>3, <1>4

\* The timer: what is shown will do until the answer that is asked for now.
LEMMA TimerInv ==
  ASSUME Inv, TimerFires
  PROVE Inv'
<1>1. Rest /\ request \in [Slots -> RequestSet] /\ AllSound /\ AllDue /\ OneWanted /\ Up
  BY Parts
<1>2. timer = 0 /\ timer' = Interval /\ question' = question /\ effectDue' = effectDue
      /\ visible' = visible /\ shown' = shown /\ cache' = cache /\ wiped' = wiped
      /\ grace' = grace
  BY DEF TimerFires
<1>3. timer' \in 0 .. Interval /\ timer' \in Nat /\ timer' > MaxAnswer /\ grace \in Nat
  BY <1>1, <1>2, Numbers DEF Rest
<1>4. Rest'  BY <1>1, <1>2, <1>3 DEF Rest
<1>5. CASE visible
  <2>1. Runs  BY <1>5 DEF TimerFires
  <2>2. PICK s \in Slots : Asking(s)  BY <1>1, <2>1, RunsAsks DEF Rest
  <2>3. OneWanted' /\ AllDue'  BY <1>3, <2>2, AskingDue
  <2>4. ASSUME ~effectDue PROVE Kept'
    <3>1. Kept  BY <1>2, <1>5, <2>4, <1>1, Numbers DEF Up
    <3>2. CASE FreshResting
      <4>1. shown # None /\ shown.taken <= Interval + Stale
        BY <1>2, <3>2, Numbers DEF FreshResting
      <4>2. request'[s].wanted /\ request'[s].age = 0  BY <2>2, Zenon DEF Asking
      <4>3. timer' + request'[s].age > MaxAnswer
            /\ shown'.taken <= Interval + request'[s].age + Stale
        BY <1>2, <1>3, <4>1, <4>2, Numbers
      <4>4. FreshAwaiting(request[s])'  BY <1>2, <4>1, <4>2, <4>3, Zenon DEF FreshAwaiting
      <4> QED BY <4>4 DEF Kept
    <3>3. CASE Spared
      <4>1. grace' > MaxAnswer /\ grace' \in Nat  BY <1>2, <1>3, <3>3, Numbers DEF Spared
      <4> QED BY <1>3, <2>2, <4>1, AskingKept
    <3>4. ASSUME NEW u \in Slots, FreshAwaiting(request[u]) \/ Awaited(request[u])
          PROVE FALSE
      <4>1. request[u].age \in Nat /\ request[u].age <= MaxAnswer
        BY <1>1, SoundRequest DEF AllSound
      <4>2. timer + request[u].age > MaxAnswer  BY <3>4 DEF FreshAwaiting, Awaited
      <4> QED BY <1>2, <4>1, <4>2, Numbers
    <3> QED BY <3>1, <3>2, <3>3, <3>4 DEF Kept
  <2>5. request' \in [Slots -> RequestSet] /\ AllSound'  BY <2>2 DEF Asking
  <2>6. Up'  BY <1>2, <2>4 DEF Up
  <2> QED BY <1>4, <2>3, <2>5, <2>6, PartsNext
<1>6. CASE ~visible
  <2>1. request' = request  BY <1>6 DEF TimerFires
  <2>2. OneWanted' /\ AllSound'  BY <1>1, <2>1 DEF OneWanted, AllSound
  <2>3. \A u \in Slots : Due(request[u])'
    BY <1>1, <1>2, <1>3, <1>6, <2>1 DEF AllDue, Due
  <2>4. Up'  BY <1>2, <1>6 DEF Up
  <2> QED BY <1>1, <1>4, <2>1, <2>2, <2>3, <2>4, PartsNext DEF AllDue
<1> QED BY <1>5, <1>6

\* The tab is hidden.
LEMMA HidesInv ==
  ASSUME Inv, Hides
  PROVE Inv'
<1>1. Rest /\ request \in [Slots -> RequestSet] /\ AllSound /\ AllDue /\ OneWanted
  BY Parts
<1>2. /\ visible' = FALSE /\ question' = question /\ effectDue' = effectDue /\ timer' = timer
      /\ shown' = shown /\ request' = request /\ cache' = cache /\ wiped' = wiped
      /\ grace' = grace
  BY DEF Hides
<1>3. Rest'  BY <1>1, <1>2 DEF Rest
<1>4. AllRemain  BY <1>2 DEF AllRemain, Remains
<1>5. OneWanted' /\ AllDue'  BY <1>1, <1>2, <1>4, RemainDue
<1>6. AllSound' /\ request' \in [Slots -> RequestSet]  BY <1>1, <1>2 DEF AllSound
<1>7. Up'  BY <1>2 DEF Up
<1> QED BY <1>3, <1>5, <1>6, <1>7, PartsNext

\* It is shown: the answer that is asked for comes before the timer fires, or there is
\* time for the one the timer asks for.
LEMMA ShowsInv ==
  ASSUME Inv, Shows
  PROVE Inv'
<1>1. Rest /\ request \in [Slots -> RequestSet] /\ AllSound /\ AllDue /\ OneWanted
  BY Parts
<1>2. /\ visible' = TRUE /\ question' = question /\ effectDue' = effectDue /\ timer' = timer
      /\ shown' = shown /\ cache' = cache /\ wiped' = wiped
      /\ grace' = 2 * MaxAnswer + 1
  BY DEF Shows
<1>3. grace' \in Nat  BY <1>2, Numbers
<1>4. Rest'  BY <1>1, <1>2, <1>3 DEF Rest
<1>5. CASE timer = None
  <2>1. request' = request  BY <1>5 DEF Shows
  <2>2. \A u \in Slots : ~request[u].wanted
    BY <1>1, <1>5, Numbers DEF AllDue, Due
  <2>3. OneWanted' /\ AllDue'  BY <2>1, <2>2 DEF OneWanted, AllDue, Due
  <2>4. AllSound' /\ request' \in [Slots -> RequestSet]  BY <1>1, <2>1 DEF AllSound
  <2>5. Up'  BY <1>2, <1>5 DEF Up
  <2> QED BY <1>4, <2>3, <2>4, <2>5, PartsNext
<1>6. CASE timer # None
  <2>1. Runs  BY <1>6 DEF Shows
  <2>2. PICK s \in Slots : Asking(s)  BY <1>1, <2>1, RunsAsks DEF Rest
  <2>3. timer' \in 0 .. Interval  BY <1>1, <1>2, <1>6 DEF Rest
  <2>4. OneWanted' /\ AllDue'  BY <2>2, <2>3, AskingDue
  <2>5. Kept'
    <3>1. CASE timer' > MaxAnswer
      <4>1. timer' \in Nat /\ grace' > MaxAnswer  BY <1>2, <2>3, Numbers
      <4> QED BY <1>3, <2>2, <3>1, <4>1, AskingKept
    <3>2. CASE ~(timer' > MaxAnswer)
      <4>1. grace' > timer' + MaxAnswer  BY <1>2, <2>3, <3>2, Numbers
      <4> QED BY <4>1 DEF Spared, Kept
    <3> QED BY <3>1, <3>2
  <2>6. request' \in [Slots -> RequestSet] /\ AllSound'  BY <2>2 DEF Asking
  <2>7. Up'  BY <2>5 DEF Up
  <2> QED BY <1>4, <2>4, <2>6, <2>7, PartsNext
<1> QED BY <1>5, <1>6

\* What the panel awaits is not current any more; the effect is due.
LEMMA RendersRequests ==
  ASSUME request \in [Slots -> RequestSet], OneWanted, AllSound, AllDue, Renders,
         timer' = timer, visible' = visible
  PROVE request' \in [Slots -> RequestSet] /\ OneWanted' /\ AllSound' /\ AllDue' /\ Up'
<1>1. effectDue' = TRUE /\ request' = [s \in Slots |-> [request[s] EXCEPT !.current = FALSE]]
  BY DEF Renders
<1>2. ASSUME NEW s \in Slots
      PROVE /\ Sound(request'[s]) /\ request'[s].wanted = request[s].wanted
            /\ request'[s].age = request[s].age
  <2> DEFINE r == request[s]
             q == [r EXCEPT !.current = FALSE]
  <2>1. r \in RequestSet /\ Sound(r)  BY DEF AllSound
  <2>2. request'[s] = q  BY <1>1
  <2>3. q \in RequestSet /\ q.wanted = r.wanted /\ q.age = r.age /\ q.pc = r.pc
        /\ q.params = r.params /\ q.taken = r.taken /\ q.old = r.old
    BY <2>1 DEF RequestSet
  <2> HIDE DEF q
  <2>4. Sound(q)  BY <2>1, <2>3 DEF Sound
  <2> QED BY <2>2, <2>3, <2>4
<1>3. request' \in [Slots -> RequestSet]  BY <1>1, <1>2 DEF Sound
<1>4. OneWanted'  BY <1>2 DEF OneWanted
<1>5. AllSound'  BY <1>2 DEF AllSound
<1>6. \A s \in Slots : Due(request[s])'  BY <1>1, <1>2 DEF AllDue, Due
<1>7. Up'  BY <1>1 DEF Up
<1> QED BY <1>3, <1>4, <1>5, <1>6, <1>7 DEF AllDue

\* What was shown is kept, as an answer to another question.
LEMMA RendersRest ==
  ASSUME Rest, Renders, question' \in Question, timer' = timer, visible' = visible,
         cache' = cache, wiped' \in BOOLEAN, grace' = grace
  PROVE Rest'
<1>1. effectDue' = TRUE
      /\ shown' = IF shown = None THEN None ELSE [shown EXCEPT !.current = FALSE]
  BY DEF Renders
<1>2. shown' \in {None} \cup ShownSet
  BY <1>1 DEF Rest, ShownSet
<1> QED BY <1>1, <1>2, Zenon DEF Rest

\* Chooses and HearsOfWipe.
LEMMA RendersInv ==
  ASSUME Inv, Chooses \/ HearsOfWipe
  PROVE Inv'
<1>1. Rest /\ request \in [Slots -> RequestSet] /\ AllSound /\ AllDue /\ OneWanted
  BY Parts
<1>2. Renders /\ timer' = timer /\ visible' = visible /\ cache' = cache /\ grace' = grace
  BY DEF Chooses, HearsOfWipe
<1>3. question' \in Question /\ wiped' \in BOOLEAN
  BY <1>1 DEF Chooses, HearsOfWipe, Rest
<1>4. Rest'  BY <1>1, <1>2, <1>3, RendersRest
<1> QED BY <1>1, <1>2, <1>4, RendersRequests, PartsNext

-----------------------------------------------------------------------------
(* The steps of the server.                                                *)

\* What these steps leave of the panel.
Aside == UNCHANGED <<question, effectDue, timer, visible, shown, wiped, grace>>

\* A request goes on, and what is wanted remains.
LEMMA ServerInv ==
  ASSUME Inv, Aside, NEW s \in Slots, NEW q, Sound(q), Remains(request[s], q),
         request[s].wanted => q.wanted, request' = [request EXCEPT ![s] = q],
         cache' \in [Params -> {None} \cup EntrySet],
         \A p \in Params : Entry(cache'[p])
  PROVE Inv'
<1>1. Rest /\ request \in [Slots -> RequestSet] /\ AllSound /\ AllDue /\ OneWanted /\ Up
  BY Parts
<1>2. question' = question /\ effectDue' = effectDue /\ timer' = timer /\ visible' = visible
      /\ shown' = shown /\ wiped' = wiped /\ grace' = grace
  BY DEF Aside
<1>3. /\ request' \in [Slots -> RequestSet] /\ AllSound'
      /\ request'[s] = q /\ \A u \in Slots : u # s => request'[u] = request[u]
  BY <1>1, ReplacedSound
<1>4. AllRemain  BY <1>3, RemainSelf
<1>5. OneWanted' /\ AllDue'  BY <1>1, <1>2, <1>4, RemainDue
<1>6. \A u \in Slots : request[u].wanted => request'[u].wanted  BY <1>3
<1>7. Up'  BY <1>1, <1>2, <1>4, <1>6, RemainUp
<1>8. Rest'  BY <1>1, <1>2 DEF Rest
<1> QED BY <1>3, <1>5, <1>7, <1>8, PartsNext

\* An answer: what nobody waits for is gone.
LEMMA AnsweredSound ==
  ASSUME NEW r, Sound(r), r.pc # "free", NEW found, found.taken \in Age,
         found.taken <= r.age + Stale, found.old = FALSE
  PROVE /\ Sound(Answered(r, found)) /\ Remains(r, Answered(r, found))
        /\ r.wanted => Answered(r, found).wanted
<1>1. CASE r.wanted
  <2> DEFINE q == [r EXCEPT !.pc = "back", !.taken = found.taken, !.old = found.old]
  <2>1. Answered(r, found) = q  BY <1>1 DEF Answered
  <2>2. r \in RequestSet  BY DEF Sound
  <2>3. q = [pc |-> "back", params |-> r.params, wanted |-> r.wanted,
             current |-> r.current, age |-> r.age, taken |-> found.taken, old |-> found.old]
    <3>1. \A y, z : [r EXCEPT !.pc = "back", !.taken = y, !.old = z]
                    = [pc |-> "back", params |-> r.params, wanted |-> r.wanted,
                       current |-> r.current, age |-> r.age, taken |-> y, old |-> z]
      BY <2>2, WithAnswer, Zenon
    <3> QED BY <3>1, Zenon
  <2> HIDE DEF q
  <2>4. q.pc = "back" /\ q.params = r.params /\ q.wanted = r.wanted /\ q.current = r.current
        /\ q.age = r.age /\ q.taken = found.taken /\ q.old = FALSE
    BY <2>3
  <2>5. q \in RequestSet  BY <2>2, <2>3, <2>4 DEF RequestSet
  <2>6. r.params \in Params  BY DEF Sound
  <2>7. Sound(q)  BY <1>1, <2>4, <2>5, <2>6 DEF Sound
  <2> QED BY <1>1, <2>1, <2>4, <2>7 DEF Remains
<1>2. CASE ~r.wanted
  BY <1>2, FreeSound DEF Answered, Remains
<1> QED BY <1>1, <1>2

\* What is in the cache.
LEMMA Cached ==
  ASSUME Inv, NEW p \in Params, cache[p] # None
  PROVE /\ cache[p].age \in 0 .. TTL - 1 /\ cache[p].taken \in Nat
        /\ cache[p].taken <= cache[p].age + MaxAnswer /\ cache[p].taken <= Stale
        /\ cache[p].old = FALSE
<1>1. cache[p] \in EntrySet
  BY Parts DEF Rest
<1>2. cache[p].age \in 0 .. TTL - 1 /\ cache[p].taken \in 0 .. MaxAnswer + TTL - 1
      /\ cache[p].old \in BOOLEAN
  BY <1>1 DEF EntrySet
<1>3. cache[p].taken <= cache[p].age + MaxAnswer /\ ~cache[p].old  BY DEF Inv, Entry
<1> QED BY <1>2, <1>3, Numbers DEF Stale

\* Served.
LEMMA ServedInv ==
  ASSUME Inv, NEW s \in Slots, Served(s)
  PROVE Inv'
<1> DEFINE r == request[s]
           found == cache[KeyOf(s)]
<1>1. Sound(r) /\ r.pc = "sent" /\ request \in [Slots -> RequestSet]
  BY Parts DEF AllSound, Served
<1>2. KeyOf(s) \in Params /\ cache[KeyOf(s)] # None  BY <1>1 DEF Sound, KeyOf, Served
<1>3. found.taken \in Nat /\ found.taken <= Stale /\ found.old = FALSE  BY <1>2, Cached
<1>4. r.age \in Nat  BY <1>1, SoundRequest
<1>5. found.taken \in Age /\ found.taken <= r.age + Stale  BY <1>3, <1>4, Numbers DEF Age
<1>6. request' = [request EXCEPT ![s] = Answered(r, found)]  BY DEF Served
<1> HIDE DEF found
<1>7. /\ Sound(Answered(r, found)) /\ Remains(r, Answered(r, found))
      /\ r.wanted => Answered(r, found).wanted
  BY <1>1, <1>3, <1>5, AnsweredSound
<1>8. Aside /\ cache' = cache  BY DEF Served, Aside
<1>9. /\ cache' \in [Params -> {None} \cup EntrySet]
      /\ \A p \in Params : Entry(cache'[p])
  BY <1>8, Parts DEF Rest
<1> QED BY <1>6, <1>7, <1>8, <1>9, ServerInv

\* Queries.
LEMMA QueriesInv ==
  ASSUME Inv, NEW s \in Slots, Queries(s)
  PROVE Inv'
<1> DEFINE r == request[s]
           q == [r EXCEPT !.pc = "query", !.taken = 0]
<1>1. Sound(r) /\ r.pc = "sent" /\ r \in RequestSet  BY Parts DEF AllSound, Queries, Sound
<1>2. request' = [request EXCEPT ![s] = [request[s] EXCEPT !.pc = "query", !.taken = 0]]
  BY DEF Queries
<1>3. q = [pc |-> "query", params |-> r.params, wanted |-> r.wanted,
           current |-> r.current, age |-> r.age, taken |-> 0, old |-> r.old]
  BY <1>1, WithPhase, Zenon
<1>4. request' = [request EXCEPT ![s] = q]  BY <1>2
<1> HIDE DEF q
<1>5. 0 \in Age  BY Numbers DEF Age
<1>6. q \in RequestSet  BY <1>1, <1>3, <1>5 DEF RequestSet
<1>7. q.pc = "query" /\ q.params = r.params /\ q.wanted = r.wanted /\ q.current = r.current
      /\ q.age = r.age /\ q.taken = 0 /\ q.old = r.old
  BY <1>3
<1>8. r.age \in Nat /\ r.params \in Params /\ ~r.old  BY <1>1, SoundRequest DEF Sound
<1>9. 0 <= r.age /\ 0 <= r.age + Stale  BY <1>8, Numbers
<1>10. Sound(q)  BY <1>6, <1>7, <1>8, <1>9 DEF Sound
<1>11. Remains(r, q) /\ (r.wanted => q.wanted)  BY <1>7 DEF Remains
<1>12. Aside /\ cache' = cache  BY DEF Queries, Aside
<1>13. /\ cache' \in [Params -> {None} \cup EntrySet]
       /\ \A p \in Params : Entry(cache'[p])
  BY <1>12, Parts DEF Rest
<1> QED BY <1>4, <1>10, <1>11, <1>12, <1>13, ServerInv

\* OtherAsks.
LEMMA OtherAsksInv ==
  ASSUME Inv, OtherAsks
  PROVE Inv'
<1>1. PICK s \in FreeSlots(request), p \in Params :
        request' = [request EXCEPT ![s] = [Free EXCEPT !.pc = "query", !.params = p]]
  BY Zenon DEF OtherAsks
<1> DEFINE q == [Free EXCEPT !.pc = "query", !.params = p]
<1>2. s \in Slots /\ Sound(request[s]) /\ ~request[s].wanted
  BY Parts DEF FreeSlots, AllSound, Sound
<1>3. q = [pc |-> "query", params |-> p, wanted |-> Free.wanted,
           current |-> Free.current, age |-> Free.age, taken |-> Free.taken,
           old |-> Free.old]
  BY FreeSound, WithParams, Zenon
<1>4. request' = [request EXCEPT ![s] = q]  BY <1>1
<1> HIDE DEF q
<1>5. q \in RequestSet  BY <1>3, FreeSound DEF RequestSet
<1>6. q.pc = "query" /\ q.params = p /\ q.wanted = FALSE /\ q.age = 0 /\ q.taken = 0
      /\ q.old = FALSE
  BY <1>3, FreeSound
<1>7. 0 <= 0 + Stale  BY Numbers
<1>8. Sound(q)  BY <1>5, <1>6, <1>7 DEF Sound
<1>9. Remains(request[s], q) /\ (request[s].wanted => q.wanted)  BY <1>2, <1>6 DEF Remains
<1>10. Aside /\ cache' = cache  BY DEF OtherAsks, Aside
<1>11. /\ cache' \in [Params -> {None} \cup EntrySet]
       /\ \A v \in Params : Entry(cache'[v])
  BY <1>10, Parts DEF Rest
<1> QED BY <1>2, <1>4, <1>8, <1>9, <1>10, <1>11, ServerInv

\* Answers: the entry is as old as the query.
LEMMA AnswersInv ==
  ASSUME Inv, NEW s \in Slots, Answers(s)
  PROVE Inv'
<1> DEFINE r == request[s]
           c == [age |-> 0, taken |-> r.taken, old |-> FALSE]
<1>1. Sound(r) /\ r.pc = "query" /\ request \in [Slots -> RequestSet]
  BY Parts DEF AllSound, Answers
<1>2. r.age \in Nat /\ r.taken \in Nat /\ r.age <= MaxAnswer /\ r.taken \in Age
  BY <1>1, SoundRequest DEF RequestSet
<1>3. r.taken <= r.age /\ r.taken <= r.age + Stale /\ r.old = FALSE
  BY <1>1, SoundRequest DEF Sound
<1>4. request' = [request EXCEPT ![s] = Answered(r, r)]  BY DEF Answers
<1>5. /\ Sound(Answered(r, r)) /\ Remains(r, Answered(r, r))
      /\ r.wanted => Answered(r, r).wanted
  BY <1>1, <1>2, <1>3, AnsweredSound
<1>6. cache' = [cache EXCEPT ![KeyOf(s)] = c]  BY DEF Answers
<1>7. c.taken \in 0 .. MaxAnswer + TTL - 1 /\ 0 \in 0 .. TTL - 1 /\ c.taken <= 0 + MaxAnswer
  BY <1>2, <1>3, Numbers
<1>8. c \in EntrySet /\ Entry(c)
  BY <1>7 DEF Entry, EntrySet
<1> HIDE DEF c
<1>9. cache \in [Params -> {None} \cup EntrySet]
      /\ \A p \in Params : Entry(cache[p])
  BY Parts DEF Rest
<1>10. /\ cache' \in [Params -> {None} \cup EntrySet]
       /\ \A p \in Params : Entry(cache'[p])
  BY <1>6, <1>8, <1>9
<1>11. Aside  BY DEF Answers, Aside
<1> QED BY <1>4, <1>5, <1>10, <1>11, ServerInv

\* Wipes: what was there is old, and there is nothing in the cache.
LEMMA WipesInv ==
  ASSUME Inv, Wipes
  PROVE Inv'
<1>1. Rest /\ request \in [Slots -> RequestSet] /\ AllSound /\ AllDue /\ OneWanted /\ Up
  BY Parts
<1>2. question' = question /\ effectDue' = effectDue /\ timer' = timer /\ visible' = visible
      /\ grace' = grace /\ wiped' = TRUE
      /\ shown' = (IF shown = None THEN None ELSE [shown EXCEPT !.old = TRUE])
      /\ request' = [s \in Slots |-> [request[s] EXCEPT !.old = (request[s].pc = "back")]]
  BY Zenon DEF Wipes, Outdates
<1>3. cache' = [p \in Params |-> None]  BY DEF Wipes
<1>4. /\ cache' \in [Params -> {None} \cup EntrySet]
      /\ \A p \in Params : Entry(cache'[p])
  BY <1>3 DEF Entry
<1>5. /\ shown = None => shown' = None
      /\ shown # None => /\ shown' \in ShownSet /\ shown' # None
                         /\ shown'.taken = shown.taken /\ shown'.current = shown.current
  <2>1. CASE shown = None  BY <1>2, <2>1
  <2>2. CASE shown # None
    <3>1. shown \in ShownSet  BY <1>1, <2>2 DEF Rest
    <3>2. shown' = [shown EXCEPT !.old = TRUE]  BY <1>2, <2>2
    <3>3. shown' \in ShownSet /\ shown'.taken = shown.taken /\ shown'.current = shown.current
      BY <3>1, <3>2 DEF ShownSet
    <3>4. shown' # None
      BY <3>3, Numbers, LiveStatsAssumption DEF LiveStatsAssumption, ShownSet, Age
    <3> QED BY <2>2, <3>3, <3>4
  <2> QED BY <2>1, <2>2
<1>6. Rest'  BY <1>1, <1>2, <1>4, <1>5 DEF Rest
<1>7. ASSUME NEW s \in Slots
      PROVE /\ Sound(request'[s]) /\ request'[s].wanted = request[s].wanted
            /\ request'[s].age = request[s].age /\ request'[s].current = request[s].current
  <2> DEFINE r == request[s]
             q == [r EXCEPT !.old = (r.pc = "back")]
  <2>1. r \in RequestSet /\ Sound(r)  BY <1>1 DEF AllSound
  <2>2. request'[s] = q  BY <1>2
  <2>3. (r.pc = "back") \in BOOLEAN  OBVIOUS
  <2>4. q \in RequestSet /\ q.wanted = r.wanted /\ q.age = r.age /\ q.pc = r.pc
        /\ q.params = r.params /\ q.taken = r.taken /\ q.current = r.current
        /\ (q.old => r.pc = "back")
    BY <2>1, <2>3 DEF RequestSet
  <2> HIDE DEF q
  <2>5. Sound(q)  BY <2>1, <2>4 DEF Sound
  <2> QED BY <2>2, <2>4, <2>5
<1>8. AllSound' /\ request' \in [Slots -> RequestSet]  BY <1>2, <1>7 DEF AllSound, Sound
<1>9. AllRemain /\ \A u \in Slots : request[u].wanted => request'[u].wanted
  BY <1>2, <1>7 DEF AllRemain, Remains
<1>10. OneWanted' /\ AllDue'  BY <1>1, <1>2, <1>9, RemainDue
<1>11. Up'  BY <1>1, <1>2, <1>5, <1>9, RemainUp
<1> QED BY <1>6, <1>8, <1>10, <1>11, PartsNext

-----------------------------------------------------------------------------
(* The end of a request, and time.                                         *)

\* A request ends: the others remain.
LEMMA EndsRequests ==
  ASSUME Inv, NEW s \in Slots, request' = [request EXCEPT ![s] = Free],
         timer' = timer, effectDue' = effectDue, visible' = visible, wiped' = wiped
  PROVE /\ request' \in [Slots -> RequestSet] /\ AllSound' /\ OneWanted' /\ AllDue'
        /\ ~request'[s].wanted /\ AllRemain
        /\ \A u \in Slots : u # s => request'[u] = request[u]
<1>1. Rest /\ request \in [Slots -> RequestSet] /\ AllSound /\ AllDue /\ OneWanted
  BY Parts
<1>2. /\ request' \in [Slots -> RequestSet] /\ AllSound'
      /\ request'[s] = Free /\ \A u \in Slots : u # s => request'[u] = request[u]
  BY <1>1, FreeSound, ReplacedSound
<1>3. ~Free.wanted /\ Remains(request[s], Free)  BY FreeSound DEF Remains
<1>4. AllRemain  BY <1>2, <1>3, RemainSelf
<1>5. OneWanted' /\ AllDue'  BY <1>1, <1>4, RemainDue
<1> QED BY <1>2, <1>3, <1>4, <1>5

\* The answer is shown: it will do until the timer fires.
LEMMA LandsInv ==
  ASSUME Inv, NEW s \in Slots, Lands(s)
  PROVE Inv'
<1> DEFINE r == request[s]
<1>1. Rest /\ AllSound /\ AllDue /\ OneWanted /\ Sound(r) /\ Due(r)
  BY Parts DEF AllSound, AllDue
<1>2. r.wanted /\ r.pc = "back"  BY <1>1 DEF Lands, Sound
<1>3. question' = question /\ effectDue' = effectDue /\ timer' = timer /\ visible' = visible
      /\ cache' = cache /\ wiped' = wiped /\ grace' = grace
      /\ request' = [request EXCEPT ![s] = Free]
      /\ shown' = [taken |-> r.taken, current |-> r.current, old |-> r.old]
  BY DEF Lands
<1>4. /\ request' \in [Slots -> RequestSet] /\ AllSound' /\ OneWanted' /\ AllDue'
      /\ ~request'[s].wanted /\ \A u \in Slots : u # s => request'[u] = request[u]
  BY <1>3, EndsRequests
<1>5. r.taken \in Age /\ r.taken \in Nat /\ r.current \in BOOLEAN /\ r.age \in Nat
      /\ r.taken <= r.age + Stale /\ r.old \in BOOLEAN
  BY <1>1, SoundRequest DEF Sound, RequestSet
<1>6. shown' \in ShownSet /\ shown' \in [taken : Nat, current : BOOLEAN, old : BOOLEAN]
  BY <1>3, <1>5 DEF ShownSet
<1>7. shown' # None  BY <1>6, LiveStatsAssumption DEF LiveStatsAssumption
<1>8. ~effectDue => r.current /\ (~wiped => ~r.old)  BY <1>1, <1>2 DEF Due
<1>9. ~effectDue' => shown'.current /\ (~wiped' => ~shown'.old)  BY <1>3, <1>8
<1>10. Rest'  BY <1>1, <1>3, <1>6, <1>9, Zenon DEF Rest
<1>11. \A u \in Slots : ~request'[u].wanted  BY <1>1, <1>2, <1>4, Zenon DEF OneWanted
<1>12. visible => shown'.taken <= Interval - timer' + Stale
  <2>1. shown'.taken = r.taken  BY <1>3
  <2>2. visible => timer \in 0 .. Interval /\ timer + r.age <= Interval
    BY <1>1, <1>2 DEF Due
  <2> QED BY <1>3, <1>5, <2>1, <2>2, Numbers
<1>13. visible => FreshResting'  BY <1>7, <1>11, <1>12 DEF FreshResting
<1>14. Up'  BY <1>3, <1>13 DEF Up, Kept
<1> QED BY <1>4, <1>10, <1>14, PartsNext

\* A request fails: there is time until the answer of the next one.
LEMMA FailsInv ==
  ASSUME Inv, NEW s \in Slots, Fails(s)
  PROVE Inv'
<1> DEFINE r == request[s]
<1>1. Rest /\ Due(r) /\ Up  BY Parts DEF AllDue
<1>2. question' = question /\ effectDue' = effectDue /\ timer' = timer /\ visible' = visible
      /\ cache' = cache /\ wiped' = wiped /\ shown' = shown
      /\ request' = [request EXCEPT ![s] = Free]
      /\ grace' = IF r.wanted THEN timer + MaxAnswer + 1 ELSE grace
  BY DEF Fails
<1>3. /\ request' \in [Slots -> RequestSet] /\ AllSound' /\ OneWanted' /\ AllDue'
      /\ AllRemain /\ \A u \in Slots : u # s => request'[u] = request[u]
  BY <1>2, EndsRequests
<1>4. CASE r.wanted
  <2>1. timer \in 0 .. Interval  BY <1>1, <1>4 DEF Due
  <2>2. grace' = timer + MaxAnswer + 1  BY <1>2, <1>4
  <2>3. timer' = timer  BY <1>2
  <2>4. grace' \in Nat /\ grace' > timer' + MaxAnswer  BY <2>1, <2>2, <2>3, Numbers
  <2>5. Rest'  BY <1>1, <1>2, <2>4, Zenon DEF Rest
  <2>6. Up'  BY <2>4 DEF Up, Kept, Spared
  <2> QED BY <1>3, <2>5, <2>6, PartsNext
<1>5. CASE ~r.wanted
  <2>1. grace' = grace  BY <1>2, <1>5
  <2>2. Rest'  BY <1>1, <1>2, <2>1 DEF Rest
  <2>3. \A u \in Slots : request[u].wanted => request'[u].wanted  BY <1>3, <1>5
  <2>4. Up'  BY <1>1, <1>2, <1>3, <2>1, <2>3, RemainUp
  <2> QED BY <1>3, <2>2, <2>4, PartsNext
<1> QED BY <1>4, <1>5

\* An age grows by one, up to the bound.
LEMMA OlderBound ==
  ASSUME NEW x \in Age
  PROVE x \in Nat /\ Older(x) \in Age /\ Older(x) <= x + 1
  BY Numbers DEF Age, Older

\* Tick: what is under way is older by one.
LEMMA TickRequest ==
  ASSUME Inv, Tick, NEW s \in Slots
  PROVE /\ Sound(request'[s]) /\ (request'[s].wanted => request[s].wanted)
        /\ (request[s].wanted => /\ request'[s].wanted /\ request'[s].age = request[s].age + 1
                                 /\ request'[s].current = request[s].current
                                 /\ request'[s].old = request[s].old)
<1> DEFINE r == request[s]
<1>1. Sound(r) /\ r \in RequestSet  BY Parts DEF AllSound, Sound
<1>2. request'[s] = IF r.pc = "free" THEN Free
                    ELSE [r EXCEPT !.age = r.age + 1, !.taken = Older(r.taken)]
  BY DEF Tick
<1>3. CASE r.pc = "free"
  <2>1. ~r.wanted  BY <1>1, <1>3 DEF Sound
  <2> QED BY <1>2, <1>3, <2>1, FreeSound
<1>4. CASE r.pc # "free"
  <2> DEFINE q == [r EXCEPT !.age = r.age + 1, !.taken = Older(r.taken)]
  <2>1. request'[s] = q  BY <1>2, <1>4
  <2>2. q = [pc |-> r.pc, params |-> r.params, wanted |-> r.wanted,
             current |-> r.current, age |-> r.age + 1, taken |-> Older(r.taken), old |-> r.old]
    BY <1>1, WithAge, Zenon
  <2> HIDE DEF q
  <2>3. r.age < MaxAnswer  BY <1>4 DEF Tick
  <2>4. r.age + 1 \in 0 .. MaxAnswer /\ r.age \in Nat
    BY <1>1, <2>3, SoundRequest, Numbers
  <2>5. r.taken \in Nat /\ Older(r.taken) \in Age /\ Older(r.taken) <= r.taken + 1
        /\ Older(r.taken) \in Nat
    BY <1>1, OlderBound DEF RequestSet
  <2>6. q \in RequestSet  BY <1>1, <2>2, <2>4, <2>5 DEF RequestSet
  <2>7. q.pc = r.pc /\ q.params = r.params /\ q.wanted = r.wanted /\ q.current = r.current
        /\ q.age = r.age + 1 /\ q.taken = Older(r.taken) /\ q.old = r.old
    BY <2>2
  <2>8. r.taken <= r.age + Stale /\ (r.pc = "query" => r.taken <= r.age)  BY <1>1 DEF Sound
  <2>9. q.taken <= q.age + Stale /\ (q.pc = "query" => q.taken <= q.age)
    BY <2>4, <2>5, <2>7, <2>8, Numbers
  <2>10. (q.pc = "back" => q.wanted) /\ (q.pc # "free" => q.params \in Params)
         /\ (q.old => q.pc = "back")
    BY <1>1, <2>7 DEF Sound
  <2>11. Sound(q)  BY <1>4, <2>6, <2>7, <2>9, <2>10 DEF Sound
  <2> QED BY <2>1, <2>7, <2>11
<1> QED BY <1>3, <1>4

\* Tick: so is what is cached, while it does not expire.
LEMMA TickCache ==
  ASSUME Inv, Tick
  PROVE /\ cache' \in [Params -> {None} \cup EntrySet]
        /\ \A p \in Params : Entry(cache'[p])
<1>1. ASSUME NEW p \in Params
      PROVE /\ cache'[p] \in {None} \cup EntrySet
            /\ Entry(cache'[p])
  <2> DEFINE c == cache[p]
             d == [c EXCEPT !.age = c.age + 1, !.taken = Older(c.taken)]
  <2>1. cache'[p] = IF c = None \/ Expired(c.age + 1) THEN None ELSE d  BY DEF Tick
  <2>2. CASE c = None \/ Expired(c.age + 1)  BY <2>1, <2>2 DEF Entry
  <2>3. CASE c # None /\ ~Expired(c.age + 1)
    <3>1. c.age \in 0 .. TTL - 1 /\ c.taken \in Nat /\ c.taken <= c.age + MaxAnswer
          /\ c.taken <= Stale /\ c.old = FALSE /\ c \in EntrySet
      BY <2>3, Cached, Parts DEF Rest
    <3>2. c.age + 1 \in 0 .. TTL - 1  BY <2>3, <3>1, Numbers DEF Expired
    <3>3. c.taken \in Age  BY <3>1, Numbers DEF Age
    <3>4. Older(c.taken) \in Nat /\ Older(c.taken) <= c.taken + 1
      BY <3>3, OlderBound DEF Age
    <3>5. Older(c.taken) <= c.age + 1 + MaxAnswer
          /\ Older(c.taken) \in 0 .. MaxAnswer + TTL - 1
      BY <3>1, <3>2, <3>4, Numbers
    <3>6. d = [age |-> c.age + 1, taken |-> Older(c.taken), old |-> c.old]
      BY <3>1, EntryAged, Zenon
    <3> HIDE DEF d
    <3>7. d \in EntrySet /\ Entry(d)
      BY <3>1, <3>2, <3>5, <3>6 DEF Entry, EntrySet
    <3> QED BY <2>1, <2>3, <3>7
  <2> QED BY <2>2, <2>3
<1>2. cache' = [p \in Params |-> cache'[p]]  BY DEF Tick
<1> QED BY <1>1, <1>2

\* Tick: the timer and the time that is spared run down as what is shown ages.
LEMMA TickUp ==
  ASSUME Inv, Tick, timer \in 0 .. Interval
  PROVE Up'
<1>1. Rest /\ AllSound /\ AllDue /\ Up /\ grace \in Nat  BY Parts DEF Rest
<1>2. timer # 0 /\ timer' = timer - 1 /\ visible' = visible /\ ~effectDue
      /\ grace' = (IF grace = 0 THEN 0 ELSE grace - 1)
      /\ shown' = (IF shown = None THEN None ELSE [shown EXCEPT !.taken = Older(@)])
  <2>1. timer' = (IF timer = None THEN None ELSE timer - 1)  BY Zenon DEF Tick
  <2>2. timer # None  BY Numbers
  <2>3. timer # 0 /\ visible' = visible /\ ~effectDue  BY Zenon DEF Tick
  <2>4. grace' = (IF grace = 0 THEN 0 ELSE grace - 1)  BY Zenon DEF Tick, Less
  <2>5. shown' = (IF shown = None THEN None ELSE [shown EXCEPT !.taken = Older(@)])
    BY Zenon DEF Tick
  <2> QED BY <2>1, <2>2, <2>3, <2>4, <2>5
<1> SUFFICES ASSUME visible' PROVE Kept'  BY DEF Up
<1>3. Kept  BY <1>1, <1>2, Numbers DEF Up
<1>4. shown # None => /\ shown' # None /\ shown'.taken <= shown.taken + 1
                      /\ shown'.taken \in Nat /\ shown.taken \in Nat
  <2> SUFFICES ASSUME shown # None
               PROVE /\ shown' # None /\ shown'.taken <= shown.taken + 1
                     /\ shown'.taken \in Nat /\ shown.taken \in Nat
    OBVIOUS
  <2>1. shown \in ShownSet  BY <1>1 DEF Rest
  <2>2. shown' = [shown EXCEPT !.taken = Older(shown.taken)]  BY <1>2
  <2>3. Older(shown.taken) \in Age /\ Older(shown.taken) <= shown.taken + 1
        /\ shown.taken \in Nat /\ Older(shown.taken) \in Nat
    BY <2>1, OlderBound DEF Age, ShownSet
  <2>4. shown' \in [taken : Nat, current : BOOLEAN, old : BOOLEAN]
        /\ shown'.taken = Older(shown.taken)
    BY <2>1, <2>2, <2>3 DEF ShownSet
  <2> QED BY <2>3, <2>4, LiveStatsAssumption DEF LiveStatsAssumption
<1>5. CASE FreshResting
  <2>1. \A s \in Slots : ~request'[s].wanted  BY <1>5, TickRequest DEF FreshResting
  <2>2. shown # None /\ shown.taken <= Interval - timer + Stale  BY <1>5 DEF FreshResting
  <2>3. shown'.taken <= Interval - timer' + Stale
    BY <1>2, <1>4, <2>2, Numbers
  <2> QED BY <1>4, <2>1, <2>2, <2>3 DEF FreshResting, Kept
<1>6. CASE Spared
  <2>1. grace > timer + MaxAnswer  BY <1>6 DEF Spared
  <2>2. grace' > timer' + MaxAnswer  BY <1>1, <1>2, <2>1, Numbers
  <2> QED BY <2>2 DEF Spared, Kept
<1>7. ASSUME NEW s \in Slots, FreshAwaiting(request[s]) \/ Awaited(request[s])
      PROVE Kept'
  <2> DEFINE r == request[s]
             q == request'[s]
  <2>1. r.wanted  BY <1>7 DEF FreshAwaiting, Awaited
  <2>2. q.wanted /\ q.age = r.age + 1 /\ r.age \in Nat
    BY <1>1, <2>1, TickRequest, SoundRequest DEF AllSound
  <2>3. timer + r.age > MaxAnswer  BY <1>7 DEF FreshAwaiting, Awaited
  <2>4. timer' + q.age > MaxAnswer  BY <1>2, <2>2, <2>3, Numbers
  <2>5. CASE FreshAwaiting(r)
    <3>1. shown # None /\ shown.taken <= Interval + r.age + Stale  BY <2>5 DEF FreshAwaiting
    <3>2. shown'.taken <= Interval + q.age + Stale  BY <1>4, <2>2, <3>1, Numbers
    <3>3. FreshAwaiting(request[s])'  BY <1>4, <2>2, <2>4, <3>1, <3>2 DEF FreshAwaiting
    <3> QED BY <3>3 DEF Kept
  <2>6. CASE Awaited(r)
    <3>1. grace + r.age > MaxAnswer  BY <2>6 DEF Awaited
    <3>2. grace' + q.age > MaxAnswer  BY <1>1, <1>2, <2>2, <3>1, Numbers
    <3>3. Awaited(request[s])'  BY <2>2, <2>4, <3>2 DEF Awaited
    <3> QED BY <3>3 DEF Kept
  <2> QED BY <1>7, <2>5, <2>6
<1> QED BY <1>3, <1>5, <1>6, <1>7 DEF Kept

\* Tick.
LEMMA TickInv ==
  ASSUME Inv, Tick
  PROVE Inv'
<1>1. Rest /\ AllSound /\ AllDue /\ OneWanted  BY Parts
<1>2. question' = question /\ effectDue' = effectDue /\ visible' = visible /\ wiped' = wiped
      /\ timer # 0 /\ timer' = (IF timer = None THEN None ELSE timer - 1)
      /\ shown' = (IF shown = None THEN None ELSE [shown EXCEPT !.taken = Older(@)])
      /\ grace' = (IF grace = 0 THEN 0 ELSE grace - 1)
  BY DEF Tick, Less
<1>3. timer' \in {None} \cup 0 .. Interval /\ grace' \in Nat
  BY <1>1, <1>2, Numbers DEF Rest
<1>4. /\ shown' \in {None} \cup ShownSet
      /\ ~effectDue' /\ shown' # None => shown'.current /\ (~wiped' => ~shown'.old)
  <2>1. CASE shown = None  BY <1>2, <2>1
  <2>2. CASE shown # None
    <3>1. shown \in ShownSet  BY <1>1, <2>2 DEF Rest
    <3>2. shown' = [shown EXCEPT !.taken = Older(shown.taken)]  BY <1>2, <2>2
    <3>3. Older(shown.taken) \in Age  BY <3>1, OlderBound DEF ShownSet
    <3>4. shown' \in ShownSet /\ shown'.current = shown.current /\ shown'.old = shown.old
      BY <3>1, <3>2, <3>3 DEF ShownSet
    <3> QED BY <1>1, <1>2, <2>2, <3>4 DEF Rest
  <2> QED BY <2>1, <2>2
<1>5. Rest'
  BY <1>1, <1>2, <1>3, <1>4, TickCache, Zenon DEF Rest
<1>6. AllSound'  BY TickRequest DEF AllSound
<1>7. request' \in [Slots -> RequestSet]
  <2>1. request' = [s \in Slots |-> request'[s]]  BY DEF Tick
  <2> QED BY <1>6, <2>1 DEF AllSound, Sound
<1>8. OneWanted'  BY <1>1, TickRequest DEF OneWanted
<1>9. ASSUME NEW s \in Slots
      PROVE Due(request[s])'
  <2>1. CASE ~request'[s].wanted  BY <2>1 DEF Due
  <2>2. CASE request'[s].wanted
    <3> DEFINE r == request[s]
    <3>1. r.wanted /\ request'[s].age = r.age + 1 /\ request'[s].current = r.current
          /\ request'[s].old = r.old
      BY <2>2, TickRequest
    <3>2. /\ timer \in 0 .. Interval /\ (~effectDue => r.current /\ (~wiped => ~r.old))
          /\ (visible => timer + r.age <= Interval)
      BY <1>1, <3>1 DEF AllDue, Due
    <3>3. r.age \in Nat  BY <1>1, SoundRequest DEF AllSound
    <3>4. timer' = timer - 1  BY <1>2, <3>2, Numbers
    <3>5. timer' \in 0 .. Interval  BY <1>2, <3>2, <3>4, Numbers
    <3>6. visible' => timer' + request'[s].age <= Interval
      BY <1>2, <3>1, <3>2, <3>3, <3>4, Numbers
    <3>7. ~effectDue' => request'[s].current /\ (~wiped' => ~request'[s].old)
      BY <1>2, <3>1, <3>2
    <3> QED BY <3>5, <3>6, <3>7, Zenon DEF Due
  <2> QED BY <2>1, <2>2
<1>10. AllDue'  BY <1>9 DEF AllDue
<1>11. Up'
  <2>1. CASE timer = None  BY <1>2, <2>1 DEF Up
  <2>2. CASE timer # None
    <3>1. timer \in 0 .. Interval  BY <1>1, <2>2 DEF Rest
    <3> QED BY <3>1, TickUp
  <2> QED BY <2>1, <2>2
<1> QED BY <1>5, <1>6, <1>7, <1>8, <1>10, <1>11, PartsNext

-----------------------------------------------------------------------------
(* The theorems.                                                           *)

\* The initial states: the effect is due.
LEMMA InitInv == Init => Inv
<1> SUFFICES ASSUME Init PROVE Inv  OBVIOUS
<1>1. question \in Question /\ effectDue = TRUE /\ timer = None /\ visible \in BOOLEAN
      /\ shown = None /\ cache = [p \in Params |-> None] /\ wiped = FALSE /\ grace = 0
  BY DEF Init
<1>2. request = [s \in Slots |-> Free]  BY DEF Init
<1>3. Rest  BY <1>1 DEF Rest, Entry
<1>4. AllSound /\ AllDue /\ OneWanted
  BY <1>2, FreeSound DEF AllSound, AllDue, OneWanted, Due
<1>5. request \in [Slots -> RequestSet]  BY <1>2, FreeSound
<1>6. Up  BY <1>1 DEF Up
<1> QED BY <1>3, <1>4, <1>5, <1>6, Parts

\* The invariant is inductive.
LEMMA NextInv == Inv /\ [Next]_vars => Inv'
<1> SUFFICES ASSUME Inv, [Next]_vars PROVE Inv'  OBVIOUS
<1>1. CASE Effect  BY <1>1, EffectInv
<1>2. CASE TimerFires  BY <1>2, TimerInv
<1>3. CASE Hides  BY <1>3, HidesInv
<1>4. CASE Shows  BY <1>4, ShowsInv
<1>5. CASE Chooses  BY <1>5, RendersInv
<1>6. CASE OtherAsks  BY <1>6, OtherAsksInv
<1>7. CASE Wipes  BY <1>7, WipesInv
<1>8. CASE HearsOfWipe  BY <1>8, RendersInv
<1>9. CASE Tick  BY <1>9, TickInv
<1>10. ASSUME NEW s \in Slots, Lands(s) PROVE Inv'  BY <1>10, LandsInv
<1>11. ASSUME NEW s \in Slots, Fails(s) PROVE Inv'  BY <1>11, FailsInv
<1>12. ASSUME NEW s \in Slots, Served(s) PROVE Inv'  BY <1>12, ServedInv
<1>13. ASSUME NEW s \in Slots, Queries(s) PROVE Inv'  BY <1>13, QueriesInv
<1>14. ASSUME NEW s \in Slots, Answers(s) PROVE Inv'  BY <1>14, AnswersInv
<1>15. CASE UNCHANGED vars
  BY <1>15 DEF vars, Inv, TypeOK, OneWanted, Sound, Due, Entry, Kept, FreshResting, Spared,
               FreshAwaiting, Awaited
<1> QED BY <1>1, <1>2, <1>3, <1>4, <1>5, <1>6, <1>7, <1>8, <1>9, <1>10, <1>11, <1>12,
           <1>13, <1>14, <1>15 DEF Next

\* Inv holds always.
LEMMA InvHolds == Spec => []Inv
<1> QED BY InitInv, NextInv, PTL DEF Spec

\* Every state has the types of TypeOK, which bound the age of what is cached.
THEOREM TypeCorrect == Spec => []TypeOK
<1>1. Inv => TypeOK  BY DEF Inv
<1> QED BY <1>1, InvHolds, PTL

\* What a panel shows answers what it is asked, with no answer that was there at a wipe it
\* was told of, and it awaits one answer.
THEOREM ShowsTheAnswer == Spec => []AnswersQuestion
<1>1. Inv => AnswersQuestion  BY DEF Inv, OneWanted, AnswersQuestion
<1> QED BY <1>1, InvHolds, PTL

\* A panel that is visible is never older than an interval, the cache's time and two
\* queries.
THEOREM StaysUpToDate == Spec => []UpToDate
<1>1. Inv => UpToDate
  <2> SUFFICES ASSUME Inv, visible, timer # None, ~effectDue, grace = 0
               PROVE shown # None /\ shown.taken <= MaxAge
    BY DEF UpToDate
  <2>1. Rest /\ AllSound /\ Kept  BY Parts DEF Up
  <2>2. timer \in 0 .. Interval  BY <2>1 DEF Rest
  <2>3. CASE FreshResting
    <3>1. shown # None /\ shown.taken <= Interval - timer + Stale  BY <2>3 DEF FreshResting
    <3>2. shown.taken \in Nat  BY <2>1, <3>1 DEF Rest, Age, ShownSet
    <3> QED BY <2>2, <3>1, <3>2, Numbers
  <2>4. CASE Spared  BY <2>2, <2>4, Numbers DEF Spared
  <2>5. ASSUME NEW s \in Slots, FreshAwaiting(request[s])
        PROVE shown # None /\ shown.taken <= MaxAge
    <3>1. shown # None /\ shown.taken <= Interval + request[s].age + Stale
      BY <2>5 DEF FreshAwaiting
    <3>2. request[s].age \in Nat /\ request[s].age <= MaxAnswer
      BY <2>1, SoundRequest DEF AllSound
    <3>3. shown.taken \in Nat  BY <2>1, <3>1 DEF Rest, Age, ShownSet
    <3> QED BY <3>1, <3>2, <3>3, Numbers
  <2>6. ASSUME NEW s \in Slots, Awaited(request[s])
        PROVE FALSE
    <3>1. request[s].age \in Nat /\ request[s].age <= MaxAnswer
      BY <2>1, SoundRequest DEF AllSound
    <3>2. grace + request[s].age > MaxAnswer  BY <2>6 DEF Awaited
    <3> QED BY <3>1, <3>2, Numbers
  <2> QED BY <2>1, <2>3, <2>4, <2>5, <2>6 DEF Kept
<1> QED BY <1>1, InvHolds, PTL
=============================================================================
