------------------------------ MODULE FeedProofs ------------------------------
(***************************************************************************)
(* Theorems about Feed for every value of its constants.                   *)
(***************************************************************************)
EXTENDS Feed, FiniteSetTheorems, TLAPS

-----------------------------------------------------------------------------
(* Sequences of numbers.                                                   *)

(* A nonempty set of natural numbers has a least element.                  *)
LEMMA LeastElement ==
  ASSUME NEW T, T \subseteq Nat, T # {}
  PROVE  \E x \in T : \A y \in T : x <= y
<1>1. PICK x \in T : \A y \in T : <<y, x>> \notin OpToRel(<, Nat)
  BY NatLessThanWellFounded, WFMin
<1>2. \A y \in T : ~ (y < x)  BY <1>1 DEF OpToRel
<1> QED  BY <1>2

\* s lists the set S in order.
Lists(s, S) == /\ s \in [1 .. Cardinality(S) -> S]
               /\ \A i, j \in DOMAIN s : i < j => s[i] < s[j]

(* Every finite set of numbers can be listed: a smallest one that cannot   *)
(* would be listed by its least element and a list of the others.          *)
LEMMA ListExists ==
  ASSUME NEW S0, S0 \subseteq Nat, IsFiniteSet(S0)
  PROVE  \E s : Lists(s, S0)
<1> DEFINE Bad(S) == S \subseteq Nat /\ IsFiniteSet(S) /\ \A s : ~Lists(s, S)
           T == {n \in Nat : \E S \in SUBSET Nat : Bad(S) /\ Cardinality(S) = n}
<1> SUFFICES ASSUME Bad(S0) PROVE FALSE  OBVIOUS
<1>1. T # {} /\ T \subseteq Nat  BY FS_CardinalityType
<1>2. PICK n \in T : \A m \in T : n <= m
  <2> HIDE DEF T
  <2> QED  BY <1>1, LeastElement
<1>3. PICK S \in SUBSET Nat : Bad(S) /\ Cardinality(S) = n  BY <1>2
<1>4. CASE S = {}
  <2>1. Cardinality(S) = 0  BY <1>4, FS_EmptySet
  <2>2. 1 .. 0 = {}  OBVIOUS
  <2>3. Lists([i \in 1 .. 0 |-> i], S)  BY <1>4, <2>1, <2>2 DEF Lists
  <2> QED  BY <1>3, <2>3
<1>5. CASE S # {}
  <2>1. PICK m \in S : \A y \in S : m <= y  BY <1>5, LeastElement
  <2>2. IsFiniteSet(S \ {m}) /\ Cardinality(S \ {m}) = n - 1  BY <1>3, FS_RemoveElement
  <2>3. n - 1 \in Nat  BY <2>2, FS_CardinalityType
  <2>4. ~Bad(S \ {m})
    <3>1. n - 1 \notin T  BY <1>2, <2>3
    <3> QED  BY <2>2, <2>3, <3>1
  <2>5. PICK s : Lists(s, S \ {m})  BY <2>2, <2>4
  <2> DEFINE t == [i \in 1 .. n |-> IF i = 1 THEN m ELSE s[i - 1]]
  <2>6. s \in [1 .. n - 1 -> S \ {m}] /\ \A i, j \in 1 .. n - 1 : i < j => s[i] < s[j]
    BY <2>2, <2>5 DEF Lists
  <2>7. \A i \in 1 .. n : i # 1 => i - 1 \in 1 .. n - 1  BY <2>3
  <2>8. \A i \in 1 .. n : t[i] \in S  BY <2>6, <2>7
  <2>9. t \in [1 .. n -> S]  BY <2>8
  <2>10. ASSUME NEW i \in 1 .. n, NEW j \in 1 .. n, i < j  PROVE t[i] < t[j]
    <3>1. j # 1 /\ j - 1 \in 1 .. n - 1 /\ t[j] = s[j - 1]  BY <2>3, <2>10
    <3>2. s[j - 1] \in S \ {m}  BY <2>6, <3>1
    <3>3. CASE i = 1
      <4>1. t[i] = m /\ m \in Nat /\ s[j - 1] \in Nat  BY <3>2, <3>3
      <4>2. m <= s[j - 1] /\ m # s[j - 1]  BY <2>1, <3>2
      <4> QED  BY <3>1, <4>1, <4>2
    <3>4. CASE i # 1
      <4>1. i - 1 \in 1 .. n - 1 /\ t[i] = s[i - 1] /\ i - 1 < j - 1  BY <2>7, <2>10, <3>4
      <4> QED  BY <2>6, <3>1, <4>1
    <3> QED  BY <3>3, <3>4
  <2>11. Lists(t, S)
    <3> HIDE DEF t
    <3> QED  BY <1>3, <2>9, <2>10 DEF Lists
  <2> QED  BY <1>3, <2>11
<1> QED  BY <1>4, <1>5

(* What InOrder returns: the elements of the set, each once, in order.     *)
LEMMA InOrderLists ==
  ASSUME NEW S, S \subseteq Nat, IsFiniteSet(S)
  PROVE  /\ InOrder(S) \in Seq(S) /\ Len(InOrder(S)) = Cardinality(S)
         /\ DOMAIN InOrder(S) = 1 .. Cardinality(S) /\ Cardinality(S) \in Nat
         /\ \A i, j \in 1 .. Cardinality(S) : i < j => InOrder(S)[i] < InOrder(S)[j]
         /\ ToSet(InOrder(S)) = S
<1> DEFINE n == Cardinality(S)
           s == InOrder(S)
<1>1. n \in Nat /\ IsFiniteSet(1 .. n) /\ Cardinality(1 .. n) = n
  BY FS_CardinalityType, FS_Interval
<1>2. \E t \in [1 .. n -> S] : \A i, j \in DOMAIN t : i < j => t[i] < t[j]
  BY ListExists DEF Lists
<1>3. s \in [1 .. n -> S] /\ \A i, j \in DOMAIN s : i < j => s[i] < s[j]
  <2> HIDE DEF n
  <2> QED  BY <1>2 DEF InOrder, n
<1> HIDE DEF s
<1>4. \A i, j \in 1 .. n : i < j => s[i] < s[j]  BY <1>3
<1>5. s \in Seq(S) /\ Len(s) = n  BY <1>1, <1>3
<1>6. s \in Injection(1 .. n, S)
  <2>1. \A i, j \in 1 .. n : s[i] = s[j] => i = j
    <3> SUFFICES ASSUME NEW i \in 1 .. n, NEW j \in 1 .. n, s[i] = s[j] PROVE i = j  OBVIOUS
    <3>1. ~ (i < j) /\ ~ (j < i)  
      <4>1. s[i] \in Nat /\ s[j] \in Nat  BY <1>3
      <4> QED  BY <1>4, <4>1
    <3> QED  BY <1>1, <3>1
  <2> QED  BY <1>3, <2>1 DEF Injection, IsInjective
<1>7. s \in Surjection(1 .. n, S)  BY <1>1, <1>6, FS_Injection
<1>8. ToSet(s) = S  BY <1>3, <1>7 DEF Surjection, ToSet
<1> QED  BY <1>1, <1>3, <1>4, <1>5, <1>8 DEF s

(* The elements of a sequence at some of its positions.                    *)
LEMMA AtKeeps ==
  ASSUME NEW S, NEW s \in Seq(S), NEW I, I \subseteq DOMAIN s
  PROVE  At(s, I) \in Seq(S) /\ ToSet(At(s, I)) = {s[i] : i \in I}
<1> DEFINE p == InOrder(I)
<1>1. DOMAIN s = 1 .. Len(s) /\ Len(s) \in Nat  OBVIOUS
<1>2. IsFiniteSet(I) /\ I \subseteq Nat
  <2>1. IsFiniteSet(1 .. Len(s))  BY <1>1, FS_Interval
  <2>2. IsFiniteSet(I)  BY <1>1, <2>1, FS_Subset
  <2> QED  BY <1>1, <2>2
<1>3. /\ p \in Seq(I) /\ DOMAIN p = 1 .. Len(p) /\ Len(p) \in Nat
      /\ ToSet(p) = I
  BY <1>2, InOrderLists
<1> HIDE DEF p
<1>4. \A k \in 1 .. Len(p) : p[k] \in I /\ s[p[k]] \in S  BY <1>3
<1>5. At(s, I) = [k \in 1 .. Len(p) |-> s[p[k]]]  BY <1>3 DEF At, p
<1>6. At(s, I) \in Seq(S) /\ DOMAIN At(s, I) = 1 .. Len(p)  BY <1>3, <1>4, <1>5
<1>7. ToSet(At(s, I)) = {s[p[k]] : k \in 1 .. Len(p)}  BY <1>5 DEF ToSet
<1>8. {s[p[k]] : k \in 1 .. Len(p)} = {s[i] : i \in I}  BY <1>3 DEF ToSet
<1> QED  BY <1>6, <1>7, <1>8

(* slice(-n) and slice(0, n) of a list.                                    *)
LEMMA NewestOf ==
  ASSUME NEW S, NEW s \in Seq(S), NEW n \in Nat \ {0}
  PROVE  /\ Newest(s, n) \in Seq(S)
         /\ Len(Newest(s, n)) = IF Len(s) > n THEN n ELSE Len(s)
         /\ \A i \in 1 .. Len(Newest(s, n)) :
              /\ Newest(s, n)[i] = s[i + (Len(s) - Len(Newest(s, n)))]
              /\ i + (Len(s) - Len(Newest(s, n))) \in 1 .. Len(s)
         /\ ToSet(Newest(s, n)) \subseteq ToSet(s)
<1> DEFINE m == IF Len(s) > n THEN Len(s) - n + 1 ELSE 1
           t == SubSeq(s, m, Len(s))
<1>1. Newest(s, n) = t  BY DEF Newest
<1>2. Len(s) \in Nat /\ DOMAIN s = 1 .. Len(s) /\ n \in Nat /\ n > 0  OBVIOUS
<1>3. /\ m \in 1 .. Len(s) + 1
      /\ Len(s) - m + 1 = IF Len(s) > n THEN n ELSE Len(s)
  <2>1. CASE Len(s) > n  BY <1>2, <2>1
  <2>2. CASE ~(Len(s) > n)  BY <1>2, <2>2
  <2> QED  BY <2>1, <2>2
<1> HIDE DEF m
<1>4. t \in Seq(S) /\ Len(t) = Len(s) - m + 1  BY <1>2, <1>3
<1>5. \A i \in 1 .. Len(t) : t[i] = s[m + i - 1] /\ m + i - 1 \in 1 .. Len(s)
  BY <1>2, <1>3, <1>4
<1>6. \A i \in 1 .. Len(t) : i + (Len(s) - Len(t)) = m + i - 1  BY <1>2, <1>3, <1>4
<1> HIDE DEF t
<1>7. DOMAIN t = 1 .. Len(t)  BY <1>4
<1>8. ToSet(t) \subseteq ToSet(s)  BY <1>2, <1>5, <1>7 DEF ToSet
<1>9. Len(t) = IF Len(s) > n THEN n ELSE Len(s)  BY <1>3, <1>4
<1>10. \A i \in 1 .. Len(t) : /\ t[i] = s[i + (Len(s) - Len(t))]
                             /\ i + (Len(s) - Len(t)) \in 1 .. Len(s)
  BY <1>5, <1>6
<1> QED  BY <1>1, <1>4, <1>8, <1>9, <1>10

\* The first n of a list.
LEMMA OldestOf ==
  ASSUME NEW S, NEW s \in Seq(S), NEW n \in Nat \ {0}
  PROVE  /\ Oldest(s, n) \in Seq(S)
         /\ Len(Oldest(s, n)) = IF Len(s) > n THEN n ELSE Len(s)
         /\ \A i \in 1 .. Len(Oldest(s, n)) : Oldest(s, n)[i] = s[i] /\ i \in 1 .. Len(s)
<1> DEFINE m == IF Len(s) > n THEN n ELSE Len(s)
           t == SubSeq(s, 1, m)
<1>1. Len(s) \in Nat /\ m \in 0 .. Len(s)  OBVIOUS
<1>2. t \in Seq(S) /\ Len(t) = m /\ Oldest(s, n) = t  BY <1>1 DEF Oldest
<1>3. \A i \in 1 .. Len(t) : t[i] = s[i] /\ i \in 1 .. Len(s)  BY <1>1, <1>2
<1> QED  BY <1>2, <1>3

(* A full buffer forgets its oldest message for the newest.                *)
LEMMA PushKeeps ==
  ASSUME NEW S, NEW s \in Seq(S), NEW x \in S
  PROVE  /\ Push(s, x) \in Seq(S)
         /\ x \in ToSet(Push(s, x)) /\ ToSet(Push(s, x)) \subseteq ToSet(s) \cup {x}
<1> DEFINE t == Append(s, x)
           u == Newest(t, MaxBuffer)
<1>1. t \in Seq(S) /\ Len(t) = Len(s) + 1 /\ Len(s) \in Nat /\ DOMAIN t = 1 .. Len(s) + 1
  OBVIOUS
<1>2. t[Len(t)] = x /\ \A i \in 1 .. Len(s) : t[i] = s[i]  OBVIOUS
<1>3. ToSet(t) = ToSet(s) \cup {x}
  <2>1. DOMAIN s = 1 .. Len(s) /\ 1 .. Len(s) + 1 = (1 .. Len(s)) \cup {Len(s) + 1}
    BY <1>1
  <2> QED  BY <1>1, <1>2, <2>1 DEF ToSet
<1> HIDE DEF t
<1>4. MaxBuffer \in Nat \ {0}  BY FeedAssumption
<1>5. /\ u \in Seq(S) /\ Len(u) = IF Len(t) > MaxBuffer THEN MaxBuffer ELSE Len(t)
      /\ \A i \in 1 .. Len(u) : u[i] = t[i + (Len(t) - Len(u))]
      /\ ToSet(u) \subseteq ToSet(t)
  BY <1>1, <1>4, NewestOf
<1> HIDE DEF u
<1>6. Len(u) \in 1 .. Len(t) /\ DOMAIN u = 1 .. Len(u)  BY <1>1, <1>4, <1>5
<1>7. u[Len(u)] = t[Len(t)]
  <2>1. Len(u) + (Len(t) - Len(u)) = Len(t) /\ Len(u) \in 1 .. Len(u)  BY <1>1, <1>6
  <2> QED  BY <1>5, <2>1
<1>8. x \in ToSet(u)
  <2>1. Len(u) \in DOMAIN u  BY <1>6
  <2> QED  BY <1>2, <1>7, <2>1 DEF ToSet
<1> QED  BY <1>3, <1>5, <1>8 DEF Push, t, u

(* Map.set and Map.delete: the keys of a map, which its order lists.       *)
LEMMA WithKeeps ==
  ASSUME NEW S, NEW s \in Seq(S), NEW t \in Seq(S)
  PROVE  With(s, t) \in Seq(S) /\ ToSet(With(s, t)) \subseteq ToSet(s) \cup ToSet(t)
<1> DEFINE I == {i \in DOMAIN t : ~Contains(s, t[i]) /\ \A j \in 1 .. i - 1 : t[j] # t[i]}
           u == At(t, I)
<1>1. u \in Seq(S) /\ ToSet(u) = {t[i] : i \in I}  BY AtKeeps
<1>2. ToSet(u) \subseteq ToSet(t)  BY <1>1 DEF ToSet
<1>3. With(s, t) = s \o u  BY DEF With
<1> HIDE DEF u
<1>4. ASSUME NEW i \in 1 .. Len(s) + Len(u)  PROVE (s \o u)[i] \in ToSet(s) \cup ToSet(u)
  <2>1. Len(s) \in Nat /\ Len(u) \in Nat /\ DOMAIN s = 1 .. Len(s) /\ DOMAIN u = 1 .. Len(u)
    BY <1>1
  <2>2. CASE i <= Len(s)
    <3>1. (s \o u)[i] = s[i] /\ i \in 1 .. Len(s)  BY <1>1, <2>1, <2>2
    <3> QED  BY <2>1, <3>1 DEF ToSet
  <2>3. CASE i > Len(s)
    <3>1. (s \o u)[i] = u[i - Len(s)] /\ i - Len(s) \in 1 .. Len(u)  BY <1>1, <2>1, <2>3
    <3> QED  BY <2>1, <3>1 DEF ToSet
  <2> QED  BY <2>1, <2>2, <2>3
<1>5. s \o u \in Seq(S) /\ DOMAIN (s \o u) = 1 .. Len(s) + Len(u)  BY <1>1
<1> QED  BY <1>2, <1>3, <1>4, <1>5 DEF ToSet

\* What is left of a map when some keys are deleted.
LEMMA WithoutKeeps ==
  ASSUME NEW S, NEW s \in Seq(S), NEW G
  PROVE  Without(s, G) \in Seq(S) /\ ToSet(Without(s, G)) = ToSet(s) \ G
<1> DEFINE I == {i \in DOMAIN s : s[i] \notin G}
<1>1. At(s, I) \in Seq(S) /\ ToSet(At(s, I)) = {s[i] : i \in I}  BY AtKeeps
<1>2. {s[i] : i \in I} = ToSet(s) \ G  BY DEF ToSet
<1> QED  BY <1>1, <1>2 DEF Without

(* The map of requests in flight after a flush: what was told to start and *)
(* not to end.                                                             *)
LEMMA AfterFlushKeeps ==
  ASSUME {adds, pending} \subseteq Seq(Ids)
  PROVE  /\ AfterFlush \in Seq(Ids)
         /\ ToSet(AfterFlush) \subseteq (ToSet(pending) \cup ToSet(adds)) \ ToSet(removes)
<1> DEFINE s == With(pending, adds)
           t == Without(s, ToSet(removes))
           u == Without(t, aged)
<1>1. s \in Seq(Ids) /\ ToSet(s) \subseteq ToSet(pending) \cup ToSet(adds)  BY WithKeeps
<1> HIDE DEF s
<1>2. t \in Seq(Ids) /\ ToSet(t) = ToSet(s) \ ToSet(removes)  BY <1>1, WithoutKeeps
<1> HIDE DEF t
<1>3. u \in Seq(Ids) /\ ToSet(u) = ToSet(t) \ aged  BY <1>2, WithoutKeeps
<1> HIDE DEF u
<1>4. MaxPending \in Nat \ {0}  BY FeedAssumption
<1>5. Newest(u, MaxPending) \in Seq(Ids) /\ ToSet(Newest(u, MaxPending)) \subseteq ToSet(u)
  BY <1>3, <1>4, NewestOf
<1> QED  BY <1>1, <1>2, <1>3, <1>5 DEF AfterFlush, Prune, s, t, u

-----------------------------------------------------------------------------
(* Types.                                                                  *)

\* A sequence over a set is one over a larger set.
LEMMA SeqWiden == ASSUME NEW S, NEW T, S \subseteq T, NEW s \in Seq(S)  PROVE s \in Seq(T)
<1>1. Len(s) \in Nat /\ s \in [1 .. Len(s) -> T]  OBVIOUS
<1> QED  BY <1>1

(* A comparison is true or false.                                          *)
LEMMA Compared == ASSUME NEW a \in Int, NEW b \in Int  PROVE (a >= b) \in BOOLEAN
<1> QED  OBVIOUS

(* The rows of a page: stored rows in order, no more than fit.             *)
LEMMA PageOfType ==
  ASSUME rows \subseteq Ids, NEW f, NEW c
  PROVE  PageOf(f, c) \in Seq(Ids)
<1> DEFINE S == {r \in rows : Matches(r, f) /\ (c # 0 => r < c)}
<1>1. S \subseteq Nat /\ S \subseteq Ids /\ IsFiniteSet(S)
  <2>1. Requests \in Nat  BY FeedAssumption
  <2>2. IsFiniteSet(Ids) /\ Ids \subseteq Nat  BY <2>1, FS_Interval DEF Ids
  <2> QED  BY <2>2, FS_Subset
<1> HIDE DEF S
<1>2. InOrder(S) \in Seq(Ids)
  <2>1. InOrder(S) \in Seq(S)  BY <1>1, InOrderLists
  <2> QED  BY <1>1, <2>1, SeqWiden
<1>3. PageSize \in Nat \ {0}  BY FeedAssumption
<1>4. Newest(InOrder(S), PageSize) \in Seq(Ids)  BY <1>2, <1>3, NewestOf
<1> QED  BY <1>4 DEF PageOf, S

(* A fetch asks for a filter that has a query.                             *)
LEMMA FetchTyped ==
  ASSUME scenario \in Scenarios, NEW f \in scenario.filters, NEW c \in 0 .. Requests
  PROVE  Fetch(f, c) \in FetchType /\ NoFetch \in FetchType
<1>1. "all" \in scenario.filters  BY FeedAssumption
<1>2. Params(f) \in scenario.filters \ {"pendingOnly"}  BY <1>1 DEF Params
<1>3. Requests \in Nat  BY FeedAssumption
<1> QED  BY <1>1, <1>2, <1>3 DEF FetchType, Fetch, NoFetch

(* What an executed query brings.                                          *)
LEMMA AnswersAre ==
  ASSUME NEW q \in FetchType, NEW a \in Answers(q)
  PROVE  /\ a.pc = "answered" /\ a.filter = q.filter /\ a.cursor = q.cursor
         /\ a.outdated = q.outdated
         /\ \/ a.ok = TRUE /\ a.rows = PageOf(q.filter, q.cursor)
            \/ a.ok = q.ok /\ a.rows = q.rows
<1>1. \/ a = [q EXCEPT !.pc = "answered", !.ok = TRUE, !.rows = PageOf(q.filter, q.cursor)]
      \/ a = [q EXCEPT !.pc = "answered"]
  BY DEF Answers
<1> QED  BY <1>1 DEF FetchType

(* An answer is a fetch.                                                   *)
LEMMA AnswersTyped ==
  ASSUME rows \subseteq Ids, NEW q \in FetchType, NEW a \in Answers(q)
  PROVE  a \in FetchType
<1>1. PageOf(q.filter, q.cursor) \in Seq(Ids)  BY PageOfType
<1>2. \/ a = [q EXCEPT !.pc = "answered", !.ok = TRUE, !.rows = PageOf(q.filter, q.cursor)]
      \/ a = [q EXCEPT !.pc = "answered"]
  BY DEF Answers
<1> QED  BY <1>1, <1>2 DEF FetchType

(* So is an outdated fetch.                                                *)
LEMMA OutdatedTyped ==
  ASSUME NEW q \in FetchType
  PROVE  /\ Outdated(q) \in FetchType /\ Outdated(q).outdated = TRUE
         /\ Outdated(q).pc = q.pc
<1> QED  BY DEF FetchType, Outdated

(* The types hold at first and survive every step.                         *)
LEMMA TypeInit == Init => TypeOK
<1> SUFFICES ASSUME Init PROVE TypeOK  OBVIOUS
<1>1. "all" \in scenario.filters /\ scenario \in Scenarios  BY FeedAssumption DEF Init
<1>2. scenario.before \in 0 .. Requests /\ Requests \in Nat
  BY <1>1, FeedAssumption DEF Scenario
<1>3. NoFetch \in FetchType  BY <1>1, <1>2, FetchTyped
<1>4. rows \subseteq Ids  BY <1>2 DEF Init, Ids
<1>5. phase \in [Ids -> {"new", "started", "stored", "told"}]  BY DEF Init
<1>6. << >> \in Seq(Ids) /\ << >> \in Seq(MessageType)  OBVIOUS
<1>7. filter \in scenario.filters /\ lastCursor \in 0 .. Requests  BY <1>1, <1>2 DEF Init
<1> QED  BY <1>1, <1>3, <1>4, <1>5, <1>6, <1>7 DEF Init, TypeOK

\* Every step keeps the types.
LEMMA TypeStep == TypeOK /\ [Next]_vars => TypeOK'
<1> USE DEF serverVars, socketVars, bufferVars, storeVars, loaderVars, userVars, restVars
<1> SUFFICES ASSUME TypeOK, [Next]_vars PROVE TypeOK'  OBVIOUS
<1>1. scenario' = scenario  BY DEF Next, vars
<1>2. FetchType' = FetchType /\ MessageType' = MessageType  BY <1>1 DEF FetchType, MessageType
<1>3. Requests \in Nat /\ "all" \in scenario.filters /\ NoFetch \in FetchType
  BY FeedAssumption, FetchTyped DEF TypeOK
<1>4. /\ \A type \in {"request_start", "request_end"}, r \in Ids :
           Message(type, r, {}) \in MessageType
      /\ \A gone \in SUBSET Ids : Message("logs_cleared", 0, gone) \in MessageType
  BY DEF Message, MessageType
<1>5. \A m \in MessageType : Tell(m) => inbox' \in Seq(MessageType)
  BY DEF Tell, TypeOK
<1>6. Ids \subseteq 0 .. Requests  BY <1>3 DEF Ids
<1>7. inbox # << >> => /\ Head(inbox) \in MessageType /\ Tail(inbox) \in Seq(MessageType)
  BY DEF TypeOK
<1>8. \A f \in scenario.filters, c \in 0 .. Requests : Fetch(f, c) \in FetchType
  BY FetchTyped DEF TypeOK
<1>9. \A q \in FetchType : q.rows \in Seq(Ids) /\ q.cursor \in 0 .. Requests  BY DEF FetchType
<1>10. << >> \in Seq(Ids) /\ << >> \in Seq(MessageType)  OBVIOUS
<1>11. MaxBuffer \in Nat \ {0} /\ MaxLogs \in Nat \ {0} /\ MaxPending \in Nat \ {0}
  BY FeedAssumption
<1>12. \A s \in Seq(Ids), x \in Ids : Push(s, x) \in Seq(Ids)  BY PushKeeps
<1>13. \A s \in Seq(Ids) : Newest(s, MaxLogs) \in Seq(Ids)  BY <1>11, NewestOf
<1>14. \A s \in Seq(Ids) : Oldest(s, MaxLogs) \in Seq(Ids)  BY <1>11, OldestOf
<1>15. \A s, t \in Seq(Ids) : s \o t \in Seq(Ids)  OBVIOUS
<1>16. filter \in scenario.filters /\ Fetch(filter, 0) \in FetchType
  BY <1>3, <1>8 DEF TypeOK
<1>17. \A q \in FetchType : Answers(q) \subseteq FetchType  BY AnswersTyped DEF TypeOK
<1>18. \A q \in FetchType : Outdated(q) \in FetchType  BY OutdatedTyped
<1>19. \A m \in MessageType :
         m.gone \subseteq Ids /\ (m.type # "logs_cleared" => m.id \in Ids)
  BY DEF MessageType
<1>20. CASE UNCHANGED vars  BY <1>1, <1>2, <1>20 DEF TypeOK, vars, running
<1>21. ASSUME NEW r \in Ids, Start(r)  PROVE TypeOK'
  <2>1. inbox' \in Seq(MessageType)  BY <1>4, <1>5, <1>6, <1>21 DEF Start
  <2> QED  BY <1>1, <1>2, <1>21, <2>1 DEF Start, TypeOK
<1>22. ASSUME NEW r \in Ids, Store(r)  PROVE TypeOK'
  BY <1>1, <1>2, <1>22 DEF Store, TypeOK
<1>23. ASSUME NEW r \in Ids, Announce(r)  PROVE TypeOK'
  <2>1. inbox' \in Seq(MessageType)  BY <1>4, <1>5, <1>6, <1>23 DEF Announce
  <2> QED  BY <1>1, <1>2, <1>23, <2>1 DEF Announce, TypeOK
<1>24. ASSUME NEW r \in Ids, Age(r)  PROVE TypeOK'
  BY <1>1, <1>2, <1>24 DEF Age, TypeOK
<1>25. CASE ClearLogs
  <2>1. rows \in SUBSET Ids  BY DEF TypeOK
  <2>2. inbox' \in Seq(MessageType)  BY <1>4, <1>5, <1>25, <2>1 DEF ClearLogs
  <2> QED  BY <1>1, <1>2, <1>25, <2>2 DEF ClearLogs, TypeOK
<1>26. CASE ClearReturns  BY <1>1, <1>2, <1>10, <1>26 DEF ClearReturns, Reset, TypeOK
<1>27. CASE Disconnect  BY <1>1, <1>2, <1>10, <1>27 DEF Disconnect, TypeOK
<1>28. CASE Reconnect  BY <1>1, <1>2, <1>28 DEF Reconnect, TypeOK
<1>29. CASE ReceiveStart
  <2>1. inbox' \in Seq(MessageType)  BY <1>7, <1>29 DEF ReceiveStart
  <2>2. Head(inbox).id \in Ids  BY <1>7, <1>19, <1>29 DEF ReceiveStart
  <2>3. adds' \in Seq(Ids)  BY <1>12, <1>29, <2>2 DEF ReceiveStart, TypeOK
  <2> QED  BY <1>1, <1>2, <1>29, <2>1, <2>3 DEF ReceiveStart, TypeOK
<1>30. CASE ReceiveEnd
  <2>1. inbox' \in Seq(MessageType)  BY <1>7, <1>30 DEF ReceiveEnd
  <2>2. Head(inbox).id \in Ids  BY <1>7, <1>19, <1>30 DEF ReceiveEnd
  <2>3. removes' \in Seq(Ids) /\ ends' \in Seq(Ids)  
    BY <1>12, <1>30, <2>2 DEF ReceiveEnd, TypeOK
  <2>4. ended' \subseteq Ids  BY <1>30, <2>2 DEF ReceiveEnd, TypeOK
  <2> QED  BY <1>1, <1>2, <1>30, <2>1, <2>3, <2>4 DEF ReceiveEnd, TypeOK
<1>31. CASE ReceiveCleared
  <2>1. inbox' \in Seq(MessageType)  BY <1>7, <1>31 DEF ReceiveCleared
  <2>2. wiped' \subseteq Ids  BY <1>7, <1>19, <1>31 DEF ReceiveCleared, TypeOK
  <2> QED  BY <1>1, <1>2, <1>10, <1>31, <2>1, <2>2
           DEF ReceiveCleared, Reset, EmptyBuffers, TypeOK
<1>32. CASE Flush
  <2>1. pending' \in Seq(Ids)  BY <1>32, AfterFlushKeeps DEF Flush, TypeOK
  <2>2. logs' \in Seq(Ids)  BY <1>13, <1>15, <1>32 DEF Flush, TypeOK
  <2> QED  BY <1>1, <1>2, <1>10, <1>32, <2>1, <2>2 DEF Flush, TypeOK
<1>33. ASSUME NEW f \in scenario.filters, FilterChanges(f)  PROVE TypeOK'
  BY <1>1, <1>2, <1>33 DEF FilterChanges, TypeOK
<1>34. CASE Effect
  <2>1. older' \in FetchType  BY <1>18, <1>34 DEF Effect, TypeOK
  <2>2. page' \in FetchType /\ logs' = << >> /\ pending' = << >>
        /\ hasMore' \in BOOLEAN /\ ready' \in BOOLEAN
    BY <1>3, <1>16, <1>34 DEF Effect, Reset
  <2>3. 0 \in 0 .. Requests  BY <1>3
  <2> QED  BY <1>1, <1>2, <1>10, <1>34, <2>1, <2>2, <2>3 DEF Effect, TypeOK
<1>35. CASE PageExecuted
  <2>1. page' \in FetchType  BY <1>17, <1>35 DEF PageExecuted, TypeOK
  <2> QED  BY <1>1, <1>2, <1>35, <2>1 DEF PageExecuted, TypeOK
<1>36. CASE PageArrives
  <2>1. page.rows \in Seq(Ids)  BY <1>9 DEF TypeOK
  <2>2. logs' \in Seq(Ids)  BY <1>13, <1>36, <2>1 DEF PageArrives, ShowPage, TypeOK
  <2>3. (Len(page.rows) >= PageSize) \in BOOLEAN
    <3>1. Len(page.rows) \in Int /\ PageSize \in Int  BY <2>1, FeedAssumption
    <3> QED  BY <3>1, Compared
  <2>4. hasMore' = hasMore \/ hasMore' = (Len(page.rows) >= PageSize)
    BY <1>36, Zenon DEF PageArrives, ShowPage
  <2>5. hasMore' \in BOOLEAN  BY <2>3, <2>4, Zenon DEF TypeOK
  <2> QED  BY <1>1, <1>2, <1>3, <1>36, <2>2, <2>5 DEF PageArrives, TypeOK
<1>37. CASE LoadMore
  <2>1. Cursor \in 0 .. Requests
    <3>1. logs \in Seq(Ids) /\ 0 \in 0 .. Requests  BY <1>3 DEF TypeOK
    <3>2. logs # << >> => logs[1] \in Ids  BY <3>1
    <3> QED  BY <1>6, <3>1, <3>2 DEF Cursor
  <2>2. older' \in FetchType  BY <1>8, <1>16, <1>37, <2>1 DEF LoadMore
  <2> QED  BY <1>1, <1>2, <1>37, <2>2 DEF LoadMore, TypeOK
<1>38. CASE OlderExecuted
  <2>1. older' \in FetchType  BY <1>17, <1>38 DEF OlderExecuted, TypeOK
  <2> QED  BY <1>1, <1>2, <1>38, <2>1 DEF OlderExecuted, TypeOK
<1>39. CASE OlderArrives
  <2>1. logs' \in Seq(Ids) /\ hasMore' \in BOOLEAN /\ lastCursor' \in 0 .. Requests
    BY <1>9, <1>14, <1>15, <1>39 DEF OlderArrives, TypeOK
  <2> QED  BY <1>1, <1>2, <1>3, <1>39, <2>1 DEF OlderArrives, TypeOK
<1>40. CASE Pause  BY <1>1, <1>2, <1>40 DEF Pause, TypeOK
<1>41. CASE Resume
  <2>1. refresh' \in FetchType  BY <1>16, <1>41 DEF Resume, Refresh, TypeOK
  <2> QED  BY <1>1, <1>2, <1>41, <2>1 DEF Resume, TypeOK
<1>42. CASE Return
  <2>1. refresh' \in FetchType /\ stale' \in BOOLEAN
    BY <1>16, <1>42 DEF Return, Refresh, TypeOK
  <2> QED  BY <1>1, <1>2, <1>42, <2>1 DEF Return, TypeOK
<1>43. CASE RefreshExecuted
  <2>1. refresh' \in FetchType  BY <1>17, <1>43 DEF RefreshExecuted, TypeOK
  <2> QED  BY <1>1, <1>2, <1>43, <2>1 DEF RefreshExecuted, TypeOK
<1>44. CASE RefreshArrives
  <2>1. refresh.rows \in Seq(Ids)  BY <1>9 DEF TypeOK
  <2>2. logs' \in Seq(Ids) /\ pending' \in Seq(Ids)
    BY <1>10, <1>13, <1>44, <2>1 DEF RefreshArrives, ShowPage, TypeOK
  <2>3. (Len(refresh.rows) >= PageSize) \in BOOLEAN
    <3>1. Len(refresh.rows) \in Int /\ PageSize \in Int  BY <2>1, FeedAssumption
    <3> QED  BY <3>1, Compared
  <2>4. hasMore' = hasMore \/ hasMore' = (Len(refresh.rows) >= PageSize)
    BY <1>44, Zenon DEF RefreshArrives, ShowPage
  <2>5. hasMore' \in BOOLEAN  BY <2>3, <2>4, Zenon DEF TypeOK
  <2>6. stale' \in BOOLEAN  BY <1>44 DEF RefreshArrives, TypeOK
  <2> QED  BY <1>1, <1>2, <1>3, <1>44, <2>2, <2>5, <2>6 DEF RefreshArrives, TypeOK
<1> QED
  BY <1>20, <1>21, <1>22, <1>23, <1>24, <1>25, <1>26, <1>27, <1>28, <1>29, <1>30, <1>31,
     <1>32, <1>33, <1>34, <1>35, <1>36, <1>37, <1>38, <1>39, <1>40, <1>41, <1>42, <1>43,
     <1>44 DEF Next

(* The variables have their types.                                         *)
THEOREM TypeCorrect == Spec => []TypeOK
<1> QED  BY TypeInit, TypeStep, PTL DEF Spec

-----------------------------------------------------------------------------
(* No request that has ended stays in the map of those in flight.          *)

\* What is announced at a position of the messages under way: an end only when it is told,
\* a start once and before the end.
Announced(box, i) ==
  /\ box[i].type = "request_end" => phase[box[i].id] = "told"
  /\ box[i].type = "request_start" =>
       /\ phase[box[i].id] # "new" /\ box[i].id \notin ended
       /\ \A j \in 1 .. i - 1 : box[j].type = "request_end" => box[j].id # box[i].id

EndsAnnounced ==
  /\ \A r \in ended : phase[r] = "told"
  /\ \A i \in DOMAIN inbox : Announced(inbox, i)

\* An end whose request is or will be in the map waits in pendingRemoveIds.
EndsKept == (ToSet(adds) \cup ToSet(pending)) \cap ended \subseteq ToSet(removes)

(* A message that is told goes to the end of what is under way.            *)
LEMMA Told ==
  ASSUME TypeOK, NEW m \in MessageType, Tell(m)
  PROVE  /\ \A i \in DOMAIN inbox : inbox'[i] = inbox[i] /\ inbox[i] \in MessageType
         /\ \A i \in DOMAIN inbox' : i \notin DOMAIN inbox => inbox'[i] = m
         /\ \A i \in DOMAIN inbox' : \A j \in 1 .. i - 1 : j \in DOMAIN inbox
<1>1. inbox \in Seq(MessageType)  BY DEF TypeOK
<1> HIDE DEF MessageType
<1> QED  BY <1>1 DEF Tell

(* What is left of the messages under way when the first is received.      *)
LEMMA Received ==
  ASSUME TypeOK, inbox # << >>, inbox' = Tail(inbox)
  PROVE  /\ \A i \in DOMAIN inbox' : /\ i \in Nat /\ i + 1 \in DOMAIN inbox
                                     /\ inbox'[i] = inbox[i + 1]
                                     /\ \A j \in 1 .. i - 1 : inbox'[j] = inbox[j + 1]
         /\ \A i \in DOMAIN inbox : inbox[i] \in MessageType
         /\ Head(inbox) = inbox[1] /\ 1 \in DOMAIN inbox
<1>1. inbox \in Seq(MessageType)  BY DEF TypeOK
<1> HIDE DEF MessageType
<1> QED  BY <1>1

(* The order of announcements survives the two steps that announce.        *)
LEMMA AnnouncedStep ==
  ASSUME TypeOK, EndsAnnounced, NEW m \in MessageType, NEW r \in Ids, NEW p, Tell(m),
         m.id = r, phase' = [phase EXCEPT ![r] = p], ended' = ended,
         \/ m.type = "request_start" /\ phase[r] = "new" /\ p = "started"
         \/ m.type = "request_end" /\ phase[r] = "stored" /\ p = "told"
  PROVE  EndsAnnounced'
<1>1. phase'[r] = p /\ \A x \in Ids : x # r => phase'[x] = phase[x]  BY DEF TypeOK
<1>2. \A x \in ended' : phase'[x] = "told"  BY <1>1 DEF EndsAnnounced, TypeOK
<1>3. /\ \A i \in DOMAIN inbox : inbox'[i] = inbox[i] /\ inbox[i] \in MessageType
      /\ \A i \in DOMAIN inbox' : i \notin DOMAIN inbox => inbox'[i] = m
      /\ \A i \in DOMAIN inbox' : \A j \in 1 .. i - 1 : j \in DOMAIN inbox
  BY Told
<1>4. \A i \in DOMAIN inbox : inbox[i].type # "logs_cleared" => inbox[i].id \in Ids
  BY <1>3 DEF MessageType
<1>5. ASSUME NEW i \in DOMAIN inbox'  PROVE Announced(inbox, i)'
  <2>1. CASE i \in DOMAIN inbox
    <3>1. Announced(inbox, i) /\ inbox'[i] = inbox[i]  BY <1>3, <2>1 DEF EndsAnnounced
    <3>2. \A j \in 1 .. i - 1 : inbox'[j] = inbox[j]  BY <1>3
    <3> QED  BY <1>1, <1>4, <2>1, <3>1, <3>2 DEF Announced
  <2>2. CASE i \notin DOMAIN inbox
    <3>1. inbox'[i] = m  BY <1>3, <2>2
    <3>2. \A j \in 1 .. i - 1 : j \in DOMAIN inbox /\ inbox'[j] = inbox[j]  BY <1>3
    <3>3. CASE m.type = "request_end"  BY <1>1, <3>1, <3>3 DEF Announced
    <3>4. CASE m.type = "request_start"
      <4>1. phase[r] = "new" /\ p = "started"  BY <3>4
      <4>2. r \notin ended  BY <4>1 DEF EndsAnnounced
      <4>3. \A j \in 1 .. i - 1 : inbox[j].type = "request_end" => inbox[j].id # r
        BY <3>2, <4>1 DEF EndsAnnounced, Announced
      <4> QED  BY <1>1, <3>1, <3>2, <3>4, <4>1, <4>2, <4>3 DEF Announced
    <3> QED  BY <3>3, <3>4
  <2> QED  BY <2>1, <2>2
<1> QED  BY <1>2, <1>5 DEF EndsAnnounced

(* A message that announces nothing changes nothing about it.              *)
LEMMA AnnouncedTold ==
  ASSUME TypeOK, EndsAnnounced, NEW m \in MessageType, Tell(m), m.type = "logs_cleared",
         phase' = phase, ended' = ended
  PROVE  EndsAnnounced'
<1>1. /\ \A i \in DOMAIN inbox : inbox'[i] = inbox[i] /\ inbox[i] \in MessageType
      /\ \A i \in DOMAIN inbox' : i \notin DOMAIN inbox => inbox'[i] = m
      /\ \A i \in DOMAIN inbox' : \A j \in 1 .. i - 1 : j \in DOMAIN inbox
  BY Told
<1>2. ASSUME NEW i \in DOMAIN inbox'  PROVE Announced(inbox, i)'
  <2>1. CASE i \in DOMAIN inbox
    <3>1. Announced(inbox, i) /\ inbox'[i] = inbox[i]  BY <1>1, <2>1 DEF EndsAnnounced
    <3>2. \A j \in 1 .. i - 1 : inbox'[j] = inbox[j]  BY <1>1
    <3> QED  BY <3>1, <3>2 DEF Announced
  <2>2. CASE i \notin DOMAIN inbox  BY <1>1, <2>2 DEF Announced
  <2> QED  BY <2>1, <2>2
<1> QED  BY <1>2 DEF EndsAnnounced

(* Receiving a message leaves the order of the others.                     *)
LEMMA AnnouncedReceived ==
  ASSUME TypeOK, EndsAnnounced, inbox # << >>, inbox' = Tail(inbox), phase' = phase,
         \/ ended' = ended
         \/ /\ Head(inbox).type = "request_end"
            /\ ended' \subseteq ended \cup {Head(inbox).id}
  PROVE  EndsAnnounced'
<1>1. /\ \A i \in DOMAIN inbox' : /\ i \in Nat /\ i + 1 \in DOMAIN inbox
                                  /\ inbox'[i] = inbox[i + 1]
                                  /\ \A j \in 1 .. i - 1 : inbox'[j] = inbox[j + 1]
      /\ Head(inbox) = inbox[1] /\ 1 \in DOMAIN inbox
  BY Received
<1>2. \A r \in ended' : phase'[r] = "told"  BY <1>1 DEF EndsAnnounced, Announced
<1>3. ASSUME NEW i \in DOMAIN inbox'  PROVE Announced(inbox, i)'
  <2>1. /\ i \in Nat /\ Announced(inbox, i + 1) /\ inbox'[i] = inbox[i + 1]
        /\ \A j \in 1 .. i - 1 : inbox'[j] = inbox[j + 1]
    BY <1>1 DEF EndsAnnounced
  <2>2. inbox'[i].type = "request_end" => phase'[inbox'[i].id] = "told"
    BY <2>1 DEF Announced
  <2>3. ASSUME inbox'[i].type = "request_start"
        PROVE  /\ phase'[inbox'[i].id] # "new" /\ inbox'[i].id \notin ended'
               /\ \A j \in 1 .. i - 1 :
                    inbox'[j].type = "request_end" => inbox'[j].id # inbox'[i].id
    <3>1. /\ phase[inbox[i + 1].id] # "new" /\ inbox[i + 1].id \notin ended
          /\ \A j \in 1 .. i : inbox[j].type = "request_end" => inbox[j].id # inbox[i + 1].id
      BY <2>1, <2>3 DEF Announced
    <3>2. \A j \in 1 .. i - 1 : j + 1 \in 1 .. i  BY <2>1
    <3>3. 1 \in 1 .. i
      <4>1. i \in 1 .. Len(inbox')  BY DEF TypeOK
      <4> QED  BY <2>1, <4>1
    <3>4. inbox'[i].id \notin ended'  BY <1>1, <2>1, <3>1, <3>3
    <3> QED  BY <2>1, <3>1, <3>2, <3>4
  <2> QED  BY <2>2, <2>3 DEF Announced
<1> QED  BY <1>2, <1>3 DEF EndsAnnounced

\* The inductive invariant.
EndsInv == TypeOK /\ EndsAnnounced /\ EndsKept

(* The steps keep the order of announcements.                              *)
LEMMA AnnouncedAlways == TypeOK /\ EndsAnnounced /\ [Next]_vars => EndsAnnounced'
<1> USE DEF serverVars, socketVars, bufferVars, storeVars, loaderVars, userVars, restVars
<1> SUFFICES ASSUME TypeOK, EndsAnnounced, [Next]_vars PROVE EndsAnnounced'  OBVIOUS
<1>1. CASE UNCHANGED <<inbox, phase, ended>>  BY <1>1 DEF EndsAnnounced, Announced
<1>2. ASSUME NEW r \in Ids, Start(r)  PROVE EndsAnnounced'
  <2> DEFINE m == Message("request_start", r, {})
  <2>1. m \in MessageType /\ m.type = "request_start" /\ m.id = r
    BY DEF Message, MessageType
  <2> HIDE DEF m
  <2>2. /\ phase[r] = "new" /\ phase' = [phase EXCEPT ![r] = "started"] /\ Tell(m)
        /\ ended' = ended
    BY <1>2 DEF Start, m
  <2> QED  BY <2>1, <2>2, AnnouncedStep
<1>3. ASSUME NEW r \in Ids, Announce(r)  PROVE EndsAnnounced'
  <2> DEFINE m == Message("request_end", r, {})
  <2>1. m \in MessageType /\ m.type = "request_end" /\ m.id = r
    BY DEF Message, MessageType
  <2> HIDE DEF m
  <2>2. /\ phase[r] = "stored" /\ phase' = [phase EXCEPT ![r] = "told"] /\ Tell(m)
        /\ ended' = ended
    BY <1>3 DEF Announce, m
  <2> QED  BY <2>1, <2>2, AnnouncedStep
<1>4. ASSUME NEW r \in Ids, Store(r)  PROVE EndsAnnounced'
  <2>1. /\ phase[r] = "started" /\ phase' = [phase EXCEPT ![r] = "stored"]
        /\ inbox' = inbox /\ ended' = ended
    BY <1>4 DEF Store
  <2>2. /\ \A x : phase[x] = "told" => phase'[x] = "told"
        /\ \A x : phase[x] # "new" => phase'[x] # "new"
    BY <2>1 DEF TypeOK
  <2> QED  BY <2>1, <2>2 DEF EndsAnnounced, Announced
<1>5. CASE ClearLogs
  <2> DEFINE m == Message("logs_cleared", 0, rows)
  <2>1. m \in MessageType /\ m.type = "logs_cleared"  BY DEF Message, MessageType, TypeOK
  <2> HIDE DEF m
  <2>2. phase' = phase /\ Tell(m) /\ ended' = ended  BY <1>5 DEF ClearLogs, m
  <2> QED  BY <2>1, <2>2, AnnouncedTold
<1>6. CASE Disconnect
  <2>1. inbox' = << >> /\ phase' = phase /\ ended' = ended  BY <1>6 DEF Disconnect
  <2> QED  BY <2>1 DEF EndsAnnounced
<1>7. CASE ReceiveStart \/ ReceiveCleared
  <2>1. inbox # << >> /\ inbox' = Tail(inbox) /\ phase' = phase /\ ended' = ended
    BY <1>7 DEF ReceiveStart, ReceiveCleared
  <2> QED  BY <2>1, AnnouncedReceived
<1>8. CASE ReceiveEnd
  <2>1. /\ inbox # << >> /\ inbox' = Tail(inbox) /\ phase' = phase
        /\ Head(inbox).type = "request_end" /\ ended' \subseteq ended \cup {Head(inbox).id}
    BY <1>8 DEF ReceiveEnd
  <2> QED  BY <2>1, AnnouncedReceived
<1>9. CASE \/ \E r \in Ids : Age(r)
           \/ ClearReturns \/ Reconnect \/ Flush \/ \E f \in scenario.filters : FilterChanges(f)
  BY <1>1, <1>9 DEF Age, ClearReturns, Reconnect, Flush, FilterChanges
<1>10. CASE Effect \/ PageExecuted \/ PageArrives \/ LoadMore \/ OlderExecuted \/ OlderArrives
  BY <1>1, <1>10 DEF Effect, PageExecuted, PageArrives, LoadMore, OlderExecuted, OlderArrives
<1>11. CASE Pause \/ Resume \/ Return \/ RefreshExecuted \/ RefreshArrives
  BY <1>1, <1>11 DEF Pause, Resume, Return, RefreshExecuted, RefreshArrives
<1>12. CASE UNCHANGED vars  BY <1>1, <1>12 DEF vars, running
<1> QED
  BY <1>2, <1>3, <1>4, <1>5, <1>6, <1>7, <1>8, <1>9, <1>10, <1>11, <1>12 DEF Next

(* So do they keep what pendingRemoveIds is for.                           *)
LEMMA KeptAlways == TypeOK /\ EndsAnnounced /\ EndsKept /\ [Next]_vars => EndsKept'
<1> USE DEF serverVars, socketVars, bufferVars, storeVars, loaderVars, userVars, restVars
<1> SUFFICES ASSUME TypeOK, EndsAnnounced, EndsKept, [Next]_vars PROVE EndsKept'  OBVIOUS
<1>1. ToSet(<< >>) = {}  BY DEF ToSet
<1>2. CASE UNCHANGED <<adds, pending, ended, removes>>  BY <1>2 DEF EndsKept
<1>3. CASE UNCHANGED <<adds, ended, removes>> /\ pending' = << >>
  BY <1>1, <1>3 DEF EndsKept
<1>4. CASE ReceiveStart
  <2> DEFINE r == Head(inbox).id
  <2>1. r \notin ended
    <3>1. Head(inbox) = inbox[1] /\ 1 \in DOMAIN inbox  
      BY <1>4, Received DEF ReceiveStart
    <3> QED  BY <1>4, <3>1 DEF ReceiveStart, EndsAnnounced, Announced
  <2>2. r \in Ids
    <3>1. Head(inbox) \in MessageType /\ Head(inbox).type = "request_start"
      BY <1>4 DEF ReceiveStart, TypeOK
    <3> QED  BY <3>1 DEF MessageType
  <2>3. adds' = adds \/ adds' = Push(adds, r)  BY <1>4 DEF ReceiveStart
  <2>4. adds \in Seq(Ids)  BY DEF TypeOK
  <2> HIDE DEF r
  <2>5. ToSet(adds') \subseteq ToSet(adds) \cup {r}  BY <2>2, <2>3, <2>4, PushKeeps
  <2>6. UNCHANGED <<pending, ended, removes>>  BY <1>4 DEF ReceiveStart
  <2> QED  BY <2>1, <2>5, <2>6 DEF EndsKept
<1>5. CASE ReceiveEnd
  <2> DEFINE r == Head(inbox).id
  <2>1. /\ removes' = Push(removes, r) /\ UNCHANGED <<adds, pending>>
        /\ ended' = (ended \cup {r}) \ (ToSet(removes) \ ToSet(removes'))
    BY <1>5 DEF ReceiveEnd
  <2>2. r \in Ids
    <3>1. Head(inbox) \in MessageType /\ Head(inbox).type = "request_end"
      BY <1>5 DEF ReceiveEnd, TypeOK
    <3> QED  BY <3>1 DEF MessageType
  <2>3. removes \in Seq(Ids)  BY DEF TypeOK
  <2> HIDE DEF r
  <2>4. r \in ToSet(removes')  BY <2>1, <2>2, <2>3, PushKeeps
  <2> QED  BY <2>1, <2>4 DEF EndsKept
<1>6. CASE ReceiveCleared
  <2>1. adds' = << >> /\ pending' = << >>  BY <1>6 DEF ReceiveCleared, EmptyBuffers, Reset
  <2> QED  BY <1>1, <2>1 DEF EndsKept
<1>7. CASE Flush
  <2>1. adds' = << >> /\ pending' = AfterFlush /\ ended' = ended  BY <1>7 DEF Flush
  <2>2. ToSet(AfterFlush) \subseteq (ToSet(pending) \cup ToSet(adds)) \ ToSet(removes)
    BY AfterFlushKeeps DEF TypeOK
  <2> QED  BY <1>1, <2>1, <2>2 DEF EndsKept
<1>8. CASE \/ \E r \in Ids : Start(r) \/ Store(r) \/ Announce(r) \/ Age(r)
           \/ ClearLogs \/ Disconnect \/ Reconnect
           \/ \E f \in scenario.filters : FilterChanges(f)
  BY <1>2, <1>8 DEF Start, Store, Announce, Age, ClearLogs, Disconnect, Reconnect, FilterChanges
<1>9. CASE PageExecuted \/ PageArrives \/ LoadMore \/ OlderExecuted \/ OlderArrives
  BY <1>2, <1>9 DEF PageExecuted, PageArrives, LoadMore, OlderExecuted, OlderArrives
<1>10. CASE Pause \/ Resume \/ Return \/ RefreshExecuted
  BY <1>2, <1>10 DEF Pause, Resume, Return, RefreshExecuted
<1>11. CASE RefreshArrives  BY <1>2, <1>3, <1>11 DEF RefreshArrives
<1>12. CASE Effect \/ ClearReturns  BY <1>3, <1>12 DEF Effect, ClearReturns, Reset
<1>13. CASE UNCHANGED vars  BY <1>2, <1>13 DEF vars, running
<1> QED
  BY <1>4, <1>5, <1>6, <1>7, <1>8, <1>9, <1>10, <1>11, <1>12, <1>13 DEF Next

(* Once everything received is flushed, no request that has ended spins in *)
(* the feed (useWebSocket's flush, use-websocket.ts:36): adds are applied  *)
(* before removes, and an end is never taken up before its start.          *)
THEOREM NoneSpins == Spec => []EndedNotPending
<1>1. Init => EndsInv
  <2> SUFFICES ASSUME Init PROVE EndsInv  OBVIOUS
  <2>1. TypeOK  BY TypeInit
  <2>2. inbox = << >> /\ ended = {}  BY DEF Init
  <2> QED  BY <2>1, <2>2 DEF EndsInv, EndsAnnounced, EndsKept
<1>2. EndsInv /\ [Next]_vars => EndsInv'
  BY TypeStep, AnnouncedAlways, KeptAlways DEF EndsInv
<1>3. EndsInv => EndedNotPending
  <2>1. ToSet(<< >>) = {}  BY DEF ToSet
  <2> QED  BY <2>1 DEF EndsInv, EndsKept, EndedNotPending
<1> QED  BY <1>1, <1>2, <1>3, PTL DEF Spec

-----------------------------------------------------------------------------
(* The list under the loader alone.                                        *)

Ordered(s) == \A i, j \in DOMAIN s : i < j => s[i] < s[j]

\* Without live logs nothing else writes the list, and what a clear removed stays away.
Still ==
  /\ \A r \in Ids : phase[r] \in {"new", "told"}
  /\ removes = << >> /\ adds = << >> /\ ends = << >> /\ ~heard
  /\ ~stale /\ refresh.pc = "idle"
  /\ \A i \in DOMAIN inbox :
       inbox[i].type = "logs_cleared" /\ inbox[i].gone \cap rows = {}
  /\ rows \cap (wiped \cup clearing) = {}

\* s holds the newest of the rows R below c that match f, as many as fit in a page.
Covers(R, s, f, c) ==
  /\ Ordered(s) /\ Len(s) <= PageSize
  /\ \A i \in DOMAIN s : Matches(s[i], f) /\ (c # 0 => s[i] < c)
  /\ \A r \in R : Matches(r, f) /\ (c # 0 => r < c) =>
       r \in ToSet(s) \/ (Len(s) >= PageSize /\ r < s[1])

\* What a fetch brings.
Answered(R, q) ==
  /\ q.pc = "sent" => ~q.ok /\ q.rows = << >>
  /\ q.pc = "answered" /\ q.ok => Covers(R, q.rows, q.filter, q.cursor)

\* The fetch of loadMore() counts.
Merges == older.pc # "idle" /\ ~older.outdated

\* The two fetches, whatever is due.
Loading ==
  /\ Answered(rows, page) /\ Answered(rows, older)
  /\ ready => page.pc = "idle"
  /\ page.pc # "idle" => page.cursor = 0
  /\ Merges => /\ page.pc = "idle" /\ hasMore
               /\ logs # << >> => older.cursor # 0 /\ logs[1] = older.cursor
  /\ Ordered(logs)

\* The rows of a list belong under the filter f, and none of them was cleared.
Belong(s, f, W) == \A i \in DOMAIN s : Matches(s[i], f) /\ s[i] \notin W

\* No stored row is missing between those of the list.
NoGap(s, f, R) ==
  s # << >> =>
    \A r \in R : Matches(r, f) /\ r > s[1] /\ r < s[Len(s)] => r \in ToSet(s)

\* The list reaches the oldest row.
ReachesAll(s, f, R) == \A r \in R : Matches(r, f) => \E i \in DOMAIN s : s[i] <= r

\* The cursor of the next page is below that of the last one; without a next page there
\* is nothing older.
Reaches ==
  /\ hasMore /\ logs # << >> => lastCursor = 0 \/ logs[1] < lastCursor
  /\ ~hasMore => ReachesAll(logs, filter, rows)

\* The list and the fetches are those of the filter that is shown.
Current ==
  /\ page.pc # "idle" => /\ filter # "pendingOnly" /\ page.filter = filter
                         /\ lastCursor = 0 /\ hasMore /\ ToSet(page.rows) \cap wiped = {}
  /\ Merges => /\ older.filter = filter /\ (older.cursor # 0 => logs # << >>)
               /\ ToSet(older.rows) \cap wiped = {}
  /\ filter = "pendingOnly" => logs = << >> /\ ~hasMore
  /\ filter # "pendingOnly" => Belong(logs, filter, wiped) /\ NoGap(logs, filter, rows) /\ Reaches

Exact == Still /\ Loading /\ (~effectDue => Current)
ExactInv == TypeOK /\ (OnlyPages => Exact)

(* A page holds the newest rows that its query asks for, in order.         *)
LEMMA PageCovers ==
  ASSUME rows \subseteq Ids, NEW f, NEW c
  PROVE  Covers(rows, PageOf(f, c), f, c) /\ ToSet(PageOf(f, c)) \subseteq rows
<1> DEFINE S == {r \in rows : Matches(r, f) /\ (c # 0 => r < c)}
           s == InOrder(S)
           t == Newest(s, PageSize)
           d == Len(s) - Len(t)
<1>1. S \subseteq Nat /\ IsFiniteSet(S)
  <2>1. Requests \in Nat  BY FeedAssumption
  <2>2. IsFiniteSet(Ids) /\ Ids \subseteq Nat  BY <2>1, FS_Interval DEF Ids
  <2> QED  BY <2>2, FS_Subset
<1>2. \A r \in S : r \in rows /\ Matches(r, f) /\ (c # 0 => r < c)  OBVIOUS
<1>3. \A r \in rows : Matches(r, f) /\ (c # 0 => r < c) => r \in S  OBVIOUS
<1> HIDE DEF S
<1>4. /\ s \in Seq(S) /\ Len(s) \in Nat /\ DOMAIN s = 1 .. Len(s) /\ ToSet(s) = S
      /\ \A i, j \in 1 .. Len(s) : i < j => s[i] < s[j]
  BY <1>1, InOrderLists
<1>5. PageSize \in Nat \ {0}  BY FeedAssumption
<1> HIDE DEF s
<1>6. /\ t \in Seq(S) /\ Len(t) = IF Len(s) > PageSize THEN PageSize ELSE Len(s)
      /\ \A i \in 1 .. Len(t) : t[i] = s[i + d] /\ i + d \in 1 .. Len(s)
      /\ ToSet(t) \subseteq ToSet(s)
  BY <1>4, <1>5, NewestOf
<1>7. PageOf(f, c) = t  BY DEF PageOf, S, s, t
<1> HIDE DEF t
<1>8. /\ Len(t) \in Nat /\ d \in Nat /\ DOMAIN t = 1 .. Len(t) /\ Len(t) <= PageSize
      /\ d > 0 => Len(t) = PageSize
  <2>1. Len(t) \in Nat /\ DOMAIN t = 1 .. Len(t)  BY <1>6
  <2>2. CASE Len(s) > PageSize  BY <1>4, <1>5, <1>6, <2>1, <2>2
  <2>3. CASE ~(Len(s) > PageSize)  BY <1>4, <1>5, <1>6, <2>1, <2>3
  <2> QED  BY <2>2, <2>3
<1>9. Len(s) = Len(t) + d  BY <1>4, <1>8
<1> HIDE DEF d
<1>10. Ordered(t)
  <2> SUFFICES ASSUME NEW i \in 1 .. Len(t), NEW j \in 1 .. Len(t), i < j  PROVE t[i] < t[j]
    BY <1>8 DEF Ordered
  <2>1. i + d < j + d  BY <1>8
  <2> QED  BY <1>4, <1>6, <2>1
<1>11. \A i \in DOMAIN t : t[i] \in S  BY <1>6
<1>12. ASSUME NEW r \in S  PROVE r \in ToSet(t) \/ (Len(t) >= PageSize /\ r < t[1])
  <2>1. PICK k \in 1 .. Len(s) : s[k] = r  BY <1>4 DEF ToSet
  <2>2. CASE k > d
    <3>1. k - d \in 1 .. Len(t) /\ (k - d) + d = k  BY <1>4, <1>8, <1>9, <2>2
    <3>2. t[k - d] = r  BY <1>6, <2>1, <3>1
    <3> QED  BY <1>8, <3>1, <3>2 DEF ToSet
  <2>3. CASE ~(k > d)
    <3>1. d > 0 /\ k < 1 + d  BY <1>4, <1>8, <2>3
    <3>2. Len(t) = PageSize /\ 1 \in 1 .. Len(t)  BY <1>5, <1>8, <3>1
    <3>3. t[1] = s[1 + d] /\ 1 + d \in 1 .. Len(s)  BY <1>6, <3>2
    <3>4. r < t[1]  BY <1>4, <2>1, <3>1, <3>3
    <3> QED  BY <1>5, <3>2, <3>4
  <2> QED  BY <2>2, <2>3
<1>13. Covers(rows, t, f, c)  BY <1>2, <1>3, <1>8, <1>10, <1>11, <1>12 DEF Covers
<1>14. ToSet(t) \subseteq rows  BY <1>2, <1>4, <1>6
<1> QED  BY <1>7, <1>13, <1>14

(* What it covers stays covered while rows are only removed.               *)
LEMMA CoversOn ==
  ASSUME NEW R, NEW Q, Q \subseteq R, NEW s, NEW f, NEW c, Covers(R, s, f, c)
  PROVE  Covers(Q, s, f, c)
<1> QED  BY DEF Covers

\* So does what a fetch has brought.
LEMMA AnsweredOn ==
  ASSUME NEW R, NEW Q, Q \subseteq R, NEW q, Answered(R, q)
  PROVE  Answered(Q, q)
<1> QED  BY CoversOn DEF Answered

(* The query of an unanswered fetch is executed.                           *)
LEMMA Executed ==
  ASSUME TypeOK, NEW q \in FetchType, q.pc = "sent", Answered(rows, q), NEW a \in Answers(q)
  PROVE  /\ Answered(rows, a) /\ ToSet(a.rows) \subseteq rows
         /\ a.pc = "answered" /\ a.filter = q.filter /\ a.cursor = q.cursor
         /\ a.outdated = q.outdated
<1>1. /\ a.pc = "answered" /\ a.filter = q.filter /\ a.cursor = q.cursor
      /\ a.outdated = q.outdated
      /\ \/ a.ok = TRUE /\ a.rows = PageOf(q.filter, q.cursor)
         \/ a.ok = q.ok /\ a.rows = q.rows
  BY AnswersAre
<1>2. CASE a.ok = TRUE /\ a.rows = PageOf(q.filter, q.cursor)
  <2>1. /\ Covers(rows, PageOf(q.filter, q.cursor), q.filter, q.cursor)
        /\ ToSet(PageOf(q.filter, q.cursor)) \subseteq rows
    BY PageCovers DEF TypeOK
  <2> QED  BY <1>1, <1>2, <2>1 DEF Answered
<1>3. CASE a.ok = q.ok /\ a.rows = q.rows
  <2>1. ~q.ok /\ q.rows = << >>  BY DEF Answered
  <2> QED  BY <1>1, <1>3, <2>1 DEF Answered, ToSet
<1> QED  BY <1>1, <1>2, <1>3

(* Older rows are put before the list, which keeps its oldest part.        *)
LEMMA Joined ==
  ASSUME NEW a \in Seq(Ids), NEW b \in Seq(Ids), Ordered(a), Ordered(b), a # << >>,
         \A i \in DOMAIN a : b # << >> => a[i] < b[1]
  PROVE  LET s == Oldest(a \o b, MaxLogs) IN
         /\ s \in Seq(Ids) /\ Ordered(s) /\ s # << >> /\ s[1] = a[1]
         /\ ToSet(s) \subseteq ToSet(a) \cup ToSet(b)
         /\ \A x \in ToSet(a) \cup ToSet(b) : x \in ToSet(s) \/ s[Len(s)] < x
<1> DEFINE u == a \o b
           s == Oldest(u, MaxLogs)
<1>1. /\ Len(a) \in Nat /\ Len(b) \in Nat /\ DOMAIN a = 1 .. Len(a) /\ DOMAIN b = 1 .. Len(b)
      /\ Len(a) > 0 /\ (Len(b) > 0 => b # << >>) /\ Ids \subseteq Nat
  <2>1. Requests \in Nat  BY FeedAssumption
  <2> QED  BY <2>1 DEF Ids
<1>2. /\ \A i \in 1 .. Len(a) : a[i] \in Ids
      /\ \A i \in 1 .. Len(b) : b[i] \in Ids
  OBVIOUS
<1>3. u \in Seq(Ids) /\ Len(u) = Len(a) + Len(b) /\ DOMAIN u = 1 .. Len(u)  OBVIOUS
<1>4. /\ \A i \in 1 .. Len(a) : i \in 1 .. Len(u) /\ u[i] = a[i]
      /\ \A i \in 1 .. Len(b) : i + Len(a) \in 1 .. Len(u) /\ u[i + Len(a)] = b[i]
      /\ \A i \in 1 .. Len(u) : \/ i \in 1 .. Len(a) /\ u[i] = a[i]
                                \/ /\ i - Len(a) \in 1 .. Len(b) /\ u[i] = b[i - Len(a)]
                                   /\ i > Len(a)
  BY <1>1, <1>3
<1> HIDE DEF u
<1>5. Ordered(u)
  <2> SUFFICES ASSUME NEW i \in 1 .. Len(u), NEW j \in 1 .. Len(u), i < j  PROVE u[i] < u[j]
    BY <1>3 DEF Ordered
  <2>1. CASE i \in 1 .. Len(a) /\ j \in 1 .. Len(a)  BY <1>1, <1>4, <2>1 DEF Ordered
  <2>2. CASE i > Len(a) /\ j > Len(a)
    <3>1. /\ i - Len(a) \in 1 .. Len(b) /\ u[i] = b[i - Len(a)]
          /\ j - Len(a) \in 1 .. Len(b) /\ u[j] = b[j - Len(a)]
          /\ i - Len(a) < j - Len(a)
      BY <1>1, <1>4, <2>2
    <3> QED  BY <1>1, <3>1 DEF Ordered
  <2>3. CASE i \in 1 .. Len(a) /\ j > Len(a)
    <3>1. u[i] = a[i] /\ j - Len(a) \in 1 .. Len(b) /\ u[j] = b[j - Len(a)]
      BY <1>1, <1>4, <2>3
    <3>2. a[i] < b[1] /\ 1 \in 1 .. Len(b)  BY <1>1, <2>3, <3>1
    <3>3. b[1] <= b[j - Len(a)]
      <4> DEFINE k == j - Len(a)
      <4>1. CASE k = 1
        <5>1. b[1] \in Nat  BY <1>1, <1>2, <3>2
        <5> HIDE DEF k
        <5>2. b[k] = b[1]  BY <4>1
        <5> QED  BY <5>1, <5>2 DEF k
      <4>2. CASE j - Len(a) # 1
        <5>1. 1 < j - Len(a)  BY <3>1, <4>2
        <5>2. b[1] < b[j - Len(a)]  BY <1>1, <3>1, <3>2, <5>1 DEF Ordered
        <5>3. b[1] \in Nat /\ b[j - Len(a)] \in Nat  BY <1>1, <1>2, <3>1, <3>2
        <5> QED  BY <5>2, <5>3
      <4> QED  BY <4>1, <4>2
    <3>4. a[i] \in Nat /\ b[1] \in Nat /\ b[j - Len(a)] \in Nat
      BY <1>1, <1>2, <2>3, <3>1, <3>2
    <3> QED  BY <3>1, <3>2, <3>3, <3>4
  <2> QED  BY <1>1, <1>3, <2>1, <2>2, <2>3
<1>6. MaxLogs \in Nat \ {0}  BY FeedAssumption
<1>7. /\ s \in Seq(Ids) /\ Len(s) = IF Len(u) > MaxLogs THEN MaxLogs ELSE Len(u)
      /\ \A i \in 1 .. Len(s) : s[i] = u[i] /\ i \in 1 .. Len(u)
  BY <1>3, <1>6, OldestOf
<1> HIDE DEF s
<1>8. Len(s) \in 1 .. Len(u) /\ DOMAIN s = 1 .. Len(s)
  <2>1. Len(u) > 0 /\ Len(u) \in Nat  BY <1>1, <1>3
  <2>2. CASE Len(u) > MaxLogs  BY <1>6, <1>7, <2>1, <2>2
  <2>3. CASE ~(Len(u) > MaxLogs)  BY <1>6, <1>7, <2>1, <2>3
  <2> QED  BY <2>2, <2>3
<1>9. Ordered(s)  BY <1>3, <1>5, <1>7, <1>8 DEF Ordered
<1>10. s # << >> /\ s[1] = a[1]
  <2>1. 1 \in 1 .. Len(s) /\ 1 \in 1 .. Len(a)  BY <1>1, <1>8
  <2> QED  BY <1>4, <1>7, <2>1
<1>11. ToSet(u) = ToSet(a) \cup ToSet(b)
  <2>1. ToSet(a) = {a[i] : i \in 1 .. Len(a)} /\ ToSet(b) = {b[i] : i \in 1 .. Len(b)}
        /\ ToSet(u) = {u[i] : i \in 1 .. Len(u)}
    BY <1>1, <1>3 DEF ToSet
  <2> QED  BY <1>4, <2>1
<1>12. ToSet(s) \subseteq ToSet(u)  BY <1>3, <1>7, <1>8 DEF ToSet
<1>13. ASSUME NEW x \in ToSet(u)  PROVE x \in ToSet(s) \/ s[Len(s)] < x
  <2>1. PICK k \in 1 .. Len(u) : u[k] = x  BY <1>3 DEF ToSet
  <2>2. CASE k <= Len(s)
    <3>1. k \in 1 .. Len(s)  BY <1>8, <2>2
    <3> QED  BY <1>7, <1>8, <2>1, <3>1 DEF ToSet
  <2>3. CASE ~(k <= Len(s))
    <3>1. Len(s) < k /\ Len(s) \in 1 .. Len(s)  BY <1>8, <2>3
    <3>2. s[Len(s)] = u[Len(s)]  BY <1>7, <3>1
    <3> QED  BY <1>3, <1>5, <1>8, <2>1, <3>1, <3>2 DEF Ordered
  <2> QED  BY <2>2, <2>3
<1> QED  BY <1>7, <1>9, <1>10, <1>11, <1>12, <1>13 DEF s, u

\* The steps that there are without live logs.
Scrolls ==
  \/ ClearLogs \/ ClearReturns \/ Disconnect \/ Reconnect \/ ReceiveCleared
  \/ \E f \in scenario.filters : FilterChanges(f)
  \/ Effect \/ PageExecuted \/ PageArrives \/ LoadMore \/ OlderExecuted \/ OlderArrives
  \/ Pause \/ Resume

(* Nothing else can happen.                                                *)
LEMMA OnlyScrolls ==
  ASSUME TypeOK, OnlyPages, Still, [Next]_vars
  PROVE  scenario' = scenario /\ (Scrolls \/ UNCHANGED running)
<1>1. "live" \notin scenario.may /\ "away" \notin scenario.may  BY DEF OnlyPages
<1>2. ~ \E r \in Ids : Start(r) \/ Store(r) \/ Announce(r) \/ Age(r)
  BY <1>1 DEF Start, Store, Announce, Age, Still
<1>3. ~ReceiveStart /\ ~ReceiveEnd
  <2>1. inbox # << >> => Head(inbox) = inbox[1] /\ 1 \in DOMAIN inbox  BY DEF TypeOK
  <2> QED  BY <2>1 DEF ReceiveStart, ReceiveEnd, Still
<1>4. ~Flush /\ ~Return /\ ~RefreshExecuted /\ ~RefreshArrives
  BY <1>1 DEF Flush, Return, RefreshExecuted, RefreshArrives, Still
<1>5. scenario' = scenario  BY DEF Next, vars
<1>6. CASE UNCHANGED vars  BY <1>6 DEF vars
<1>7. CASE Next  BY <1>2, <1>3, <1>4, <1>5, <1>7 DEF Next, Scrolls
<1> QED  BY <1>6, <1>7

(* Rows are only removed, and what is removed stays away.                  *)
LEMMA StillStep ==
  ASSUME TypeOK, Still, Scrolls \/ UNCHANGED running
  PROVE  Still' /\ rows' \subseteq rows
<1> USE DEF serverVars, socketVars, bufferVars, storeVars, loaderVars, userVars, restVars
<1> DEFINE Same == UNCHANGED <<phase, removes, adds, ends, heard, stale, refresh>>
<1>1. CASE Same /\ UNCHANGED <<inbox, rows, wiped, clearing>>
  BY <1>1 DEF Still
<1>2. CASE ClearLogs
  <2> DEFINE m == Message("logs_cleared", 0, rows)
  <2>1. m \in MessageType /\ m.type = "logs_cleared" 
    BY DEF Message, MessageType, TypeOK
  <2> HIDE DEF m
  <2>2. Same /\ Tell(m) /\ rows' = {}  BY <1>2 DEF ClearLogs, m
  <2>3. /\ \A i \in DOMAIN inbox : inbox'[i] = inbox[i]
        /\ \A i \in DOMAIN inbox' : i \notin DOMAIN inbox => inbox'[i] = m
    BY <2>1, <2>2, Told
  <2>4. \A i \in DOMAIN inbox' : inbox'[i].type = "logs_cleared"
    BY <2>1, <2>3 DEF Still
  <2> QED  BY <2>2, <2>4 DEF Still
<1>3. CASE ClearReturns
  <2>1. Same /\ UNCHANGED <<inbox, rows>> /\ clearing' = {} /\ wiped' = wiped \cup clearing
    BY <1>3 DEF ClearReturns
  <2> QED  BY <2>1 DEF Still
<1>4. CASE Disconnect
  <2>1. Same /\ UNCHANGED <<rows, wiped, clearing>> /\ inbox' = << >>
    BY <1>4 DEF Disconnect
  <2> QED  BY <2>1 DEF Still
<1>5. CASE ReceiveCleared
  <2>1. /\ inbox # << >> /\ inbox' = Tail(inbox) /\ UNCHANGED <<phase, rows, clearing>>
        /\ UNCHANGED <<heard, stale, refresh>> /\ adds' = << >> /\ removes' = << >>
        /\ ends' = << >> /\ wiped' = wiped \cup Head(inbox).gone
    BY <1>5 DEF ReceiveCleared, EmptyBuffers
  <2>2. /\ \A i \in DOMAIN inbox' : i + 1 \in DOMAIN inbox /\ inbox'[i] = inbox[i + 1]
        /\ Head(inbox) = inbox[1] /\ 1 \in DOMAIN inbox
    BY <2>1, Received
  <2>3. Head(inbox).gone \cap rows = {}  BY <2>2 DEF Still
  <2> QED  BY <2>1, <2>2, <2>3 DEF Still
<1>6. CASE Resume
  <2>1. Same /\ UNCHANGED <<inbox, rows, wiped, clearing>>  BY <1>6 DEF Resume, Still
  <2> QED  BY <1>1, <2>1
<1>7. CASE Reconnect \/ Pause \/ \E f \in scenario.filters : FilterChanges(f)
  BY <1>1, <1>7 DEF Reconnect, Pause, FilterChanges
<1>8. CASE Effect \/ PageExecuted \/ PageArrives \/ LoadMore \/ OlderExecuted \/ OlderArrives
  BY <1>1, <1>8 DEF Effect, PageExecuted, PageArrives, LoadMore, OlderExecuted, OlderArrives
<1>9. CASE UNCHANGED running  BY <1>1, <1>9 DEF running
<1> QED  BY <1>2, <1>3, <1>4, <1>5, <1>6, <1>7, <1>8, <1>9 DEF Scrolls

(* A page fits in the list as it is.                                       *)
LEMMA PageFits ==
  ASSUME NEW s \in Seq(Ids), Len(s) <= PageSize
  PROVE  Newest(s, MaxLogs) = s
<1>1. PageSize \in Nat /\ MaxLogs \in Nat /\ PageSize <= MaxLogs  BY FeedAssumption
<1>2. Len(s) \in Nat /\ ~(Len(s) > MaxLogs)  BY <1>1
<1>3. Newest(s, MaxLogs) = SubSeq(s, 1, Len(s))  BY <1>2 DEF Newest
<1> QED  BY <1>2, <1>3

(* The former generation's fetch.                                          *)
LEMMA OutdatedIs ==
  ASSUME NEW q \in FetchType
  PROVE  LET u == Outdated(q) IN
         /\ u.outdated = TRUE /\ u.pc = q.pc /\ u.ok = q.ok /\ u.rows = q.rows
         /\ u.filter = q.filter /\ u.cursor = q.cursor
<1> QED  BY DEF FetchType, Outdated

(* What the list becomes when older rows are merged into it.               *)
LEMMA MergedIs ==
  ASSUME TypeOK, Loading, older.pc = "answered", older.ok, Merges, older.rows # << >>
  PROVE  LET a == older.rows
             s == Oldest(a \o logs, MaxLogs)
         IN  /\ s \in Seq(Ids) /\ Ordered(s) /\ s # << >> /\ s[1] = a[1]
             /\ ToSet(s) \subseteq ToSet(a) \cup ToSet(logs)
             /\ \A x \in ToSet(a) \cup ToSet(logs) : x \in ToSet(s) \/ s[Len(s)] < x
<1>1. older.rows \in Seq(Ids) /\ logs \in Seq(Ids)  BY DEF TypeOK, FetchType
<1>2. Covers(rows, older.rows, older.filter, older.cursor)  BY DEF Loading, Answered
<1>3. Ordered(older.rows) /\ Ordered(logs)  BY <1>2 DEF Covers, Loading
<1>4. \A i \in DOMAIN older.rows : logs # << >> => older.rows[i] < logs[1]
  BY <1>2 DEF Covers, Loading
<1> QED  BY <1>1, <1>3, <1>4, Joined

(* The two fetches are what they should be after every step.               *)
LEMMA LoadingStep ==
  ASSUME TypeOK, Loading, rows' \subseteq rows, Scrolls \/ UNCHANGED running, Still
  PROVE  Loading'
<1> USE DEF serverVars, socketVars, bufferVars, storeVars, loaderVars, userVars, restVars
<1>1. Answered(rows', page) /\ Answered(rows', older)  BY AnsweredOn DEF Loading
<1>2. Answered(rows', NoFetch) /\ NoFetch.pc = "idle"  BY DEF Answered, NoFetch
<1>3. \A f, c : LET q == Fetch(f, c) IN
        /\ Answered(rows', q) /\ q.pc = "sent" /\ q.cursor = c /\ ~q.outdated
        /\ q.rows = << >> /\ q.filter = Params(f)
  BY DEF Answered, Fetch
<1>4. Ordered(<< >>)  BY DEF Ordered
<1>5. {page, older} \subseteq FetchType /\ logs \in Seq(Ids)  BY DEF TypeOK
<1>6. CASE UNCHANGED <<page, older, logs, hasMore, ready>>
  BY <1>1, <1>6 DEF Loading, Merges
<1>7. CASE ClearReturns \/ ReceiveCleared
  <2>1. /\ UNCHANGED <<page, older>> /\ logs' = << >> /\ hasMore' = TRUE /\ ready' = FALSE
    BY <1>7 DEF ClearReturns, ReceiveCleared, Reset
  <2> QED  BY <1>1, <1>4, <2>1 DEF Loading, Merges
<1>8. CASE Effect
  <2>1. /\ older' = IF older.pc = "idle" THEN older ELSE Outdated(older)
        /\ logs' = << >>
        /\ \/ page' = NoFetch
           \/ ready' = FALSE /\ page' = Fetch(filter, 0)
    BY <1>8 DEF Effect, Reset
  <2>2. Answered(rows', older') /\ ~Merges'
    <3>1. CASE older.pc = "idle"  BY <1>1, <2>1, <3>1 DEF Merges
    <3>2. CASE older.pc # "idle"
      <4>1. /\ older'.outdated = TRUE /\ older'.pc = older.pc /\ older'.ok = older.ok
            /\ older'.rows = older.rows /\ older'.filter = older.filter
            /\ older'.cursor = older.cursor
        BY <1>5, <2>1, <3>2, OutdatedIs
      <4> QED  BY <1>1, <4>1 DEF Merges, Answered
    <3> QED  BY <3>1, <3>2
  <2>3. Answered(rows', page') /\ (ready' => page'.pc = "idle")
        /\ (page'.pc # "idle" => page'.cursor = 0)
    BY <1>2, <1>3, <2>1
  <2> QED  BY <1>4, <2>1, <2>2, <2>3 DEF Loading
<1>9. CASE PageExecuted
  <2>1. /\ page.pc = "sent" /\ page' \in Answers(page)
        /\ UNCHANGED <<rows, older, logs, hasMore, ready>>
    BY <1>9 DEF PageExecuted
  <2>2. /\ Answered(rows, page') /\ page'.pc = "answered" /\ page'.cursor = page.cursor
    BY <1>5, <2>1, Executed DEF Loading
  <2> QED  BY <1>1, <2>1, <2>2 DEF Loading, Merges
<1>10. CASE PageArrives
  <2>1. /\ page.pc = "answered" /\ page' = NoFetch /\ UNCHANGED <<rows, older>>
        /\ IF page.ok THEN logs' = Newest(page.rows, MaxLogs) ELSE logs' = logs
    BY <1>10 DEF PageArrives, ShowPage
  <2>2. ~Merges'  BY <2>1 DEF Loading, Merges
  <2>3. Ordered(logs')
    <3>1. CASE page.ok
      <4>1. Covers(rows, page.rows, page.filter, page.cursor)
        BY <2>1, <3>1 DEF Loading, Answered
      <4>2. page.rows \in Seq(Ids)  BY <1>5 DEF FetchType
      <4>3. logs' = page.rows  BY <2>1, <3>1, <4>1, <4>2, PageFits DEF Covers
      <4> QED  BY <4>1, <4>3 DEF Covers
    <3>2. CASE ~page.ok  BY <2>1, <3>2 DEF Loading
    <3> QED  BY <3>1, <3>2
  <2> QED  BY <1>1, <1>2, <2>1, <2>2, <2>3 DEF Loading
<1>11. CASE LoadMore
  <2>1. /\ hasMore /\ ready /\ older' = Fetch(filter, Cursor)
        /\ UNCHANGED <<rows, page, logs, hasMore, ready>>
    BY <1>11 DEF LoadMore, MayLoadMore
  <2>2. logs # << >> => Cursor = logs[1] /\ Cursor # 0
    <3>1. ASSUME logs # << >>  PROVE logs[1] \in Ids  BY <1>5, <3>1
    <3>2. 0 \notin Ids  BY FeedAssumption DEF Ids
    <3> QED  BY <3>1, <3>2 DEF Cursor
  <2>3. Answered(rows', older') /\ older'.cursor = Cursor  BY <1>3, <2>1
  <2> QED  BY <1>1, <2>1, <2>2, <2>3 DEF Loading, Merges
<1>12. CASE OlderExecuted
  <2>1. /\ older.pc = "sent" /\ older' \in Answers(older)
        /\ UNCHANGED <<rows, page, logs, hasMore, ready>>
    BY <1>12 DEF OlderExecuted
  <2>2. /\ Answered(rows, older') /\ older'.pc = "answered"
        /\ older'.cursor = older.cursor /\ older'.outdated = older.outdated
    BY <1>5, <2>1, Executed DEF Loading
  <2> QED  BY <1>1, <2>1, <2>2 DEF Loading, Merges
<1>13. CASE OlderArrives
  <2>1. /\ older.pc = "answered" /\ older' = NoFetch /\ UNCHANGED <<rows, page, ready>>
        /\ \/ logs' = logs
           \/ /\ older.ok /\ ~older.outdated /\ older.rows # << >>
              /\ logs' = Oldest(older.rows \o logs, MaxLogs)
    BY <1>13 DEF OlderArrives
  <2>2. ~Merges'  BY <1>2, <2>1 DEF Merges
  <2>3. Ordered(logs')
    <3>1. CASE logs' = logs  BY <3>1 DEF Loading
    <3>2. CASE /\ older.ok /\ ~older.outdated /\ older.rows # << >>
               /\ logs' = Oldest(older.rows \o logs, MaxLogs)
      <4>1. Merges  BY <2>1, <3>2 DEF Merges
      <4> QED  BY <2>1, <3>2, <4>1, MergedIs
    <3> QED  BY <2>1, <3>1, <3>2
  <2> QED  BY <1>1, <1>2, <2>1, <2>2, <2>3 DEF Loading
<1>14. CASE \/ ClearLogs \/ Disconnect \/ Reconnect \/ Pause \/ Resume
            \/ \E f \in scenario.filters : FilterChanges(f)
  BY <1>6, <1>14 DEF ClearLogs, Disconnect, Reconnect, Pause, Resume, FilterChanges
<1>15. CASE UNCHANGED running  BY <1>6, <1>15 DEF running
<1> QED
  BY <1>7, <1>8, <1>9, <1>10, <1>11, <1>12, <1>13, <1>14, <1>15 DEF Scrolls

(* What holds of the list for some rows holds for fewer of them.           *)
LEMMA ListOn ==
  ASSUME NEW s, NEW f, NEW R, NEW Q, Q \subseteq R
  PROVE  /\ NoGap(s, f, R) => NoGap(s, f, Q)
         /\ ReachesAll(s, f, R) => ReachesAll(s, f, Q)
<1> QED  BY DEF NoGap, ReachesAll

\* So does the list, while nothing else changes.
LEMMA CurrentOn ==
  ASSUME Current, rows' \subseteq rows,
         UNCHANGED <<page, older, logs, hasMore, lastCursor, filter, wiped>>
  PROVE  Current'
<1>1. /\ NoGap(logs, filter, rows) => NoGap(logs, filter, rows')
      /\ ReachesAll(logs, filter, rows) => ReachesAll(logs, filter, rows')
  BY ListOn
<1> QED  BY <1>1 DEF Current, Reaches, Merges

(* The first page has no gap, and reaches the oldest row if it is not full. *)
LEMMA FirstPage ==
  ASSUME NEW s \in Seq(Ids), NEW f, Covers(rows, s, f, 0), rows \subseteq Ids
  PROVE  NoGap(s, f, rows) /\ (~(Len(s) >= PageSize) => ReachesAll(s, f, rows))
<1>1. \A r \in rows : Matches(r, f) => r \in ToSet(s) \/ (Len(s) >= PageSize /\ r < s[1])
  BY DEF Covers
<1>2. \A r \in rows : r \in Nat
  <2>1. Requests \in Nat  BY FeedAssumption
  <2> QED  BY <2>1 DEF Ids
<1>3. s # << >> => s[1] \in Nat
  <2>1. ASSUME s # << >>  PROVE s[1] \in Ids  BY <2>1
  <2> QED  BY <2>1, FeedAssumption DEF Ids
<1>4. NoGap(s, f, rows)  BY <1>1, <1>2, <1>3 DEF NoGap
<1>5. ASSUME ~(Len(s) >= PageSize)  PROVE ReachesAll(s, f, rows)
  <2>1. \A r \in rows : Matches(r, f) => r \in ToSet(s)  BY <1>1, <1>5
  <2> QED  BY <1>2, <2>1 DEF ReachesAll, ToSet
<1> QED  BY <1>4, <1>5

(* Nor has the list after older rows are merged into it.                   *)
LEMMA MergedCurrent ==
  ASSUME TypeOK, Loading, Current, older.pc = "answered", older.ok, Merges,
         older.rows # << >>
  PROVE  LET a == older.rows
             s == Oldest(a \o logs, MaxLogs)
         IN  /\ Belong(s, filter, wiped) /\ NoGap(s, filter, rows)
             /\ older.cursor = 0 \/ s[1] < older.cursor
             /\ ~(Len(a) >= PageSize) => ReachesAll(s, filter, rows)
<1> DEFINE a == older.rows
           c == older.cursor
           s == Oldest(a \o logs, MaxLogs)
<1>1. /\ s \in Seq(Ids) /\ Ordered(s) /\ s # << >> /\ s[1] = a[1]
      /\ ToSet(s) \subseteq ToSet(a) \cup ToSet(logs)
      /\ \A x \in ToSet(a) \cup ToSet(logs) : x \in ToSet(s) \/ s[Len(s)] < x
  BY MergedIs
<1>2. Covers(rows, a, filter, c)  BY DEF Loading, Answered, Current
<1>3. logs # << >> => c # 0 /\ logs[1] = c  BY DEF Loading
<1>4. c # 0 => logs # << >>  BY DEF Current
<1>5. a \in Seq(Ids) /\ logs \in Seq(Ids) /\ a # << >> /\ c \in 0 .. Requests /\ rows \subseteq Ids
  BY DEF TypeOK, FetchType
<1>6. ToSet(a) \cap wiped = {}  BY DEF Current
<1>7. filter # "pendingOnly" /\ Belong(logs, filter, wiped) /\ NoGap(logs, filter, rows)
  <2>1. hasMore  BY DEF Loading
  <2> QED  BY <2>1 DEF Current
<1> HIDE DEF a, c, s
<1>8. /\ \A i \in DOMAIN a : a[i] \in Nat
      /\ \A i \in DOMAIN s : s[i] \in Nat
      /\ \A i \in DOMAIN logs : logs[i] \in Nat
      /\ \A r \in rows : r \in Nat
      /\ c \in Nat
  <2>1. Requests \in Nat  BY FeedAssumption
  <2>2. \A x \in Ids : x \in Nat  BY <2>1 DEF Ids
  <2>3. \A t \in Seq(Ids) : \A i \in DOMAIN t : t[i] \in Ids  OBVIOUS
  <2> QED  BY <1>1, <1>5, <2>1, <2>2, <2>3
<1>9. 1 \in DOMAIN a /\ 1 \in DOMAIN s /\ Len(s) \in DOMAIN s /\ Len(s) \in Nat
      /\ (logs # << >> => 1 \in DOMAIN logs /\ Len(logs) \in DOMAIN logs)
      /\ DOMAIN s = 1 .. Len(s) /\ DOMAIN logs = 1 .. Len(logs)
  BY <1>1, <1>5
<1>10. /\ \A x \in ToSet(a) : Matches(x, filter) /\ x \notin wiped /\ (c # 0 => x < c)
       /\ \A x \in ToSet(logs) : Matches(x, filter) /\ x \notin wiped
  BY <1>2, <1>6, <1>7 DEF Covers, Belong, ToSet
<1>11. Belong(s, filter, wiped)  BY <1>1, <1>10 DEF Belong, ToSet
<1>12. c = 0 \/ s[1] < c  BY <1>1, <1>9, <1>10 DEF ToSet
<1>13. \A x \in ToSet(s) : x <= s[Len(s)] /\ x \in Nat
  <2> SUFFICES ASSUME NEW i \in DOMAIN s  PROVE s[i] <= s[Len(s)] /\ s[i] \in Nat
    BY DEF ToSet
  <2>1. s[i] \in Nat /\ s[Len(s)] \in Nat  BY <1>1, <1>8, <1>9
  <2>2. i = Len(s) \/ i < Len(s)  BY <1>9
  <2> QED  BY <1>1, <1>9, <2>1, <2>2 DEF Ordered
<1>14. logs # << >> => \A x \in ToSet(logs) : x <= logs[Len(logs)] /\ x \in Nat
  <2> SUFFICES ASSUME logs # << >>, NEW i \in DOMAIN logs
               PROVE  logs[i] <= logs[Len(logs)] /\ logs[i] \in Nat
    BY DEF ToSet
  <2>1. logs[i] \in Nat /\ logs[Len(logs)] \in Nat  BY <1>5, <1>8, <1>9
  <2>2. i = Len(logs) \/ i < Len(logs)  BY <1>9
  <2> QED  BY <1>9, <2>1, <2>2 DEF Ordered, Loading
\* A row of the filter that is not older than the new list is in one of the two lists, or
\* newer than both.
<1>15. ASSUME NEW r \in rows, Matches(r, filter)
       PROVE  \/ r \in ToSet(a) \cup ToSet(logs)
              \/ Len(a) >= PageSize /\ r < a[1]
              \/ logs # << >> /\ r > logs[Len(logs)]
  <2>1. r \in Nat  BY <1>5, <1>8
  <2>2. CASE c = 0 \/ r < c  BY <1>2, <1>15, <2>2 DEF Covers
  <2>3. CASE c # 0 /\ ~(r < c)
    <3>1. logs # << >> /\ logs[1] = c  BY <1>3, <1>4, <2>3
    <3>2. c \in Nat /\ logs[Len(logs)] \in Nat  BY <1>5, <1>8, <1>9, <3>1
    <3>3. CASE r = c  BY <1>9, <3>1, <3>3 DEF ToSet
    <3>4. CASE r > c /\ r < logs[Len(logs)]  BY <1>7, <1>15, <3>1, <3>4 DEF NoGap
    <3>5. CASE r = logs[Len(logs)]  BY <1>9, <3>1, <3>5 DEF ToSet
    <3> QED  BY <2>1, <2>3, <3>1, <3>2, <3>3, <3>4, <3>5
  <2> QED  BY <2>2, <2>3
<1>16. \A x \in ToSet(a) : logs # << >> => x < logs[Len(logs)]
  <2> SUFFICES ASSUME NEW x \in ToSet(a), logs # << >>  PROVE x < logs[Len(logs)]  OBVIOUS
  <2>1. x < c /\ c = logs[1]  BY <1>3, <1>10
  <2>2. logs[1] \in ToSet(logs)  BY <1>9 DEF ToSet
  <2>3. c <= logs[Len(logs)] /\ c \in Nat  BY <1>14, <2>1, <2>2
  <2>4. x \in Nat /\ logs[Len(logs)] \in Nat
    <3>1. ToSet(a) \subseteq Nat  BY <1>5, <1>8 DEF ToSet
    <3> QED  BY <1>5, <1>8, <1>9, <3>1
  <2> QED  BY <2>1, <2>3, <2>4
<1>17. logs # << >> => s[Len(s)] <= logs[Len(logs)]
  <2> SUFFICES ASSUME logs # << >>  PROVE s[Len(s)] <= logs[Len(logs)]  OBVIOUS
  <2>1. s[Len(s)] \in ToSet(a) \cup ToSet(logs)  BY <1>1, <1>9 DEF ToSet
  <2>2. s[Len(s)] \in Nat /\ logs[Len(logs)] \in Nat  BY <1>1, <1>5, <1>8, <1>9
  <2> QED  BY <1>14, <1>16, <2>1, <2>2
<1>18. NoGap(s, filter, rows)
  <2> SUFFICES ASSUME NEW r \in rows, Matches(r, filter), r > s[1], r < s[Len(s)]
               PROVE  r \in ToSet(s)
    BY DEF NoGap
  <2>1. r \in Nat /\ s[1] \in Nat /\ s[Len(s)] \in Nat  BY <1>1, <1>5, <1>8, <1>9
  <2>2. ~(r < a[1])  BY <1>1, <2>1
  <2>3. ~(logs # << >> /\ r > logs[Len(logs)])
    <3>1. logs # << >> => logs[Len(logs)] \in Nat  BY <1>5, <1>8, <1>9
    <3> QED  BY <1>17, <2>1, <3>1
  <2>4. r \in ToSet(a) \cup ToSet(logs)  BY <1>15, <2>2, <2>3
  <2> QED  BY <1>1, <2>1, <2>4
<1>19. ASSUME ~(Len(a) >= PageSize)  PROVE ReachesAll(s, filter, rows)
  <2> SUFFICES ASSUME NEW r \in rows, Matches(r, filter)  PROVE s[1] <= r
    BY <1>9 DEF ReachesAll
  <2>1. r \in Nat /\ s[1] \in Nat /\ s[Len(s)] \in Nat /\ s[1] \in ToSet(s)
    BY <1>1, <1>5, <1>8, <1>9 DEF ToSet
  <2>2. s[1] <= s[Len(s)]  BY <1>13, <2>1
  <2>3. CASE r \in ToSet(a) \cup ToSet(logs)
    <3>1. CASE r \in ToSet(s)
      <4>1. PICK i \in DOMAIN s : s[i] = r  BY <3>1 DEF ToSet
      <4>2. i = 1 \/ 1 < i  BY <1>9
      <4> QED  BY <1>1, <1>9, <2>1, <4>1, <4>2 DEF Ordered
    <3>2. CASE s[Len(s)] < r  BY <2>1, <2>2, <3>2
    <3> QED  BY <1>1, <2>3, <3>1, <3>2
  <2>4. CASE logs # << >> /\ r > logs[Len(logs)]
    <3>1. logs[Len(logs)] \in Nat  BY <1>5, <1>8, <1>9, <2>4
    <3> QED  BY <1>17, <2>1, <2>2, <2>4, <3>1
  <2> QED  BY <1>15, <1>19, <2>3, <2>4
<1> QED  BY <1>11, <1>12, <1>18, <1>19 DEF a, c, s

(* The list and the fetches are those of the filter, whenever no effect is *)
(* due.                                                                    *)
LEMMA CurrentStep ==
  ASSUME TypeOK, Still, Loading, ~effectDue => Current, Scrolls \/ UNCHANGED running,
         rows' \subseteq rows, ~effectDue'
  PROVE  Current'
<1> USE DEF serverVars, socketVars, bufferVars, storeVars, loaderVars, userVars, restVars
<1>1. {page, older} \subseteq FetchType /\ logs \in Seq(Ids) /\ rows \subseteq Ids
  BY DEF TypeOK
<1>2. NoFetch.pc = "idle" /\ ToSet(<< >>) = {}  BY DEF NoFetch, ToSet
<1>3. \A f, c : LET q == Fetch(f, c) IN
        q.pc = "sent" /\ q.cursor = c /\ ~q.outdated /\ q.rows = << >> /\ q.filter = Params(f)
  BY DEF Fetch
<1>4. CASE UNCHANGED <<page, older, logs, hasMore, lastCursor, filter, wiped, effectDue>>
  BY <1>4, CurrentOn
<1>5. ~ClearReturns /\ ~ReceiveCleared /\ \A f : ~FilterChanges(f)
  BY DEF ClearReturns, ReceiveCleared, FilterChanges
<1>6. CASE Effect
  <2>1. /\ older' = IF older.pc = "idle" THEN older ELSE Outdated(older)
        /\ logs' = << >> /\ lastCursor' = 0 /\ filter' = filter
        /\ \/ filter = "pendingOnly" /\ page' = NoFetch /\ hasMore' = FALSE
           \/ filter # "pendingOnly" /\ page' = Fetch(filter, 0) /\ hasMore' = TRUE
    BY <1>6 DEF Effect, Reset
  <2>2. ~Merges'
    <3>1. CASE older.pc = "idle"  BY <2>1, <3>1 DEF Merges
    <3>2. CASE older.pc # "idle"
      <4>1. older'.outdated = TRUE  BY <1>1, <2>1, <3>2, OutdatedIs
      <4> QED  BY <4>1 DEF Merges
    <3> QED  BY <3>1, <3>2
  <2>3. page'.pc # "idle" => /\ filter # "pendingOnly" /\ page'.filter = filter
                             /\ hasMore' /\ page'.rows = << >>
    BY <1>2, <1>3, <2>1 DEF Params
  <2>4. Belong(logs', filter', wiped') /\ NoGap(logs', filter', rows')
    BY <2>1 DEF Belong, NoGap
  <2>5. filter' # "pendingOnly" => Reaches'  BY <2>1 DEF Reaches
  <2> QED  BY <1>2, <2>1, <2>2, <2>3, <2>4, <2>5 DEF Current
<1>7. CASE PageExecuted
  <2>1. /\ page.pc = "sent" /\ page' \in Answers(page)
        /\ UNCHANGED <<rows, older, logs, hasMore, lastCursor, filter, wiped, effectDue>>
    BY <1>7 DEF PageExecuted
  <2>2. ToSet(page'.rows) \subseteq rows /\ page'.filter = page.filter
    BY <1>1, <2>1, Executed DEF Loading
  <2>3. ToSet(page'.rows) \cap wiped = {}  BY <2>2 DEF Still
  <2> QED  BY <2>1, <2>2, <2>3 DEF Current, Merges, Reaches
<1>8. CASE PageArrives
  <2>1. /\ page.pc = "answered" /\ page' = NoFetch
        /\ UNCHANGED <<rows, older, lastCursor, filter, wiped, effectDue>>
        /\ IF page.ok THEN logs' = Newest(page.rows, MaxLogs)
                           /\ hasMore' = (Len(page.rows) >= PageSize)
                      ELSE logs' = logs /\ hasMore' = hasMore
    BY <1>8 DEF PageArrives, ShowPage
  <2>2. Current  BY <2>1
  <2>3. /\ filter # "pendingOnly" /\ page.filter = filter /\ lastCursor = 0 /\ hasMore
        /\ ToSet(page.rows) \cap wiped = {} /\ page.cursor = 0
    BY <2>1, <2>2 DEF Current, Loading
  <2>4. ~Merges'  BY <2>1 DEF Loading, Merges
  <2>5. CASE page.ok
    <3>1. Covers(rows, page.rows, filter, 0)
      BY <2>1, <2>3, <2>5 DEF Loading, Answered
    <3>2. page.rows \in Seq(Ids)  BY <1>1 DEF FetchType
    <3>3. logs' = page.rows  BY <2>1, <2>5, <3>1, <3>2, PageFits DEF Covers
    <3>4. /\ NoGap(logs', filter, rows)
          /\ ~(Len(page.rows) >= PageSize) => ReachesAll(logs', filter, rows)
      BY <1>1, <3>1, <3>2, <3>3, FirstPage
    <3>5. Belong(logs', filter, wiped)
      BY <2>3, <3>1, <3>3 DEF Belong, Covers, ToSet
    <3>6. Reaches'  BY <2>1, <2>3, <2>5, <3>4 DEF Reaches
    <3> QED  BY <1>2, <2>1, <2>3, <2>4, <3>4, <3>5, <3>6 DEF Current
  <2>6. CASE ~page.ok
    <3>1. UNCHANGED <<rows, logs, hasMore, lastCursor, filter, wiped>>  BY <2>1, <2>6
    <3>2. Belong(logs, filter, wiped) /\ NoGap(logs, filter, rows) /\ Reaches
      BY <2>2, <2>3 DEF Current
    <3>3. Reaches'  BY <3>1, <3>2 DEF Reaches
    <3> QED  BY <1>2, <2>1, <2>3, <2>4, <3>1, <3>2, <3>3 DEF Current
  <2> QED  BY <2>5, <2>6
<1>9. CASE LoadMore
  <2>1. /\ hasMore /\ ready /\ older' = Fetch(filter, Cursor)
        /\ UNCHANGED <<rows, page, logs, hasMore, lastCursor, filter, wiped, effectDue>>
    BY <1>9 DEF LoadMore, MayLoadMore
  <2>2. Current  BY <2>1
  <2>3. filter # "pendingOnly"  BY <2>1, <2>2 DEF Current
  <2>4. /\ older'.filter = filter /\ older'.rows = << >>
        /\ older'.cursor # 0 => logs # << >>
    BY <1>3, <2>1, <2>3 DEF Params, Cursor
  <2> QED  BY <1>2, <2>1, <2>2, <2>4 DEF Current, Reaches
<1>10. CASE OlderExecuted
  <2>1. /\ older.pc = "sent" /\ older' \in Answers(older)
        /\ UNCHANGED <<rows, page, logs, hasMore, lastCursor, filter, wiped, effectDue>>
    BY <1>10 DEF OlderExecuted
  <2>2. /\ ToSet(older'.rows) \subseteq rows /\ older'.filter = older.filter
        /\ older'.cursor = older.cursor /\ older'.outdated = older.outdated
    BY <1>1, <2>1, Executed DEF Loading
  <2>3. ToSet(older'.rows) \cap wiped = {}  BY <2>2 DEF Still
  <2> QED  BY <2>1, <2>2, <2>3 DEF Current, Merges, Reaches
<1>11. CASE OlderArrives
  <2>1. /\ older.pc = "answered" /\ older' = NoFetch
        /\ UNCHANGED <<rows, page, filter, wiped, effectDue>>
    BY <1>11 DEF OlderArrives
  <2>2. Current /\ ~Merges'  BY <1>2, <2>1 DEF Merges
  <2>3. CASE UNCHANGED <<logs, hasMore, lastCursor>>
    BY <2>1, <2>2, <2>3 DEF Current, Reaches
  <2>4. CASE /\ older.ok /\ ~older.outdated /\ lastCursor' = older.cursor
             /\ logs' = (IF older.rows = << >> THEN logs
                         ELSE Oldest(older.rows \o logs, MaxLogs))
             /\ hasMore' = (hasMore /\ Len(older.rows) >= PageSize)
    <3>1. Merges /\ page.pc = "idle" /\ hasMore /\ filter # "pendingOnly"
          /\ older.filter = filter
      BY <2>1, <2>2, <2>4 DEF Merges, Loading, Current
    <3>2. Covers(rows, older.rows, filter, older.cursor)
      BY <2>1, <2>4, <3>1 DEF Loading, Answered
    <3>3. CASE older.rows = << >>
      <4>1. logs' = logs /\ ~hasMore'
        <5>1. PageSize \in Nat \ {0} /\ Len(older.rows) = 0  BY <3>3, FeedAssumption
        <5>2. ~(Len(older.rows) >= PageSize)  BY <5>1
        <5>3. ~hasMore'  BY <2>4, <5>2
        <5> QED  BY <2>4, <3>3, <5>3
      <4>2. Belong(logs, filter, wiped) /\ NoGap(logs, filter, rows)
        BY <2>2, <3>1 DEF Current
      <4>3. ReachesAll(logs, filter, rows)
        <5> SUFFICES ASSUME NEW r \in rows, Matches(r, filter)
                     PROVE  \E i \in DOMAIN logs : logs[i] <= r
          BY DEF ReachesAll
        <5>1. PageSize \in Nat \ {0} /\ Len(older.rows) = 0 /\ ToSet(older.rows) = {}
          BY <1>2, <3>3, FeedAssumption
        <5>2. older.cursor # 0 /\ ~(r < older.cursor)
          BY <3>2, <5>1 DEF Covers
        <5>3. logs # << >> /\ logs[1] = older.cursor
          BY <2>2, <3>1, <5>2 DEF Current, Loading
        <5>4. 1 \in DOMAIN logs  BY <1>1, <5>3
        <5>5. r \in Int /\ logs[1] \in Int
          <6>1. Requests \in Nat  BY FeedAssumption
          <6>2. \A x \in Ids : x \in Int  BY <6>1 DEF Ids
          <6> QED  BY <1>1, <5>4, <6>2
        <5> QED  BY <5>2, <5>3, <5>4, <5>5
      <4>4. Reaches'  BY <2>1, <4>1, <4>3 DEF Reaches
      <4> QED  BY <2>1, <2>2, <3>1, <4>1, <4>2, <4>4 DEF Current
    <3>4. CASE older.rows # << >>
      <4>1. /\ Belong(logs', filter, wiped) /\ NoGap(logs', filter, rows)
            /\ older.cursor = 0 \/ logs'[1] < older.cursor
            /\ ~(Len(older.rows) >= PageSize) => ReachesAll(logs', filter, rows)
        BY <2>1, <2>2, <2>4, <3>1, <3>4, MergedCurrent
      <4>2. Reaches'
        <5>1. hasMore' = (Len(older.rows) >= PageSize)  BY <2>4, <3>1
        <5> QED  BY <2>1, <2>4, <4>1, <5>1 DEF Reaches
      <4> QED  BY <2>1, <2>2, <3>1, <4>1, <4>2 DEF Current
    <3> QED  BY <3>3, <3>4
  <2> QED  BY <1>11, <2>3, <2>4 DEF OlderArrives
<1>12. CASE ClearLogs \/ Disconnect \/ Reconnect \/ Pause \/ Resume
  BY <1>4, <1>12 DEF ClearLogs, Disconnect, Reconnect, Pause, Resume
<1>13. CASE UNCHANGED running  BY <1>4, <1>13 DEF running
<1> QED
  BY <1>5, <1>6, <1>7, <1>8, <1>9, <1>10, <1>11, <1>12, <1>13 DEF Scrolls

(* The invariant of the list holds in every state.                         *)
LEMMA ExactAlways == Spec => []ExactInv
<1>1. Init => ExactInv
  <2> SUFFICES ASSUME Init PROVE ExactInv  OBVIOUS
  <2>1. TypeOK  BY TypeInit
  <2>2. /\ page = NoFetch /\ older = NoFetch /\ refresh = NoFetch /\ effectDue = TRUE
        /\ logs = << >> /\ ready = FALSE /\ inbox = << >> /\ wiped = {} /\ clearing = {}
        /\ removes = << >> /\ adds = << >> /\ ends = << >> /\ heard = FALSE /\ stale = FALSE
    BY DEF Init
  <2>3. \A r \in Ids : phase[r] \in {"new", "told"}  BY DEF Init
  <2>4. NoFetch.pc = "idle" /\ Answered(rows, NoFetch)  BY DEF NoFetch, Answered
  <2>5. Still  BY <2>2, <2>3, <2>4 DEF Still
  <2>6. Loading  BY <2>2, <2>4 DEF Loading, Merges, Ordered
  <2> QED  BY <2>1, <2>2, <2>5, <2>6 DEF ExactInv, Exact
<1>2. ExactInv /\ [Next]_vars => ExactInv'
  <2> SUFFICES ASSUME ExactInv, [Next]_vars PROVE ExactInv'  OBVIOUS
  <2>1. TypeOK /\ TypeOK'  BY TypeStep DEF ExactInv
  <2>2. ASSUME OnlyPages'  PROVE Exact'
    <3>1. scenario' = scenario  BY DEF Next, vars
    <3>2. OnlyPages  BY <2>2, <3>1 DEF OnlyPages
    <3>3. Still /\ Loading /\ (~effectDue => Current)  BY <3>2 DEF ExactInv, Exact
    <3>4. Scrolls \/ UNCHANGED running  BY <2>1, <3>2, <3>3, OnlyScrolls
    <3>5. Still' /\ rows' \subseteq rows  BY <2>1, <3>3, <3>4, StillStep
    <3>6. Loading'  BY <2>1, <3>3, <3>4, <3>5, LoadingStep
    <3>7. ~effectDue' => Current'  BY <2>1, <3>3, <3>4, <3>5, CurrentStep
    <3> QED  BY <3>5, <3>6, <3>7 DEF Exact
  <2> QED  BY <2>1, <2>2 DEF ExactInv
<1> QED  BY <1>1, <1>2, PTL DEF Spec

(* A page that resolves late is not merged into a list it does not belong  *)
(* to, and the list has no gap and no row twice (useLogLoader's generation *)
(* and AbortController, use-log-loader.ts:30): under every order of        *)
(* filters, clears, losses and answers.                                    *)
THEOREM AlwaysExact == Spec => []ListIsExact
<1>1. ExactInv => ListIsExact
  <2> SUFFICES ASSUME TypeOK, Exact  PROVE ListBelongs /\ Contiguous
    BY DEF ExactInv, ListIsExact
  <2>1. logs \in Seq(Ids)  BY DEF TypeOK
  <2>2. ListBelongs
    <3>1. CASE filter = "pendingOnly"  BY <3>1 DEF Exact, Current, ListBelongs
    <3>2. CASE filter # "pendingOnly"
      BY <3>2 DEF Exact, Current, ListBelongs, Belong
    <3> QED  BY <3>1, <3>2
  <2>3. Ordered(logs)  BY DEF Exact, Loading
  <2>4. ASSUME ~effectDue, logs # << >>, NEW r \in rows, Matches(r, filter), r > logs[1],
               r < logs[Len(logs)]
        PROVE  Contains(logs, r)
    <3>1. NoGap(logs, filter, rows)  BY <2>4 DEF Exact, Current
    <3>2. r \in ToSet(logs)  BY <2>4, <3>1 DEF NoGap
    <3> QED  BY <2>1, <3>2 DEF ToSet, Contains
  <2> QED  BY <2>2, <2>3, <2>4 DEF Contiguous, Ordered
<1> QED  BY <1>1, ExactAlways, PTL

(* Scrolling to the top reaches the oldest row: the guard against asking   *)
(* for a page twice never refuses a page that is there (loadMore,          *)
(* use-log-loader.ts:87), and hasMore is false only when there is none.    *)
THEOREM AlwaysScrolls == Spec => []ScrollReachesAll
<1>1. ExactInv => ScrollReachesAll
  <2> SUFFICES ASSUME TypeOK, Exact  PROVE ScrollGoesOn /\ NoMoreMeansAll
    BY DEF ExactInv, ScrollReachesAll
  <2>1. ASSUME MayLoadMore, ~effectDue, Cursor # 0  PROVE Cursor # lastCursor
    <3>1. logs # << >> /\ Cursor = logs[1] /\ hasMore  BY <2>1 DEF Cursor, MayLoadMore
    <3>2. lastCursor = 0 \/ logs[1] < lastCursor
      BY <2>1, <3>1 DEF Exact, Current, Reaches
    <3>3. lastCursor \in Int /\ logs[1] \in Int
      <4>1. Requests \in Nat  BY FeedAssumption
      <4>2. logs \in Seq(Ids) /\ lastCursor \in 0 .. Requests  BY DEF TypeOK
      <4>3. logs[1] \in Ids  BY <3>1, <4>2
      <4> QED  BY <4>1, <4>2, <4>3 DEF Ids
    <3> QED  BY <2>1, <3>1, <3>2, <3>3
  <2>2. NoMoreMeansAll  BY DEF Exact, Current, Reaches, ReachesAll, NoMoreMeansAll
  <2> QED  BY <2>1, <2>2 DEF ScrollGoesOn
<1> QED  BY <1>1, ExactAlways, PTL
=============================================================================
