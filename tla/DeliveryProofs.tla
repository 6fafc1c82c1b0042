---------------------------- MODULE DeliveryProofs ----------------------------
(***************************************************************************)
(* What the server hands out: the pages of stored logs, the export that is *)
(* made of them and the figures of what is stored (Paging), and the events *)
(* that it sends to the connected dashboards (Broadcast).  The two modules *)
(* share no state; their claim is the same: nothing is missing, and        *)
(* nothing is twice.                                                       *)
(*                                                                         *)
(* ExportExact needs SoFar, which says where each log is that an export    *)
(* owes: written, in the page it holds, or beyond its cursor.  FiguresTrue *)
(* needs only that no log is stored twice (Apart): a loop over logs then   *)
(* gives what SQL counts in their set, by the invariant Describes.  Of     *)
(* Broadcast, HeartbeatCovers and MemoryBounded are inductive with the     *)
(* types; NoOrphan and Gapless need Unadmitted: whoever listens has been a *)
(* client, and a connection that was not admitted has an empty queue.      *)
(***************************************************************************)
EXTENDS Paging, Broadcast, FiniteSetTheorems, TLAPS

-----------------------------------------------------------------------------
(* Listings.                                                               *)

\* A strict order in which any two elements of S are compared.
Orders(order, S) ==
  /\ \A x \in S : <<x, x>> \notin order
  /\ \A x, y, z \in S : <<x, y>> \in order /\ <<y, z>> \in order => <<x, z>> \in order
  /\ \A x, y \in S : x # y => <<x, y>> \in order \/ <<y, x>> \in order

(* An element's rank is less than those of the elements after it.          *)
LEMMA RankGrows ==
  ASSUME NEW S, IsFiniteSet(S), NEW order, Orders(order, S),
         NEW x \in S, NEW y \in S, <<x, y>> \in order
  PROVE  Rank(S, order, x) < Rank(S, order, y)
<1> DEFINE X == {z \in S : <<z, x>> \in order}
           Y == {z \in S : <<z, y>> \in order}
<1>1. IsFiniteSet(X) /\ IsFiniteSet(Y)  BY FS_Subset
<1>2. x \notin X /\ X \cup {x} \subseteq Y  BY DEF Orders
<1>3. Cardinality(X \cup {x}) = Cardinality(X) + 1  BY <1>1, <1>2, FS_AddElement
<1>4. Cardinality(X \cup {x}) <= Cardinality(Y)  BY <1>1, <1>2, FS_Subset
<1>5. Cardinality(X) \in Nat /\ Cardinality(Y) \in Nat  BY <1>1, FS_CardinalityType
<1> QED  BY <1>3, <1>4, <1>5 DEF Rank

(* The ranks of n elements are 0 to n - 1, each once.                      *)
LEMMA RanksAre ==
  ASSUME NEW S, IsFiniteSet(S), NEW order, Orders(order, S)
  PROVE  /\ Cardinality(S) \in Nat
         /\ \A x \in S : Rank(S, order, x) \in 0 .. Cardinality(S) - 1
         /\ \A x, y \in S : Rank(S, order, x) = Rank(S, order, y) => x = y
         /\ \A k \in 0 .. Cardinality(S) - 1 : \E x \in S : Rank(S, order, x) = k
<1> DEFINE n == Cardinality(S)
           f == [x \in S |-> Rank(S, order, x)]
<1>1. n \in Nat  BY FS_CardinalityType
<1>2. \A x \in S : Rank(S, order, x) \in 0 .. n - 1
  <2> SUFFICES ASSUME NEW x \in S PROVE Rank(S, order, x) \in 0 .. n - 1  OBVIOUS
  <2> DEFINE X == {z \in S : <<z, x>> \in order}
  <2>1. X \subseteq S /\ X # S  BY DEF Orders
  <2>2. IsFiniteSet(X) /\ Cardinality(X) <= n /\ Cardinality(X) # n  BY <2>1, FS_Subset
  <2>3. Cardinality(X) \in Nat  BY <2>2, FS_CardinalityType
  <2> QED  BY <1>1, <2>2, <2>3 DEF Rank
<1>3. \A x, y \in S : Rank(S, order, x) = Rank(S, order, y) => x = y
  <2> SUFFICES ASSUME NEW x \in S, NEW y \in S, x # y
               PROVE  Rank(S, order, x) # Rank(S, order, y)
    OBVIOUS
  <2>1. Rank(S, order, x) < Rank(S, order, y) \/ Rank(S, order, y) < Rank(S, order, x)
    BY RankGrows DEF Orders
  <2> QED  BY <1>1, <1>2, <2>1
<1>4. f \in Injection(S, 0 .. n - 1)  BY <1>2, <1>3 DEF Injection, IsInjective
<1>5. IsFiniteSet(0 .. n - 1) /\ Cardinality(0 .. n - 1) = n
  <2>1. /\ IsFiniteSet(0 .. n - 1)
        /\ Cardinality(0 .. n - 1) = IF 0 > n - 1 THEN 0 ELSE n - 1 - 0 + 1
    BY <1>1, FS_Interval
  <2> QED  BY <1>1, <2>1
<1>6. f \in Surjection(S, 0 .. n - 1)  BY <1>4, <1>5, FS_Injection
<1>7. \A k \in 0 .. n - 1 : \E x \in S : f[x] = k  BY <1>6 DEF Surjection
<1> QED  BY <1>1, <1>2, <1>3, <1>7

(* So elements are in the order of their ranks.                            *)
LEMMA RankOrders ==
  ASSUME NEW S, IsFiniteSet(S), NEW order, Orders(order, S),
         NEW x \in S, NEW y \in S, Rank(S, order, x) < Rank(S, order, y)
  PROVE  <<x, y>> \in order
<1>1. /\ Rank(S, order, x) \in 0 .. Cardinality(S) - 1
      /\ Rank(S, order, y) \in 0 .. Cardinality(S) - 1 /\ Cardinality(S) \in Nat
  BY RanksAre
<1>2. x # y  BY <1>1
<1>3. <<x, y>> \in order \/ <<y, x>> \in order  BY <1>2 DEF Orders
<1>4. <<y, x>> \in order => Rank(S, order, y) < Rank(S, order, x)  BY RankGrows
<1> QED  BY <1>1, <1>3, <1>4

(* The smaller of two numbers.                                             *)
LEMMA MinOf ==
  ASSUME NEW a \in Nat, NEW b \in Nat
  PROVE  Min({a, b}) = IF a <= b THEN a ELSE b
<1>1. CASE a <= b
  <2>1. \A x \in {a, b} : (\A y \in {a, b} : x <= y) <=> x = a  BY <1>1
  <2> QED  BY <1>1, <2>1 DEF Min
<1>2. CASE b < a
  <2>1. \A x \in {a, b} : (\A y \in {a, b} : x <= y) <=> x = b  BY <1>2
  <2> QED  BY <1>2, <2>1 DEF Min
<1> QED  BY <1>1, <1>2

(* What First lists: elements of S in order, at most n.                    *)
LEMMA FirstLists ==
  ASSUME NEW S, IsFiniteSet(S), NEW order, Orders(order, S), NEW n \in Nat,
         NEW s, s = First(n, S, order)
  PROVE  /\ s \in Seq(S) /\ Len(s) = Min({n, Cardinality(S)}) /\ DOMAIN s = 1 .. Len(s)
         /\ Len(s) \in Nat /\ Len(s) <= n /\ Len(s) <= Cardinality(S)
         /\ \A i, j \in 1 .. Len(s) : i < j => <<s[i], s[j]>> \in order
         /\ \A i \in 1 .. Len(s) : s[i] \in S /\ Rank(S, order, s[i]) = i - 1
<1> DEFINE c == Cardinality(S)
           m == Min({n, c})
<1>1. /\ c \in Nat
      /\ \A x \in S : Rank(S, order, x) \in 0 .. c - 1
      /\ \A k \in 0 .. c - 1 : \E x \in S : Rank(S, order, x) = k
      /\ \A x, y \in S : Rank(S, order, x) = Rank(S, order, y) => x = y
  BY RanksAre
<1>2. m = (IF n <= c THEN n ELSE c)  BY <1>1, MinOf
<1>3. m \in Nat /\ m <= n /\ m <= c  BY <1>1, <1>2
<1> HIDE DEF m
<1>4. s = [i \in 1 .. m |-> CHOOSE x \in S : Rank(S, order, x) = i - 1]  BY DEF First, m
<1>5. \A i \in 1 .. m : s[i] \in S /\ Rank(S, order, s[i]) = i - 1
  <2> SUFFICES ASSUME NEW i \in 1 .. m PROVE s[i] \in S /\ Rank(S, order, s[i]) = i - 1  OBVIOUS
  <2>1. i - 1 \in 0 .. c - 1  BY <1>1, <1>3
  <2>2. \E x \in S : Rank(S, order, x) = i - 1  BY <1>1, <2>1
  <2>3. s[i] = CHOOSE x \in S : Rank(S, order, x) = i - 1  BY <1>4
  <2> QED  BY <2>2, <2>3
<1>6. s \in [1 .. m -> S]  BY <1>4, <1>5
<1>7. s \in Seq(S) /\ Len(s) = m /\ DOMAIN s = 1 .. m  BY <1>3, <1>6
<1>8. \A i, j \in 1 .. m : i < j => <<s[i], s[j]>> \in order
  <2> SUFFICES ASSUME NEW i \in 1 .. m, NEW j \in 1 .. m, i < j PROVE <<s[i], s[j]>> \in order
    OBVIOUS
  <2>1. s[i] \in S /\ s[j] \in S  BY <1>5
  <2>2. Rank(S, order, s[i]) < Rank(S, order, s[j])  BY <1>3, <1>5
  <2> QED  BY <2>1, <2>2, RankOrders
<1> QED  BY <1>2, <1>3, <1>5, <1>7, <1>8 DEF m

(* What it leaves out comes after n others.                                *)
LEMMA FirstLeaves ==
  ASSUME NEW S, IsFiniteSet(S), NEW order, Orders(order, S), NEW n \in Nat,
         NEW s, s = First(n, S, order), NEW x \in S, x \notin Range(s)
  PROVE  Len(s) = n /\ \A i \in 1 .. Len(s) : <<s[i], x>> \in order
<1> DEFINE c == Cardinality(S)
           m == Len(s)
           r == Rank(S, order, x)
<1>1. /\ m = Min({n, c}) /\ m \in Nat /\ DOMAIN s = 1 .. m
      /\ \A i \in 1 .. m : s[i] \in S /\ Rank(S, order, s[i]) = i - 1
  BY FirstLists
<1>2. /\ c \in Nat /\ r \in 0 .. c - 1
      /\ \A y, z \in S : Rank(S, order, y) = Rank(S, order, z) => y = z
  BY RanksAre
<1> HIDE DEF c, m, r
<1>3. r >= m
  <2> SUFFICES ASSUME r < m PROVE FALSE  BY <1>1, <1>2
  <2>1. r + 1 \in 1 .. m  BY <1>1, <1>2
  <2>2. Rank(S, order, s[r + 1]) = r /\ s[r + 1] \in S
    <3> DEFINE k == r + 1
    <3>1. s[k] \in S /\ Rank(S, order, s[k]) = k - 1  BY <1>1, <2>1
    <3>2. k - 1 = r  BY <1>2
    <3> QED  BY <3>1, <3>2
  <2>3. s[r + 1] = x  BY <1>2, <2>2 DEF r
  <2> QED  BY <1>1, <2>1, <2>3 DEF Range
<1>4. m = n
  <2>1. m = (IF n <= c THEN n ELSE c)  BY <1>1, <1>2, MinOf
  <2> QED  BY <1>2, <1>3, <2>1
<1>5. \A i \in 1 .. m : <<s[i], x>> \in order
  <2> SUFFICES ASSUME NEW i \in 1 .. m PROVE <<s[i], x>> \in order  OBVIOUS
  <2>1. s[i] \in S /\ Rank(S, order, s[i]) = i - 1  BY <1>1
  <2>2. i - 1 < r  BY <1>1, <1>2, <1>3
  <2> QED  BY <2>1, <2>2, RankOrders DEF r
<1> QED  BY <1>4, <1>5 DEF m

(* The orders of positions and of logs are such.                           *)
LEMMA PositionsOrdered ==
  ASSUME NEW S, S \subseteq Nat
  PROVE  Orders(Upwards(S), S) /\ Orders(Downwards(S), S)
<1>1. \A x, y \in S : /\ <<x, y>> \in Upwards(S) <=> x < y
                      /\ <<x, y>> \in Downwards(S) <=> x > y
  BY DEF Upwards, Downwards
<1> QED  BY <1>1 DEF Orders

(* Of two logs one is older; the order is transitive.                      *)
LEMMA OlderOrders ==
  ASSUME NEW a \in Log, NEW b \in Log, NEW c \in Log
  PROVE  /\ ~Older(a, a)
         /\ Older(a, b) /\ Older(b, c) => Older(a, c)
         /\ a # b => Older(a, b) \/ Older(b, a)
         /\ ~(Older(a, b) /\ Older(b, a))
<1>1. \A l \in Log : l.id \in Nat /\ l.time \in Nat  BY PagingAssumption DEF Log
<1>2. a # b => a.id # b.id \/ a.time # b.time  BY DEF Log
<1> QED  BY <1>1, <1>2 DEF Older

\* Of logs, one is before another when it is newer.
LEMMA LogsOrdered ==
  ASSUME NEW S, S \subseteq Log
  PROVE  /\ Orders(NewestFirst(S), S)
         /\ \A x, y \in S : <<x, y>> \in NewestFirst(S) <=> Older(y, x)
<1>1. \A x, y \in S : <<x, y>> \in NewestFirst(S) <=> Older(y, x)  BY DEF NewestFirst
<1> QED  BY <1>1, OlderOrders DEF Orders

(* The elements of a sequence are finitely many.                           *)
LEMMA RangeFinite ==
  ASSUME NEW S, NEW s \in Seq(S)
  PROVE  IsFiniteSet(Range(s)) /\ IsFiniteSet(DOMAIN s) /\ Range(s) \subseteq S
<1>1. DOMAIN s = 1 .. Len(s) /\ Len(s) \in Nat  OBVIOUS
<1>2. IsFiniteSet(DOMAIN s)  BY <1>1, FS_Interval
<1>3. s \in Surjection(DOMAIN s, Range(s))  BY DEF Surjection, Range
<1>4. IsFiniteSet(Range(s))  BY <1>2, <1>3, FS_Surjection
<1>5. Range(s) \subseteq S  BY <1>1 DEF Range
<1> QED  BY <1>2, <1>4, <1>5

-----------------------------------------------------------------------------
(* Pages.                                                                  *)

\* A sequence of logs has the newest first.
NewestOrder(s) == \A i, j \in DOMAIN s : i < j => Older(s[j], s[i])

\* The stored logs that a page under filter f and cursor c may have.
Found(f, c) == {l \in Range(logs) : ServerMatches(l, f) /\ Beyond(l, c)}

\* Each log was inserted after all older ones that are stored.
Ascending(s) == \A i, j \in DOMAIN s : i < j => Older(s[i], s[j])

(* A page has logs that were found, no more than fit.                      *)
LEMMA PageHas ==
  ASSUME backend \in {"memory", "postgres"}, logs \in Seq(Log), NEW f, NEW c, NEW n \in Nat,
         NEW s, s = Page(f, c, n)
  PROVE  /\ s \in Seq(Log) /\ Range(s) \subseteq Found(f, c) /\ Len(s) <= n
         /\ (backend = "memory" /\ ~Ascending(logs)) \/ NewestOrder(s)
         /\ \/ backend = "memory" /\ ~Ascending(logs)
            \/ \A l \in Found(f, c) \ Range(s) : Len(s) = n /\ \A i \in DOMAIN s : Older(l, s[i])
<1>1. CASE backend = "postgres"
  <2> DEFINE S == Found(f, c)
  <2>1. S \subseteq Log /\ IsFiniteSet(S)  BY RangeFinite, FS_Subset DEF Found
  <2>2. s = First(n, S, NewestFirst(S))  BY <1>1 DEF Page, TablePage, Found
  <2>3. Orders(NewestFirst(S), S) /\ \A x, y \in S : <<x, y>> \in NewestFirst(S) <=> Older(y, x)
    BY <2>1, LogsOrdered
  <2> HIDE DEF S
  <2>4. /\ s \in Seq(S) /\ DOMAIN s = 1 .. Len(s) /\ Len(s) <= n /\ Len(s) \in Nat
        /\ \A i, j \in 1 .. Len(s) : i < j => <<s[i], s[j]>> \in NewestFirst(S)
    BY <2>1, <2>2, <2>3, FirstLists
  <2>5. \A i \in 1 .. Len(s) : s[i] \in S  BY <2>4
  <2>6. s \in Seq(Log) /\ Range(s) \subseteq S
    <3>1. s \in [1 .. Len(s) -> Log] /\ Len(s) \in Nat  BY <2>1, <2>4, <2>5
    <3>2. s \in Seq(Log)  BY <3>1
    <3> QED  BY <2>5, <3>2 DEF Range
  <2>7. NewestOrder(s)  BY <2>3, <2>4, <2>5 DEF NewestOrder
  <2>8. \A l \in S \ Range(s) : Len(s) = n /\ \A i \in DOMAIN s : Older(l, s[i])
    <3> SUFFICES ASSUME NEW l \in S \ Range(s)
                 PROVE  Len(s) = n /\ \A i \in 1 .. Len(s) : Older(l, s[i])
      BY <2>4
    <3>3. Len(s) = n /\ \A i \in 1 .. Len(s) : <<s[i], l>> \in NewestFirst(S)
      BY <2>1, <2>2, <2>3, FirstLeaves
    <3> QED  BY <2>3, <2>5, <3>3
  <2> QED  BY <2>4, <2>6, <2>7, <2>8 DEF S
<1>2. CASE backend = "memory"
  <2> DEFINE I == {i \in DOMAIN logs : ServerMatches(logs[i], f) /\ Beyond(logs[i], c)}
             p == First(n, I, Downwards(I))
  <2>1. DOMAIN logs = 1 .. Len(logs) /\ Len(logs) \in Nat  OBVIOUS
  <2>2. I \subseteq DOMAIN logs /\ I \subseteq Nat  BY <2>1
  <2>3. IsFiniteSet(I)
    <3>1. IsFiniteSet(DOMAIN logs)  BY RangeFinite
    <3> QED  BY <2>2, <3>1, FS_Subset
  <2>4. s = At(p)  BY <1>2 DEF Page, MemoryPage
  <2>5. Orders(Downwards(I), I) /\ \A x, y \in I : <<x, y>> \in Downwards(I) <=> x > y
    BY <2>2, PositionsOrdered DEF Downwards
  <2>6. Found(f, c) = {logs[i] : i \in I}  BY DEF Found, Range
  <2> HIDE DEF I, p
  <2>7. /\ p \in Seq(I) /\ DOMAIN p = 1 .. Len(p) /\ Len(p) <= n /\ Len(p) \in Nat
        /\ \A i, j \in 1 .. Len(p) : i < j => <<p[i], p[j]>> \in Downwards(I)
    BY <2>3, <2>5, FirstLists DEF p
  <2>8. \A i \in 1 .. Len(p) : p[i] \in I  BY <2>7
  <2>9. s = [k \in 1 .. Len(p) |-> logs[p[k]]]  BY <2>4, <2>7 DEF At
  <2>10. \A k \in 1 .. Len(p) : s[k] = logs[p[k]] /\ s[k] \in Log  BY <2>1, <2>2, <2>8, <2>9
  <2>11. s \in Seq(Log) /\ Len(s) = Len(p) /\ DOMAIN s = 1 .. Len(p)
    <3>1. s \in [1 .. Len(p) -> Log] /\ Len(p) \in Nat  BY <2>7, <2>9, <2>10
    <3> QED  BY <3>1
  <2>12. Range(s) \subseteq Found(f, c)  BY <2>6, <2>8, <2>10, <2>11 DEF Range
  <2>13. ASSUME Ascending(logs) PROVE NewestOrder(s)
    <3> SUFFICES ASSUME NEW i \in 1 .. Len(p), NEW j \in 1 .. Len(p), i < j
                 PROVE  Older(s[j], s[i])
      BY <2>11 DEF NewestOrder
    <3>1. p[i] > p[j]  BY <2>5, <2>7, <2>8
    <3>2. Older(logs[p[j]], logs[p[i]])  BY <2>2, <2>8, <2>13, <3>1 DEF Ascending
    <3> QED  BY <2>10, <3>2
  <2>14. ASSUME Ascending(logs), NEW l \in Found(f, c) \ Range(s)
         PROVE  Len(s) = n /\ \A i \in DOMAIN s : Older(l, s[i])
    <3>1. PICK x \in I : l = logs[x]  BY <2>6
    <3>2. x \notin Range(p)
      <4> SUFFICES ASSUME NEW i \in 1 .. Len(p), p[i] = x PROVE FALSE  BY <2>7 DEF Range
      <4>1. s[i] = l  BY <2>10, <3>1
      <4> QED  BY <2>11, <2>14, <4>1 DEF Range
    <3>3. Len(p) = n /\ \A i \in 1 .. Len(p) : p[i] > x
      <4>1. Len(p) = n /\ \A i \in 1 .. Len(p) : <<p[i], x>> \in Downwards(I)
        BY <2>3, <2>5, <3>2, FirstLeaves DEF p
      <4> QED  BY <2>5, <2>8, <4>1
    <3>4. \A i \in 1 .. Len(p) : Older(logs[x], logs[p[i]])
      BY <2>2, <2>8, <2>14, <3>3 DEF Ascending
    <3> QED  BY <2>10, <2>11, <3>1, <3>3, <3>4
  <2> QED  BY <1>2, <2>7, <2>11, <2>12, <2>13, <2>14
<1> QED  BY <1>1, <1>2

-----------------------------------------------------------------------------
(* The stored logs.                                                        *)

(* What is left is in the order in which it was.                           *)
LEMMA LeftKeeps ==
  ASSUME logs \in Seq(Log), NEW I, I \subseteq DOMAIN logs, NEW s, s = Left(I)
  PROVE  /\ s \in Seq(Log) /\ Range(s) \subseteq Range(logs) /\ Len(s) <= Len(logs)
         /\ Ascending(logs) => Ascending(s)
<1> DEFINE p == First(Len(logs), I, Upwards(I))
<1>1. DOMAIN logs = 1 .. Len(logs) /\ Len(logs) \in Nat  OBVIOUS
<1>2. I \subseteq Nat /\ IsFiniteSet(I)
  <2>1. IsFiniteSet(DOMAIN logs)  BY RangeFinite
  <2> QED  BY <1>1, <2>1, FS_Subset
<1>3. Orders(Upwards(I), I) /\ \A x, y \in I : <<x, y>> \in Upwards(I) <=> x < y
  BY <1>2, PositionsOrdered DEF Upwards
<1>4. s = At(p)  BY DEF Left
<1> HIDE DEF p
<1>5. /\ p \in Seq(I) /\ DOMAIN p = 1 .. Len(p) /\ Len(p) <= Len(logs) /\ Len(p) \in Nat
      /\ \A i, j \in 1 .. Len(p) : i < j => <<p[i], p[j]>> \in Upwards(I)
  <2> DEFINE n == Len(logs)
  <2>1. n \in Nat /\ p = First(n, I, Upwards(I))  BY <1>1 DEF p
  <2>2. IsFiniteSet(I) /\ Orders(Upwards(I), I)  BY <1>2, <1>3
  <2> HIDE DEF n
  <2>3. /\ p \in Seq(I) /\ DOMAIN p = 1 .. Len(p) /\ Len(p) <= n /\ Len(p) \in Nat
        /\ \A i, j \in 1 .. Len(p) : i < j => <<p[i], p[j]>> \in Upwards(I)
    BY <2>1, <2>2, FirstLists
  <2> QED  BY <2>3 DEF n
<1>6. \A i \in 1 .. Len(p) : p[i] \in I  BY <1>5
<1>7. s = [k \in 1 .. Len(p) |-> logs[p[k]]]  BY <1>4, <1>5 DEF At
<1>8. \A k \in 1 .. Len(p) : s[k] = logs[p[k]] /\ s[k] \in Log /\ p[k] \in DOMAIN logs
  BY <1>1, <1>6, <1>7
<1>9. s \in Seq(Log) /\ Len(s) = Len(p) /\ DOMAIN s = 1 .. Len(p)
  <2>1. s \in [1 .. Len(p) -> Log] /\ Len(p) \in Nat  BY <1>5, <1>7, <1>8
  <2> QED  BY <2>1
<1>10. Range(s) \subseteq Range(logs)  BY <1>8, <1>9 DEF Range
<1>11. ASSUME Ascending(logs) PROVE Ascending(s)
  <2> SUFFICES ASSUME NEW i \in 1 .. Len(p), NEW j \in 1 .. Len(p), i < j PROVE Older(s[i], s[j])
    BY <1>9 DEF Ascending
  <2>1. p[i] < p[j]  BY <1>3, <1>5, <1>6
  <2>2. Older(logs[p[i]], logs[p[j]])  BY <1>8, <1>11, <2>1 DEF Ascending
  <2> QED  BY <1>8, <2>2
<1> QED  BY <1>5, <1>9, <1>10, <1>11

(* A log that is newer than all others keeps the order.                    *)
LEMMA AppendKeeps ==
  ASSUME NEW s \in Seq(Log), NEW l \in Log
  PROVE  /\ Append(s, l) \in Seq(Log) /\ Len(Append(s, l)) = Len(s) + 1
         /\ Range(Append(s, l)) = Range(s) \cup {l}
         /\ Ascending(s) /\ (\A m \in Range(s) : Older(m, l)) => Ascending(Append(s, l))
<1> DEFINE t == Append(s, l)
<1>1. /\ t \in Seq(Log) /\ Len(t) = Len(s) + 1 /\ Len(s) \in Nat
      /\ DOMAIN t = 1 .. Len(s) + 1 /\ DOMAIN s = 1 .. Len(s)
      /\ \A i \in 1 .. Len(s) : t[i] = s[i]
      /\ t[Len(s) + 1] = l
  <2>1. /\ t \in Seq(Log) /\ Len(t) = Len(s) + 1 /\ Len(s) \in Nat
        /\ DOMAIN t = 1 .. Len(s) + 1 /\ DOMAIN s = 1 .. Len(s)
    OBVIOUS
  <2>2. \A i \in 1 .. Len(s) : t[i] = s[i]  OBVIOUS
  <2>3. t[Len(s) + 1] = l  BY <2>1
  <2> QED  BY <2>1, <2>2, <2>3
<1> HIDE DEF t
<1>2. Range(t) = Range(s) \cup {l}
  <2>1. \A i \in 1 .. Len(s) + 1 : i \in 1 .. Len(s) \/ i = Len(s) + 1  BY <1>1
  <2>2. \A i \in 1 .. Len(s) : i \in 1 .. Len(s) + 1  BY <1>1
  <2>3. Len(s) + 1 \in 1 .. Len(s) + 1  BY <1>1
  <2> QED  BY <1>1, <2>1, <2>2, <2>3 DEF Range
<1>3. ASSUME Ascending(s), \A m \in Range(s) : Older(m, l) PROVE Ascending(t)
  <2> SUFFICES ASSUME NEW i \in 1 .. Len(s) + 1, NEW j \in 1 .. Len(s) + 1, i < j
               PROVE  Older(t[i], t[j])
    BY <1>1 DEF Ascending
  <2>1. i \in 1 .. Len(s) /\ t[i] = s[i] /\ s[i] \in Range(s)  BY <1>1 DEF Range
  <2>2. CASE j = Len(s) + 1  BY <1>1, <1>3, <2>1, <2>2
  <2>3. CASE j \in 1 .. Len(s)  BY <1>1, <1>3, <2>1, <2>3 DEF Ascending
  <2> QED  BY <1>1, <2>2, <2>3
<1> QED  BY <1>1, <1>2, <1>3 DEF t

(* The in-memory store takes a log in and stays within its limit.          *)
LEMMA PushKeeps ==
  ASSUME logs \in Seq(Log), Len(logs) <= MaxEntries, NEW l \in Log, NEW s, s = Push(l)
  PROVE  /\ s \in Seq(Log) /\ Range(s) \subseteq Range(logs) \cup {l} /\ Len(s) <= MaxEntries
         /\ Ascending(logs) /\ (\A m \in Range(logs) : Older(m, l)) => Ascending(s)
<1>1. MaxEntries \in Nat \ {0} /\ Len(logs) \in Nat  BY PagingAssumption
<1>2. CASE Len(logs) < MaxEntries
  <2>1. s = Append(logs, l)  BY <1>2 DEF Push
  <2> QED  BY <1>1, <1>2, <2>1, AppendKeeps
<1>3. CASE ~(Len(logs) < MaxEntries)
  <2> DEFINE t == Tail(logs)
  <2>1. s = Append(t, l)  BY <1>3 DEF Push
  <2>2. logs # <<>>  BY <1>1, <1>3
  <2>3. /\ t \in Seq(Log) /\ Len(t) = Len(logs) - 1 /\ DOMAIN t = 1 .. Len(logs) - 1
        /\ \A i \in 1 .. Len(logs) - 1 : t[i] = logs[i + 1] /\ i + 1 \in DOMAIN logs
    BY <1>1, <2>2
  <2> HIDE DEF t
  <2>4. Range(t) \subseteq Range(logs)  BY <2>3 DEF Range
  <2>5. ASSUME Ascending(logs) PROVE Ascending(t)
    <3> SUFFICES ASSUME NEW i \in 1 .. Len(logs) - 1, NEW j \in 1 .. Len(logs) - 1, i < j
                 PROVE  Older(t[i], t[j])
      BY <2>3 DEF Ascending
    <3> QED  BY <2>3, <2>5 DEF Ascending
  <2>6. Len(Append(t, l)) = Len(logs)  BY <1>1, <2>3, AppendKeeps
  <2>7. /\ Append(t, l) \in Seq(Log) /\ Range(Append(t, l)) = Range(t) \cup {l}
        /\ Ascending(t) /\ (\A m \in Range(t) : Older(m, l)) => Ascending(Append(t, l))
    BY <2>3, AppendKeeps
  <2> QED  BY <2>1, <2>4, <2>5, <2>6, <2>7
<1> QED  BY <1>2, <1>3

-----------------------------------------------------------------------------
(* Types.                                                                  *)

\* A page is held exactly while it is written.
TypeInv == PagingTypeOK /\ (export.pc = "write" <=> export.page # <<>>)

ExportType ==
  [pc : {"none", "read", "write", "done", "aborted"}, filter : Filters \cup {None},
   cursor : {Start} \cup [id : Ids, time : Nat], page : Seq(Log)]

(* The last row of a page is a log, and its cursor a time before it.       *)
LEMMA LastIs ==
  ASSUME NEW s \in Seq(Log), s # <<>>
  PROVE  /\ Len(s) \in Nat \ {0} /\ Last(s) \in Log /\ Last(s) = s[Len(s)]
         /\ Last(s) \in Range(s)
<1>1. Len(s) \in Nat \ {0} /\ DOMAIN s = 1 .. Len(s)  OBVIOUS
<1>2. Len(s) \in DOMAIN s  BY <1>1
<1> QED  BY <1>1, <1>2 DEF Last, Range

\* The cursor of a row, which is the row itself when no part of its time is lost.
LEMMA CursorTyped ==
  ASSUME NEW l \in Log
  PROVE  /\ CursorOf(l) \in [id : Ids, time : Nat]
         /\ backend = "memory" \/ l.time % Tick = 0 => CursorOf(l) = l
<1>1. l.id \in Ids /\ l.time \in Nat /\ Tick \in Nat \ {0} /\ l = [id |-> l.id, time |-> l.time]
  BY PagingAssumption DEF Log
<1> DEFINE q == l.time \div Tick
<1>3. q * Tick \in Nat /\ (l.time % Tick = 0 => q * Tick = l.time)
  <2>1. ASSUME NEW a \in Nat, NEW b \in Nat \ {0}
        PROVE  (a \div b) * b \in Nat /\ (a % b = 0 => (a \div b) * b = a)
    <3>1. (a \div b) * b \in Nat  OBVIOUS
    <3>2. a % b = 0 => (a \div b) * b = a  OBVIOUS
    <3> QED  BY <3>1, <3>2
  <2> QED  BY <1>1, <2>1
<1> HIDE DEF q
<1>4. [l EXCEPT !.time = (@ \div Tick) * Tick] = [id |-> l.id, time |-> q * Tick]  BY <1>1 DEF q
<1>5. CursorOf(l) = l \/ CursorOf(l) = [id |-> l.id, time |-> q * Tick]  BY <1>4 DEF CursorOf
<1>6. backend # "memory" => CursorOf(l) = [id |-> l.id, time |-> q * Tick]  BY <1>4 DEF CursorOf
<1>7. backend = "memory" => CursorOf(l) = l  BY DEF CursorOf
<1> QED  BY <1>1, <1>3, <1>5, <1>6, <1>7

\* The types hold at first.
LEMMA TypeInit == PagingInit => TypeInv
<1> SUFFICES ASSUME PagingInit PROVE TypeInv  OBVIOUS
<1>1. <<>> \in Seq(Log) /\ Len(<<>>) = 0 /\ MaxEntries \in Nat  BY PagingAssumption
<1>2. export \in ExportType  BY <1>1 DEF PagingInit, ExportType
<1>3. inOrder \in BOOLEAN  BY Zenon DEF PagingInit
<1> QED  BY <1>1, <1>2, <1>3 DEF PagingInit, TypeInv, PagingTypeOK, ExportType

(* They survive every step.                                                *)
LEMMA TypeStep == TypeInv /\ [PagingNext]_pagingVars => TypeInv'
<1> SUFFICES ASSUME TypeInv, [PagingNext]_pagingVars PROVE TypeInv'  OBVIOUS
<1>1. /\ backend \in {"memory", "postgres"} /\ logs \in Seq(Log) /\ out \in Seq(Log)
      /\ added \in SUBSET Log /\ kept \in SUBSET Log /\ inOrder \in BOOLEAN
      /\ (backend = "memory" => Len(logs) <= MaxEntries) /\ export \in ExportType
      /\ (export.pc = "write" <=> export.page # <<>>)
  BY DEF TypeInv, PagingTypeOK, ExportType
<1>2. ASSUME backend' = backend, logs' \in Seq(Log), backend = "memory" => Len(logs') <= MaxEntries,
             kept' = kept \cap Range(logs'), UNCHANGED <<export, out>>,
             added' \in SUBSET Log, inOrder' \in BOOLEAN
      PROVE  TypeInv'
  BY <1>1, <1>2 DEF TypeInv, PagingTypeOK, ExportType
<1>3. ASSUME UNCHANGED <<backend, logs, added, inOrder>>, kept' \in SUBSET Log, out' \in Seq(Log),
             export' \in ExportType, export'.pc = "write" <=> export'.page # <<>>
      PROVE  TypeInv'
  BY <1>1, <1>3 DEF TypeInv, PagingTypeOK, ExportType
<1>4. CASE Add
  <2>1. PICK l \in Log : /\ logs' = IF backend = "memory" THEN Push(l) ELSE Append(logs, l)
                         /\ added' = added \cup {l}
                         /\ inOrder' = (inOrder /\ \A m \in added : Older(m, l))
    BY <1>4 DEF Add
  <2>2. inOrder' \in BOOLEAN  BY Zenon, <2>1
  <2>3. logs' \in Seq(Log) /\ (backend = "memory" => Len(logs') <= MaxEntries)
    BY <1>1, <2>1, PushKeeps, AppendKeeps
  <2> QED  BY <1>1, <1>2, <1>4, <2>1, <2>2, <2>3 DEF Add
<1>5. CASE ClearMemory \/ DeleteRows
  <2>1. PICK I : I \subseteq DOMAIN logs /\ logs' = Left(I)  BY <1>5 DEF ClearMemory, DeleteRows
  <2>2. logs' \in Seq(Log) /\ Len(logs') <= Len(logs)  BY <1>1, <2>1, LeftKeeps
  <2>3. Len(logs) \in Nat /\ Len(logs') \in Nat /\ MaxEntries \in Nat  BY <1>1, <2>2, PagingAssumption
  <2> QED  BY <1>1, <1>2, <1>5, <2>2, <2>3 DEF ClearMemory, DeleteRows
<1>6. CASE StartExport
  <2>1. PICK f \in Filters : /\ export' = [export EXCEPT !.pc = "read", !.filter = f]
                             /\ kept' = {l \in Range(logs) : ServerMatches(l, f)}
    BY <1>6 DEF StartExport
  <2>2. export' \in ExportType /\ export'.pc = "read" /\ export'.page = export.page
    BY <1>1, <2>1 DEF ExportType
  <2>3. kept' \in SUBSET Log  BY <1>1, <2>1, RangeFinite
  <2> QED  BY <1>1, <1>3, <1>6, <2>2, <2>3 DEF StartExport
<1>7. CASE ReadPage
  <2> DEFINE page == Page(export.filter, export.cursor, Batch)
  <2>1. export' = [export EXCEPT !.page = page, !.pc = IF page = <<>> THEN "done" ELSE "write"]
    BY <1>7 DEF ReadPage
  <2>2. page \in Seq(Log)
    <3>1. Batch \in Nat  BY PagingAssumption
    <3> QED  BY <1>1, <3>1, PageHas
  <2> HIDE DEF page
  <2>3. /\ export' \in ExportType /\ export'.page = page
        /\ export'.pc = IF page = <<>> THEN "done" ELSE "write"
    BY <1>1, <2>1, <2>2 DEF ExportType
  <2> QED  BY <1>1, <1>3, <1>7, <2>3 DEF ReadPage
<1>8. CASE WritePage
  <2>1. /\ export.pc = "write" /\ out' = out \o export.page
        /\ export' = [export EXCEPT !.page = <<>>, !.cursor = CursorOf(Last(export.page)),
                                    !.pc = IF Short(export.page) THEN "done" ELSE "read"]
    BY <1>8 DEF WritePage
  <2>2. export.page \in Seq(Log) /\ export.page # <<>>  BY <1>1, <2>1 DEF ExportType
  <2>3. CursorOf(Last(export.page)) \in [id : Ids, time : Nat]  BY <2>2, LastIs, CursorTyped
  <2>4. export' \in ExportType /\ export'.page = <<>> /\ export'.pc \in {"done", "read"}
    <3>1. <<>> \in Seq(Log)  OBVIOUS
    <3> QED  BY <1>1, <2>1, <2>3, <3>1 DEF ExportType
  <2>5. out' \in Seq(Log)  BY <1>1, <2>1, <2>2
  <2> QED  BY <1>1, <1>3, <1>8, <2>4, <2>5 DEF WritePage
<1>9. CASE Abort
  <2>1. export' \in ExportType /\ export'.page = <<>> /\ export'.pc = "aborted"
    <3>1. <<>> \in Seq(Log)  OBVIOUS
    <3> QED  BY <1>1, <1>9, <3>1 DEF Abort, ExportType
  <2> QED  BY <1>1, <1>3, <1>9, <2>1 DEF Abort
<1>10. CASE UNCHANGED pagingVars
  <2>1. UNCHANGED <<backend, logs, export, out, added, inOrder, kept>>  BY <1>10 DEF pagingVars
  <2> QED  BY <1>1, <1>3, <2>1
<1> QED  BY <1>4, <1>5, <1>6, <1>7, <1>8, <1>9, <1>10 DEF PagingNext

(* Every variable keeps its type, for any logs, filters and sizes of pages. *)
THEOREM PagesTyped == PagingSpec => []PagingTypeOK
<1>1. TypeInv => PagingTypeOK  BY DEF TypeInv
<1> QED  BY <1>1, TypeInit, TypeStep, PTL DEF PagingSpec

-----------------------------------------------------------------------------
(* The export.                                                             *)

\* What is stored was added, each id once, and in the order in which it was; an
\* export's obligations are stored logs that its filter matches.
Stored ==
  /\ Range(logs) \subseteq added
  /\ \A l, m \in added : l.id = m.id => l = m
  /\ inOrder => Ascending(logs)
  /\ kept \subseteq Range(logs)
  /\ export.pc # "none" => \A l \in kept : ServerMatches(l, export.filter)
  /\ export.pc = "none" => out = <<>> /\ export.cursor = Start

Matching(s) == \A i \in DOMAIN s : ServerMatches(s[i], export.filter)

\* What an export has written and holds, under an order that it can rely on: the
\* cursor is the last row written, the page goes on from there, and each of its
\* obligations is written, in the page, or beyond what was read.
SoFar ==
  /\ NewestOrder(out) /\ Matching(out)
  /\ out = <<>> => export.cursor = Start
  /\ out # <<>> => export.cursor = Last(out)
  /\ NewestOrder(export.page) /\ Matching(export.page)
  /\ \A l \in Range(export.page) : l \in added /\ Beyond(l, export.cursor)
  /\ export.pc = "read" => \A l \in kept : l \in Range(out) \/ Beyond(l, export.cursor)
  /\ export.pc = "write" => \A l \in kept :
       \/ l \in Range(out) \/ l \in Range(export.page)
       \/ ~Short(export.page) /\ Older(l, Last(export.page))
  /\ export.pc = "done" => kept \subseteq Range(out)

Inv == TypeInv /\ Stored /\ (Sound => SoFar)

(* The parts of TypeInv that the proofs below use.                         *)
LEMMA TypesOf ==
  ASSUME TypeInv
  PROVE  /\ backend \in {"memory", "postgres"} /\ logs \in Seq(Log) /\ out \in Seq(Log)
         /\ added \in SUBSET Log /\ kept \in SUBSET Log /\ inOrder \in BOOLEAN
         /\ (backend = "memory" => Len(logs) <= MaxEntries) /\ export \in ExportType
         /\ export.page \in Seq(Log) /\ (export.pc = "write" <=> export.page # <<>>)
BY DEF TypeInv, PagingTypeOK, ExportType

\* Nothing is stored, wanted or written at first.
LEMMA InvInit == PagingInit => Inv
<1> SUFFICES ASSUME PagingInit PROVE Inv  OBVIOUS
<1>1. TypeInv  BY TypeInit
<1>2. /\ logs = <<>> /\ out = <<>> /\ added = {} /\ kept = {} /\ DOMAIN <<>> = {}
      /\ export.pc = "none" /\ export.cursor = Start /\ export.page = <<>>
  BY DEF PagingInit
<1>3. Stored  BY <1>2 DEF Stored, Range, Ascending
<1>4. SoFar  BY <1>2 DEF SoFar, NewestOrder, Matching, Range
<1> QED  BY <1>1, <1>3, <1>4 DEF Inv

(* Logs that come and go leave an export what it has, and want no more.    *)
LEMMA LogsStep ==
  ASSUME Inv, Add \/ ClearMemory \/ DeleteRows, TypeInv'
  PROVE  Inv'
<1>1. TypeInv /\ Stored /\ (Sound => SoFar)  BY DEF Inv
<1>2. /\ backend \in {"memory", "postgres"} /\ logs \in Seq(Log) /\ added \in SUBSET Log
      /\ inOrder \in BOOLEAN /\ (backend = "memory" => Len(logs) <= MaxEntries)
  BY <1>1, TypesOf
<1>3. /\ UNCHANGED <<backend, export, out>> /\ kept' = kept \cap Range(logs')
      /\ added \subseteq added' /\ (inOrder' => inOrder)
  <2>1. CASE Add
    <3>1. inOrder' => inOrder  BY Zenon, <2>1 DEF Add
    <3> QED  BY <2>1, <3>1 DEF Add
  <2>2. CASE ClearMemory \/ DeleteRows  BY <2>2 DEF ClearMemory, DeleteRows
  <2> QED  BY <2>1, <2>2
<1>4. /\ Range(logs') \subseteq added' /\ (inOrder' => Ascending(logs'))
      /\ \A l, m \in added' : l.id = m.id => l = m
  <2>1. CASE Add
    <3>1. PICK l \in Log : /\ \A m \in added : m.id # l.id
                           /\ logs' = IF backend = "memory" THEN Push(l) ELSE Append(logs, l)
                           /\ added' = added \cup {l}
                           /\ inOrder' = (inOrder /\ \A m \in added : Older(m, l))
      BY <2>1 DEF Add
    <3>2. \A k, m \in added' : k.id = m.id => k = m  BY <1>1, <3>1 DEF Stored
    <3>3. /\ Range(logs') \subseteq Range(logs) \cup {l}
          /\ Ascending(logs) /\ (\A m \in Range(logs) : Older(m, l)) => Ascending(logs')
      BY <1>2, <3>1, PushKeeps, AppendKeeps
    <3>4. inOrder' => inOrder /\ \A m \in added : Older(m, l)  BY Zenon, <3>1
    <3> QED  BY <1>1, <3>1, <3>2, <3>3, <3>4 DEF Stored
  <2>2. CASE ClearMemory \/ DeleteRows
    <3>1. PICK I : I \subseteq DOMAIN logs /\ logs' = Left(I)  BY <2>2 DEF ClearMemory, DeleteRows
    <3>2. Range(logs') \subseteq Range(logs) /\ (Ascending(logs) => Ascending(logs'))
      BY <1>2, <3>1, LeftKeeps
    <3>3. added' = added /\ inOrder' = inOrder  BY <2>2 DEF ClearMemory, DeleteRows
    <3> QED  BY <1>1, <3>2, <3>3 DEF Stored
  <2> QED  BY <2>1, <2>2
<1>5. Stored'  BY <1>1, <1>3, <1>4 DEF Stored
<1>6. Sound' => Sound  BY <1>3 DEF Sound
<1>7. SoFar => SoFar'  BY <1>3 DEF SoFar, Matching
<1> QED  BY <1>1, <1>5, <1>6, <1>7 DEF Inv

\* An export starts with what is stored and matches; one that is aborted owes
\* nothing more.
LEMMA EndsStep ==
  ASSUME Inv, StartExport \/ Abort, TypeInv'
  PROVE  Inv'
<1>1. TypeInv /\ Stored /\ (Sound => SoFar)  BY DEF Inv
<1>2. export \in ExportType  BY <1>1, TypesOf
<1>3. UNCHANGED <<backend, logs, out, added, inOrder>>  BY DEF StartExport, Abort
<1>4. Sound' => Sound  BY <1>3 DEF Sound
<1>5. CASE StartExport
  <2>1. PICK f \in Filters : /\ export.pc = "none"
                             /\ export' = [export EXCEPT !.pc = "read", !.filter = f]
                             /\ kept' = {l \in Range(logs) : ServerMatches(l, f)}
    BY <1>5 DEF StartExport
  <2>2. /\ export'.pc = "read" /\ export'.filter = f /\ export'.page = export.page
        /\ export'.cursor = export.cursor
    BY <1>2, <2>1 DEF ExportType
  <2>3. /\ out = <<>> /\ export.cursor = Start /\ export.page = <<>> /\ DOMAIN <<>> = {}
    BY <1>1, <2>1 DEF Stored, TypeInv
  <2>4. Stored'  BY <1>1, <1>3, <2>1, <2>2 DEF Stored
  <2>5. SoFar'
    BY <1>3, <2>2, <2>3 DEF SoFar, NewestOrder, Matching, Range, Beyond
  <2> QED  BY <2>4, <2>5 DEF Inv
<1>6. CASE Abort
  <2>1. export.pc # "none" /\ kept' = kept  BY <1>6 DEF Abort
  <2>2. /\ export'.pc = "aborted" /\ export'.filter = export.filter /\ export'.page = <<>>
        /\ export'.cursor = export.cursor /\ DOMAIN <<>> = {}
    BY <1>2, <1>6 DEF Abort, ExportType
  <2>3. Stored'  BY <1>1, <1>3, <2>1, <2>2 DEF Stored
  <2>4. SoFar => SoFar'  BY <1>3, <2>2 DEF SoFar, NewestOrder, Matching, Range
  <2> QED  BY <1>1, <1>4, <2>3, <2>4 DEF Inv
<1> QED  BY <1>5, <1>6

(* Under Sound the store's order is that of the pages, and a cursor is the *)
(* row that it stands for.                                                 *)
LEMMA SoundMeans ==
  ASSUME Inv, Sound
  PROVE  /\ backend = "memory" => Ascending(logs)
         /\ \A l \in added : CursorOf(l) = l
<1>1. /\ backend \in {"memory", "postgres"} /\ added \in SUBSET Log
      /\ (inOrder => Ascending(logs))
  BY TypesOf DEF Inv, Stored
<1>2. backend = "memory" => Ascending(logs)  BY <1>1 DEF Sound
<1>3. \A l \in added : backend = "memory" \/ l.time % Tick = 0  BY <1>1 DEF Sound
<1> QED  BY <1>1, <1>2, <1>3, CursorTyped

\* The page that is read has all that comes next: what it leaves out is older, and
\* there is none when it is short.
LEMMA ReadStep ==
  ASSUME Inv, ReadPage, TypeInv'
  PROVE  Inv'
<1>1. TypeInv /\ Stored /\ (Sound => SoFar)  BY DEF Inv
<1>2. /\ export \in ExportType /\ backend \in {"memory", "postgres"} /\ logs \in Seq(Log)
      /\ added \in SUBSET Log
  BY <1>1, TypesOf
<1>3. export.pc = "read" /\ UNCHANGED <<backend, logs, out, added, inOrder, kept>>
  BY DEF ReadPage
<1> DEFINE f == export.filter
           c == export.cursor
           page == Page(f, c, Batch)
<1>4. /\ export'.page = page /\ export'.filter = f /\ export'.cursor = c
      /\ export'.pc = IF page = <<>> THEN "done" ELSE "write"
  BY <1>2 DEF ReadPage, ExportType
<1>5. Batch \in Nat \ {0}  BY PagingAssumption
<1>6. /\ page \in Seq(Log) /\ Range(page) \subseteq Found(f, c)
      /\ (backend = "memory" /\ ~Ascending(logs)) \/ NewestOrder(page)
      /\ \/ backend = "memory" /\ ~Ascending(logs)
         \/ \A l \in Found(f, c) \ Range(page) :
              Len(page) = Batch /\ \A i \in DOMAIN page : Older(l, page[i])
  BY <1>2, <1>5, PageHas
<1> HIDE DEF page
<1>7. Stored'  BY <1>1, <1>3, <1>4 DEF Stored
<1>8. Sound' => Sound  BY <1>3 DEF Sound
<1>9. ASSUME Sound PROVE SoFar'
  <2>1. SoFar /\ (backend = "memory" => Ascending(logs))  BY <1>1, <1>9, SoundMeans
  <2>2. NewestOrder(page)  BY <1>6, <2>1
  <2>3. \A l \in Range(page) : ServerMatches(l, f) /\ l \in added /\ Beyond(l, c)
    BY <1>1, <1>6 DEF Found, Stored
  <2>4. \A i \in DOMAIN page : ServerMatches(page[i], f)  BY <2>3 DEF Range
  <2>5. ASSUME NEW l \in kept, l \notin Range(out), l \notin Range(page)
        PROVE  Len(page) = Batch /\ page # <<>> /\ Older(l, Last(page))
    <3>1. l \in Found(f, c)
      <4>1. l \in Range(logs) /\ ServerMatches(l, f)  BY <1>1, <1>3 DEF Stored
      <4>2. Beyond(l, c)  BY <1>3, <2>1, <2>5 DEF SoFar
      <4> QED  BY <4>1, <4>2 DEF Found
    <3>2. Len(page) = Batch /\ \A i \in DOMAIN page : Older(l, page[i])  BY <1>6, <2>1, <2>5, <3>1
    <3>3. page # <<>>  BY <1>5, <3>2
    <3>4. Last(page) \in Range(page)  BY <1>6, <3>3, LastIs
    <3> QED  BY <3>2, <3>3, <3>4 DEF Range
  <2>6. export'.pc = "write" => \A l \in kept :
          \/ l \in Range(out) \/ l \in Range(page)
          \/ ~Short(page) /\ Older(l, Last(page))
    BY <1>5, <2>5 DEF Short
  <2>7. export'.pc = "done" => kept \subseteq Range(out)
    <3> SUFFICES ASSUME page = <<>>, NEW l \in kept, l \notin Range(out) PROVE FALSE  BY <1>4
    <3>1. l \notin Range(page)  BY DEF Range
    <3> QED  BY <2>5, <3>1
  <2>8. /\ NewestOrder(out) /\ Matching(out)
        /\ out = <<>> => c = Start
        /\ out # <<>> => c = Last(out)
    BY <2>1 DEF SoFar
  <2> QED  BY <1>3, <1>4, <2>2, <2>3, <2>4, <2>6, <2>7, <2>8 DEF SoFar, Matching
<1> QED  BY <1>7, <1>8, <1>9 DEF Inv

(* Two sequences of logs that are newest first, the second beyond the end  *)
(* of the first, are newest first together.                                *)
LEMMA NewestJoin ==
  ASSUME NEW s \in Seq(Log), NEW t \in Seq(Log), NewestOrder(s), NewestOrder(t),
         s # <<>> => \A l \in Range(t) : Older(l, Last(s))
  PROVE  /\ s \o t \in Seq(Log) /\ NewestOrder(s \o t) /\ Range(s \o t) = Range(s) \cup Range(t)
         /\ t # <<>> => s \o t # <<>> /\ Last(s \o t) = Last(t)
<1> DEFINE u == s \o t
           n == Len(s)
           m == Len(t)
<1>1. /\ n \in Nat /\ m \in Nat /\ u \in Seq(Log) /\ Len(u) = n + m /\ DOMAIN u = 1 .. n + m
      /\ DOMAIN s = 1 .. n /\ DOMAIN t = 1 .. m
  OBVIOUS
<1>2. /\ \A i \in 1 .. n : u[i] = s[i] /\ s[i] \in Log
      /\ \A i \in 1 .. m : t[i] \in Log
  OBVIOUS
<1>3. \A i \in 1 .. m : u[n + i] = t[i]  OBVIOUS
<1> HIDE DEF u, n, m
<1>4. \A i \in 1 .. n + m : i \in 1 .. n \/ \E k \in 1 .. m : i = n + k
  <2> SUFFICES ASSUME NEW i \in 1 .. n + m, i \notin 1 .. n PROVE \E k \in 1 .. m : i = n + k
    OBVIOUS
  <2>1. i - n \in 1 .. m /\ i = n + (i - n)  BY <1>1
  <2> QED  BY <2>1
<1>5. NewestOrder(u)
  <2> SUFFICES ASSUME NEW i \in 1 .. n + m, NEW j \in 1 .. n + m, i < j PROVE Older(u[j], u[i])
    BY <1>1 DEF NewestOrder
  <2>1. CASE i \in 1 .. n /\ j \in 1 .. n  BY <1>1, <1>2, <2>1 DEF NewestOrder
  <2>2. CASE \E k \in 1 .. m : i = n + k
    <3>1. PICK k \in 1 .. m : i = n + k  BY <2>2
    <3>2. PICK o \in 1 .. m : j = n + o  BY <1>1, <1>4, <3>1
    <3>3. k < o  BY <1>1, <3>1, <3>2
    <3> QED  BY <1>1, <1>3, <3>1, <3>2, <3>3 DEF NewestOrder
  <2>3. CASE i \in 1 .. n /\ \E k \in 1 .. m : j = n + k
    <3>1. PICK k \in 1 .. m : j = n + k  BY <2>3
    <3>2. s # <<>> /\ n \in 1 .. n  BY <1>1, <2>3 DEF n
    <3>3. Last(s) = s[n] /\ s[n] \in Log  BY <1>2, <3>2, LastIs DEF n
    <3>4. Older(t[k], s[n])  BY <1>1, <3>2, <3>3 DEF Range
    <3>5. s[n] = s[i] \/ Older(s[n], s[i])  BY <1>1, <2>3, <3>2 DEF NewestOrder
    <3>6. Older(t[k], s[i])  BY <1>2, <2>3, <3>3, <3>4, <3>5, OlderOrders
    <3> QED  BY <1>2, <1>3, <2>3, <3>1, <3>6
  <2> QED  BY <1>4, <2>1, <2>2, <2>3
<1>6. Range(u) = Range(s) \cup Range(t)
  <2>1. \A i \in 1 .. n : i \in 1 .. n + m  BY <1>1
  <2>2. \A i \in 1 .. m : n + i \in 1 .. n + m  BY <1>1
  <2>3. Range(s) \cup Range(t) \subseteq Range(u)
    <3>1. \A i \in 1 .. n : s[i] \in Range(u)  BY <1>1, <1>2, <2>1 DEF Range
    <3>2. \A i \in 1 .. m : t[i] \in Range(u)  BY <1>1, <1>3, <2>2 DEF Range
    <3> QED  BY <1>1, <3>1, <3>2 DEF Range
  <2>4. Range(u) \subseteq Range(s) \cup Range(t)
    <3> SUFFICES ASSUME NEW i \in 1 .. n + m PROVE u[i] \in Range(s) \cup Range(t)
      BY <1>1 DEF Range
    <3>1. CASE i \in 1 .. n  BY <1>1, <1>2, <3>1 DEF Range
    <3>2. CASE \E k \in 1 .. m : i = n + k  BY <1>1, <1>3, <3>2 DEF Range
    <3> QED  BY <1>4, <3>1, <3>2
  <2> QED  BY <2>3, <2>4
<1>7. ASSUME t # <<>> PROVE u # <<>> /\ Last(u) = Last(t)
  <2>1. m \in 1 .. m  BY <1>1, <1>7 DEF m
  <2>2. Len(u) # 0 /\ u[Len(u)] = t[m]  BY <1>1, <1>3, <2>1
  <2>3. u # <<>>  BY <2>2
  <2> QED  BY <2>2, <2>3 DEF Last, m
<1> QED  BY <1>1, <1>5, <1>6, <1>7 DEF u

\* What is written follows what was written, and the cursor follows it.
LEMMA WriteStep ==
  ASSUME Inv, WritePage, TypeInv'
  PROVE  Inv'
<1>1. TypeInv /\ Stored /\ (Sound => SoFar)  BY DEF Inv
<1> DEFINE page == export.page
           c == CursorOf(Last(page))
<1>2. /\ export \in ExportType /\ backend \in {"memory", "postgres"} /\ out \in Seq(Log)
      /\ added \in SUBSET Log /\ kept \in SUBSET Log /\ page \in Seq(Log)
      /\ (export.pc = "write" <=> page # <<>>)
  BY <1>1, TypesOf
<1>3. /\ export.pc = "write" /\ out' = out \o page
      /\ UNCHANGED <<backend, logs, added, inOrder, kept>>
  BY DEF WritePage
<1>4. /\ export'.page = <<>> /\ export'.filter = export.filter /\ export'.cursor = c
      /\ export'.pc = IF Short(page) THEN "done" ELSE "read"
  BY <1>2 DEF WritePage, ExportType
<1>5. page # <<>>  BY <1>2, <1>3
<1> HIDE DEF page, c
<1>6. Stored'  BY <1>1, <1>3, <1>4 DEF Stored
<1>7. Sound' => Sound  BY <1>3 DEF Sound
<1>8. ASSUME Sound PROVE SoFar'
  <2>1. SoFar /\ (\A l \in added : CursorOf(l) = l)  BY <1>1, <1>8, SoundMeans
  <2>2. /\ NewestOrder(out) /\ Matching(out) /\ NewestOrder(page) /\ Matching(page)
        /\ \A l \in Range(page) : l \in added /\ Beyond(l, export.cursor)
        /\ out # <<>> => export.cursor = Last(out)
        /\ \A l \in kept : \/ l \in Range(out) \/ l \in Range(page)
                           \/ ~Short(page) /\ Older(l, Last(page))
    BY <1>3, <2>1 DEF SoFar, page
  <2>3. out # <<>> => \A l \in Range(page) : Older(l, Last(out))
    <3> SUFFICES ASSUME out # <<>>, NEW l \in Range(page) PROVE Older(l, Last(out))  OBVIOUS
    <3>1. Last(out) \in Log /\ Beyond(l, Last(out))  BY <1>2, <2>2, LastIs
    <3>2. Last(out) # Start  BY <3>1, PagingAssumption DEF Start, Log
    <3> QED  BY <3>1, <3>2 DEF Beyond
  <2>4. /\ NewestOrder(out') /\ Range(out') = Range(out) \cup Range(page)
        /\ out' # <<>> /\ Last(out') = Last(page)
    BY <1>2, <1>3, <1>5, <2>2, <2>3, NewestJoin
  <2>5. c = Last(page)
    <3>1. Last(page) \in added  BY <1>2, <1>5, <2>2, LastIs
    <3> QED  BY <2>1, <3>1 DEF c
  <2>6. \A i \in DOMAIN out' : ServerMatches(out'[i], export.filter)
    <3>1. \A l \in Range(out) \cup Range(page) : ServerMatches(l, export.filter)
      BY <2>2 DEF Matching, Range
    <3> QED  BY <2>4, <3>1 DEF Range
  <2>7. /\ export'.pc = "read" => \A l \in kept : l \in Range(out') \/ Beyond(l, c)
        /\ export'.pc = "done" => kept \subseteq Range(out')
    BY <1>4, <2>2, <2>4, <2>5 DEF Beyond
  <2>8. export'.page = <<>> /\ DOMAIN <<>> = {} /\ export'.pc # "write"  BY <1>4
  <2> QED  BY <1>3, <1>4, <2>4, <2>5, <2>6, <2>7, <2>8 DEF SoFar, NewestOrder, Matching, Range
<1> QED  BY <1>6, <1>7, <1>8 DEF Inv

\* The invariant holds in every state.
LEMMA ExportInvariant == PagingSpec => []Inv
<1>1. Inv /\ [PagingNext]_pagingVars => Inv'
  <2> SUFFICES ASSUME Inv, [PagingNext]_pagingVars PROVE Inv'  OBVIOUS
  <2>1. TypeInv'  BY TypeStep DEF Inv
  <2>2. CASE UNCHANGED pagingVars
    <3>1. UNCHANGED <<backend, logs, export, out, added, inOrder, kept>>  BY <2>2 DEF pagingVars
    <3> QED  BY <2>1, <3>1 DEF Inv, Stored, Sound, SoFar, Matching
  <2> QED  BY <2>1, <2>2, LogsStep, EndsStep, ReadStep, WriteStep DEF PagingNext
<1> QED  BY <1>1, InvInit, PTL DEF PagingSpec

(* "Streams every matching log, paged by cursor": whatever is added and    *)
(* deleted between two pages, an export whose order can be relied on has   *)
(* no log twice, has the newest first, and at its end has every matching   *)
(* log that was stored all the time; with either store, for any filters,   *)
(* timestamps and sizes of pages.                                          *)
THEOREM ExportsAreExact == PagingSpec => []ExportExact
<1>1. Inv => ExportExact
  BY DEF Inv, SoFar, ExportExact, NewestOrder, Matching
<1> QED  BY <1>1, ExportInvariant, PTL

-----------------------------------------------------------------------------
(* Induction, over numbers and over finite sets, as closed sets.           *)

(* A nonempty set of natural numbers has a least element.                  *)
LEMMA LeastElement ==
  ASSUME NEW T, T \subseteq Nat, T # {}
  PROVE  \E x \in T : \A y \in T : x <= y
<1>1. PICK x \in T : \A y \in T : <<y, x>> \notin OpToRel(<, Nat)
  BY NatLessThanWellFounded, WFMin
<1>2. \A y \in T : ~ (y < x)  BY <1>1 DEF OpToRel
<1> QED  BY <1>2

(* What has 0 and each number's successor has all numbers.                 *)
LEMMA NumbersReached ==
  ASSUME NEW K, 0 \in K, \A n \in Nat : n \in K => n + 1 \in K
  PROVE  \A n \in Nat : n \in K
<1> SUFFICES ASSUME NEW m \in Nat, m \notin K PROVE FALSE  OBVIOUS
<1>1. PICK n \in Nat \ K : \A y \in Nat \ K : n <= y
  <2> DEFINE T == Nat \ K
  <2>1. T \subseteq Nat /\ T # {}  OBVIOUS
  <2> HIDE DEF T
  <2>2. \E n \in T : \A y \in T : n <= y  BY <2>1, LeastElement
  <2> QED  BY <2>2 DEF T
<1>2. n # 0 /\ n - 1 \in Nat /\ (n - 1) + 1 = n  BY <1>1
<1>3. n - 1 \in K  BY <1>1, <1>2
<1> QED  BY <1>1, <1>2, <1>3

(* What has {} and each set it has with one more element has all sets.     *)
LEMMA SetsReached ==
  ASSUME NEW S, IsFiniteSet(S), NEW K, {} \in K,
         \A T \in SUBSET S, x \in S : T \in K /\ x \notin T => T \cup {x} \in K
  PROVE  S \in K
<1> DEFINE N == {n \in Nat : \A T \in SUBSET S : Cardinality(T) = n => T \in K}
<1>1. 0 \in N
  <2> SUFFICES ASSUME NEW T \in SUBSET S, Cardinality(T) = 0 PROVE T \in K  OBVIOUS
  <2>1. T = {}  BY FS_Subset, FS_EmptySet
  <2> QED  BY <2>1
<1>2. ASSUME NEW n \in Nat, n \in N PROVE n + 1 \in N
  <2> SUFFICES ASSUME NEW T \in SUBSET S, Cardinality(T) = n + 1 PROVE T \in K  OBVIOUS
  <2>1. IsFiniteSet(T)  BY FS_Subset
  <2>2. T # {}
    <3>1. T = {} => Cardinality(T) = 0  BY FS_EmptySet
    <3>2. n + 1 # 0  OBVIOUS
    <3> QED  BY <3>1, <3>2
  <2>3. PICK x \in T : TRUE  BY <2>2
  <2>4. Cardinality(T \ {x}) = n
    <3>1. Cardinality(T \ {x}) = Cardinality(T) - 1  BY <2>1, <2>3, FS_RemoveElement
    <3>2. (n + 1) - 1 = n  OBVIOUS
    <3> QED  BY <3>1, <3>2
  <2>5. T \ {x} \in K /\ T \ {x} \in SUBSET S  BY <1>2, <2>4
  <2>6. (T \ {x}) \cup {x} \in K  BY <2>3, <2>5
  <2>7. (T \ {x}) \cup {x} = T  BY <2>3
  <2> QED  BY <2>6, <2>7
<1> HIDE DEF N
<1>3. \A n \in Nat : n \in N  BY <1>1, <1>2, NumbersReached
<1>4. Cardinality(S) \in Nat  BY FS_CardinalityType
<1> QED  BY <1>3, <1>4 DEF N

-----------------------------------------------------------------------------
(* Sums.                                                                   *)

\* The element that is taken from a set.
One(T) == CHOOSE x \in T : TRUE

\* g gives the sum of f over each subset of S, as SumOf defines it.
Sums(f, g, S) == g = [T \in SUBSET S |-> IF T = {} THEN 0 ELSE f[One(T)] + g[T \ {One(T)}]]

(* What the community module's fold unfolds to.                            *)
LEMMA SumIs ==
  ASSUME NEW f, NEW S
  PROVE  SumOf(f, S) = (CHOOSE g : Sums(f, g, S))[S]
BY DEF SumOf, MapThenSumSet, MapThenFoldSet, Sums, One

(* There is such a function: one for the sets of at most n elements gives  *)
(* one for those of at most n + 1.                                         *)
LEMMA SumExists ==
  ASSUME NEW f, NEW S, IsFiniteSet(S)
  PROVE  \E g : Sums(f, g, S)
<1> DEFINE Upto(n) == {T \in SUBSET S : Cardinality(T) <= n}
           Part(g, n) == g = [T \in Upto(n) |->
                                IF T = {} THEN 0 ELSE f[One(T)] + g[T \ {One(T)}]]
           N == {n \in Nat : \E g : Part(g, n)}
<1>1. \A T \in SUBSET S : IsFiniteSet(T) /\ Cardinality(T) \in Nat
  BY FS_Subset, FS_CardinalityType
<1>2. \A T \in SUBSET S : T # {} => /\ One(T) \in T /\ T \ {One(T)} \in SUBSET S
                                    /\ Cardinality(T \ {One(T)}) = Cardinality(T) - 1
  BY <1>1, FS_RemoveElement DEF One
<1>3. 0 \in N
  <2>1. \A T \in Upto(0) : T = {}  BY <1>1, FS_EmptySet
  <2>2. Part([T \in Upto(0) |-> 0], 0)  BY <2>1
  <2> QED  BY <2>2
<1>4. ASSUME NEW n \in Nat, n \in N PROVE n + 1 \in N
  <2>1. PICK g : Part(g, n)  BY <1>4
  <2> DEFINE h == [T \in Upto(n + 1) |->
                     IF T \in Upto(n) THEN g[T] ELSE f[One(T)] + g[T \ {One(T)}]]
  <2>2. ASSUME NEW T \in Upto(n + 1), T # {}
        PROVE  T \ {One(T)} \in Upto(n) /\ T \ {One(T)} \in Upto(n + 1)
    BY <1>1, <1>2, <2>2
  <2>3. \A T \in Upto(n) : T \in Upto(n + 1)  BY <1>1
  <2>4. \A T \in Upto(n) : h[T] = g[T]  BY <2>3
  <2>5. \A T \in Upto(n) : g[T] = IF T = {} THEN 0 ELSE f[One(T)] + g[T \ {One(T)}]
    BY Zenon, <2>1
  <2>6. {} \in Upto(n)  BY FS_EmptySet
  <2>7. ASSUME NEW T \in Upto(n + 1)
        PROVE  h[T] = IF T = {} THEN 0 ELSE f[One(T)] + h[T \ {One(T)}]
    <3>1. CASE T = {}  BY <2>4, <2>5, <2>6, <3>1
    <3>2. CASE T # {} /\ T \in Upto(n)
      <4>1. h[T \ {One(T)}] = g[T \ {One(T)}]  BY <2>2, <2>4, <3>2
      <4> QED  BY <2>4, <2>5, <3>2, <4>1
    <3>3. CASE T # {} /\ T \notin Upto(n)
      <4>1. h[T \ {One(T)}] = g[T \ {One(T)}]  BY <2>2, <2>4, <3>3
      <4> QED  BY <3>3, <4>1
    <3> QED  BY <3>1, <3>2, <3>3
  <2> HIDE DEF Upto
  <2>8. h = [T \in Upto(n + 1) |-> h[T]]  BY Zenon
  <2>9. Part(h, n + 1)
    <3> HIDE DEF h
    <3> QED  BY Zenon, <2>7, <2>8
  <2> HIDE DEF Part, h
  <2>10. n + 1 \in Nat /\ \E k : Part(k, n + 1)  BY <2>9
  <2> QED  BY Zenon, <2>10
<1>5. Cardinality(S) \in N
  <2> HIDE DEF N
  <2>1. \A n \in Nat : n \in N  BY <1>3, <1>4, NumbersReached
  <2> QED  BY <1>1, <2>1
<1>6. PICK g : Part(g, Cardinality(S))  BY <1>5
<1>7. Upto(Cardinality(S)) = SUBSET S  BY <1>1, FS_Subset
<1>8. Sums(f, g, S)
  <2> HIDE DEF Upto
  <2> QED  BY Zenon, <1>6, <1>7 DEF Sums
<1> QED  BY <1>8

\* g adds the values of f up over the subsets of S, in any order.
Additive(g, f, S) ==
  /\ g[{}] = 0
  /\ \A T \in SUBSET S : g[T] \in Nat
  /\ \A T \in SUBSET S : \A x \in T : g[T] = f[x] + g[T \ {x}]

(* In it any element may be taken from a set first.                        *)
LEMMA SumRule ==
  ASSUME NEW f, NEW S, IsFiniteSet(S), \A x \in S : f[x] \in Nat, NEW g, Sums(f, g, S)
  PROVE  Additive(g, f, S)
<1> DEFINE Fine(T) == g[T] \in Nat /\ \A x \in T : g[T \ {x}] \in Nat /\ g[T] = f[x] + g[T \ {x}]
           N == {n \in Nat : \A T \in SUBSET S : Cardinality(T) = n => Fine(T)}
<1>1. \A T \in SUBSET S : g[T] = IF T = {} THEN 0 ELSE f[One(T)] + g[T \ {One(T)}]
  BY Zenon DEF Sums
<1>2. g[{}] = 0  BY <1>1
<1>3. 0 \in N
  <2> SUFFICES ASSUME NEW T \in SUBSET S, Cardinality(T) = 0 PROVE Fine(T)  OBVIOUS
  <2>1. T = {}  BY FS_Subset, FS_EmptySet
  <2> QED  BY <1>2, <2>1
<1>4. ASSUME NEW n \in Nat, n \in N PROVE n + 1 \in N
  <2> SUFFICES ASSUME NEW T \in SUBSET S, Cardinality(T) = n + 1 PROVE Fine(T)  OBVIOUS
  <2> DEFINE c == One(T)
  <2>1. IsFiniteSet(T) /\ T # {}  BY FS_Subset, FS_EmptySet
  <2>2. ASSUME NEW x \in T PROVE Cardinality(T \ {x}) = n /\ T \ {x} \in SUBSET S
    <3>1. Cardinality(T \ {x}) = Cardinality(T) - 1  BY <2>1, FS_RemoveElement
    <3>2. (n + 1) - 1 = n  OBVIOUS
    <3> QED  BY <3>1, <3>2
  <2>3. \A x \in T : Fine(T \ {x})  BY <1>4, <2>2
  <2>4. c \in T /\ g[T] = f[c] + g[T \ {c}]  BY <1>1, <2>1 DEF One
  <2> HIDE DEF c
  <2>5. g[T] \in Nat  BY <2>3, <2>4
  <2>6. ASSUME NEW x \in T PROVE g[T \ {x}] \in Nat /\ g[T] = f[x] + g[T \ {x}]
    <3>0. g[T \ {x}] \in Nat  BY <2>3
    <3>1. CASE x = c  BY <2>4, <3>0, <3>1
    <3>2. CASE x # c
      <4>1. x \in T \ {c} /\ c \in T \ {x}  BY <2>4, <3>2
      <4>2. g[T \ {c}] = f[x] + g[(T \ {c}) \ {x}]  BY <2>3, <2>4, <4>1
      <4>3. g[T \ {x}] = f[c] + g[(T \ {x}) \ {c}]  BY <2>3, <4>1
      <4>4. (T \ {c}) \ {x} = (T \ {x}) \ {c}  OBVIOUS
      <4>5. g[T \ {c}] \in Nat /\ g[T \ {x}] \in Nat /\ f[x] \in Nat /\ f[c] \in Nat
        BY <2>3, <2>4
      <4>6. g[(T \ {c}) \ {x}] = g[(T \ {x}) \ {c}]  BY <4>4
      <4>7. g[(T \ {c}) \ {x}] \in Nat  BY <2>3, <2>4, <4>1
      <4> QED  BY <2>4, <4>2, <4>3, <4>5, <4>6, <4>7
    <3> QED  BY <3>1, <3>2
  <2> QED  BY <2>5, <2>6
<1> HIDE DEF N
<1>5. \A n \in Nat : n \in N  BY <1>3, <1>4, NumbersReached
<1>6. \A T \in SUBSET S : Cardinality(T) \in Nat  BY FS_Subset, FS_CardinalityType
<1>7. \A T \in SUBSET S : Fine(T)  BY <1>5, <1>6 DEF N
<1> QED  BY <1>2, <1>7 DEF Additive

(* So it is a number, and adds up over the elements in any order.          *)
LEMMA SumOfSet ==
  ASSUME NEW f, NEW S, IsFiniteSet(S), \A x \in S : f[x] \in Nat
  PROVE  \E g : SumOf(f, S) = g[S] /\ Additive(g, f, S)
<1> DEFINE g == CHOOSE g : Sums(f, g, S)
<1>1. Sums(f, g, S)
  <2>1. \E h : Sums(f, h, S)  BY SumExists
  <2> QED  BY Zenon, <2>1
<1>2. SumOf(f, S) = g[S]  BY Zenon, SumIs
<1> HIDE DEF g
<1>3. Additive(g, f, S)  BY <1>1, SumRule
<1> QED  BY <1>2, <1>3

(* Functions with the same values have the same sum.                       *)
LEMMA SumSame ==
  ASSUME NEW S, IsFiniteSet(S), NEW f, NEW h, \A x \in S : f[x] \in Nat /\ h[x] = f[x]
  PROVE  SumOf(f, S) = SumOf(h, S) /\ SumOf(f, S) \in Nat
<1>1. PICK g : SumOf(f, S) = g[S] /\ Additive(g, f, S)
  BY SumOfSet
<1>2. PICK k : SumOf(h, S) = k[S] /\ Additive(k, h, S)
  BY SumOfSet
<1> DEFINE K == {T \in SUBSET S : g[T] = k[T]}
<1>3. {} \in K  BY <1>1, <1>2 DEF Additive
<1>4. ASSUME NEW T \in SUBSET S, NEW x \in S, T \in K, x \notin T PROVE T \cup {x} \in K
  <2> DEFINE U == T \cup {x}
  <2>1. U \in SUBSET S /\ x \in U /\ U \ {x} = T  BY <1>4
  <2> HIDE DEF U
  <2>2. g[U] = f[x] + g[T] /\ k[U] = h[x] + k[T]  BY <1>1, <1>2, <2>1 DEF Additive
  <2> QED  BY <1>4, <2>1, <2>2 DEF U
<1> HIDE DEF K
<1>5. S \in K  BY <1>3, <1>4, SetsReached
<1> QED  BY <1>1, <1>2, <1>5 DEF K, Additive

\* Nothing adds up to 0.
LEMMA SumEmpty == ASSUME NEW f PROVE SumOf(f, {}) = 0
<1>1. IsFiniteSet({}) /\ \A x \in {} : f[x] \in Nat  BY FS_EmptySet
<1>2. \E g : SumOf(f, {}) = g[{}] /\ Additive(g, f, {})
  <2> DEFINE E == {}
  <2>1. IsFiniteSet(E) /\ \A x \in E : f[x] \in Nat  BY <1>1
  <2> HIDE DEF E
  <2>2. \E g : SumOf(f, E) = g[E] /\ Additive(g, f, E)  BY <2>1, SumOfSet
  <2> QED  BY <2>2 DEF E
<1> QED  BY <1>2 DEF Additive

(* One more element.                                                       *)
LEMMA SumAdds ==
  ASSUME NEW S, IsFiniteSet(S), NEW x, x \notin S,
         NEW f, \A y \in S \cup {x} : f[y] \in Nat
  PROVE  SumOf(f, S \cup {x}) = SumOf(f, S) + f[x]
<1> DEFINE U == S \cup {x}
<1>1. IsFiniteSet(U) /\ x \in U /\ U \ {x} = S /\ S \in SUBSET U  BY FS_AddElement
<1>2. \A y \in U : f[y] \in Nat  OBVIOUS
<1> HIDE DEF U
<1>3. PICK g : SumOf(f, U) = g[U] /\ Additive(g, f, U)
  BY <1>1, <1>2, SumOfSet
<1>4. PICK k : SumOf(f, S) = k[S] /\ Additive(k, f, S)
  BY <1>1, <1>2, SumOfSet
<1> DEFINE K == {T \in SUBSET S : g[T] = k[T]}
<1>5. {} \in K  BY <1>3, <1>4 DEF Additive
<1>6. ASSUME NEW T \in SUBSET S, NEW y \in S, T \in K, y \notin T PROVE T \cup {y} \in K
  <2> DEFINE V == T \cup {y}
  <2>1. V \in SUBSET S /\ V \in SUBSET U /\ y \in V /\ V \ {y} = T  BY <1>1, <1>6
  <2> HIDE DEF V
  <2>2. g[V] = f[y] + g[T] /\ k[V] = f[y] + k[T]  BY <1>3, <1>4, <2>1 DEF Additive
  <2> QED  BY <1>6, <2>1, <2>2 DEF V
<1> HIDE DEF K
<1>7. S \in K  BY <1>5, <1>6, SetsReached
<1>8. g[S] = k[S]  BY <1>7 DEF K
<1>9. g[U] = f[x] + g[S] /\ g[S] \in Nat /\ f[x] \in Nat  BY <1>1, <1>2, <1>3 DEF Additive
<1> QED  BY <1>3, <1>4, <1>8, <1>9 DEF U

(* The sum over two sets that share nothing.                               *)
LEMMA SumSplits ==
  ASSUME NEW A, IsFiniteSet(A), NEW B, IsFiniteSet(B), A \cap B = {},
         NEW f, \A x \in A \cup B : f[x] \in Nat,
         NEW g, \A x \in A : g[x] = f[x], NEW h, \A x \in B : h[x] = f[x]
  PROVE  /\ SumOf(f, A \cup B) = SumOf(g, A) + SumOf(h, B)
         /\ SumOf(g, A) \in Nat /\ SumOf(h, B) \in Nat
<1>1. SumOf(g, A) = SumOf(f, A) /\ SumOf(f, A) \in Nat  BY SumSame
<1>2. SumOf(h, B) = SumOf(f, B) /\ SumOf(f, B) \in Nat  BY SumSame
<1> DEFINE K == {T \in SUBSET B : SumOf(f, A \cup T) = SumOf(f, A) + SumOf(f, T)}
<1>3. {} \in K
  <2>1. A \cup {} = A  OBVIOUS
  <2> QED  BY <1>1, <2>1, SumEmpty
<1>4. ASSUME NEW T \in SUBSET B, NEW x \in B, T \in K, x \notin T PROVE T \cup {x} \in K
  <2>1. IsFiniteSet(T) /\ IsFiniteSet(A \cup T)  BY FS_Subset, FS_Union
  <2>2. SumOf(f, T \cup {x}) = SumOf(f, T) + f[x]  BY <1>4, <2>1, SumAdds
  <2> DEFINE V == A \cup T
  <2>3. IsFiniteSet(V) /\ x \notin V /\ \A y \in V \cup {x} : f[y] \in Nat  BY <1>4, <2>1
  <2>4. A \cup (T \cup {x}) = V \cup {x}  OBVIOUS
  <2> HIDE DEF V
  <2>5. SumOf(f, V \cup {x}) = SumOf(f, V) + f[x]  BY <2>3, SumAdds
  <2>6. SumOf(f, T) \in Nat /\ f[x] \in Nat  BY <2>1, SumSame
  <2>7. SumOf(f, V) = SumOf(f, A) + SumOf(f, T)  BY <1>4 DEF V
  <2>8. SumOf(f, V \cup {x}) = SumOf(f, A) + SumOf(f, T \cup {x})
    <3>1. SumOf(f, A) \in Nat  BY <1>1
    <3> QED  BY <2>2, <2>5, <2>6, <2>7, <3>1
  <2> QED  BY <1>4, <2>4, <2>8
<1> HIDE DEF K
<1>5. B \in K  BY <1>3, <1>4, SetsReached
<1> QED  BY <1>1, <1>2, <1>5 DEF K

-----------------------------------------------------------------------------
(* Counting logs.                                                          *)

(* A quotient that is rounded is off by half the divisor.                  *)
LEMMA RoundedNear ==
  ASSUME NEW a \in Nat, NEW n \in Nat \ {0}, NEW q, q = Rounded(a, n)
  PROVE  q \in Nat /\ 2 * (q * n) <= 2 * a + n /\ 2 * a < 2 * (q * n) + n
<1> DEFINE b == 2 * a + n
           m == 2 * n
<1>1. b \in Nat /\ m \in Nat \ {0} /\ q = b \div m  BY DEF Rounded
<1> HIDE DEF b, m
<1>2. q \in Nat  BY <1>1
<1>3. q * m <= b  BY <1>1
<1>4. b < q * m + m  BY <1>1
<1>5. q * m = 2 * (q * n)  BY <1>2 DEF m
<1>6. q * n \in Nat  BY <1>2
<1> HIDE DEF Rounded
<1> QED  BY <1>2, <1>3, <1>4, <1>5, <1>6 DEF b, m

(* Two sets that share nothing, counted together.                          *)
LEMMA CountSplits ==
  ASSUME NEW A, IsFiniteSet(A), NEW B, IsFiniteSet(B), A \cap B = {}
  PROVE  /\ Cardinality(A \cup B) = Cardinality(A) + Cardinality(B)
         /\ Cardinality(A) \in Nat /\ Cardinality(B) \in Nat /\ IsFiniteSet(A \cup B)
<1>1. Cardinality(A) \in Nat /\ Cardinality(B) \in Nat  BY FS_CardinalityType
<1>2. Cardinality(A \cap B) = 0  BY FS_EmptySet
<1>3. /\ IsFiniteSet(A \cup B)
      /\ Cardinality(A \cup B) = Cardinality(A) + Cardinality(B) - Cardinality(A \cap B)
  BY FS_Union
<1> QED  BY <1>1, <1>2, <1>3

\* The size that counts.
SizeOf(l) == IF Attr[l.id].size = None THEN 0 ELSE Attr[l.id].size

(* What the assumptions say of a log.                                      *)
LEMMA LogHas ==
  ASSUME NEW l \in Log
  PROVE  /\ Attr[l.id].success \in BOOLEAN /\ Attr[l.id].duration \in Nat
         /\ SizeOf(l) \in Nat /\ l.id \in Nat /\ l.time \in Nat
         /\ Attr[l.id].proxy # None => IsProxy(Attr[l.id].proxy)
<1>1. l.id \in Ids /\ l.time \in Times  BY DEF Log
<1>2. l.id \in DOMAIN Attr /\ l.id \in Nat /\ l.time \in Nat  BY <1>1, PagingAssumption
<1> QED  BY <1>2, FiguresAssumption DEF SizeOf

(* Two sets of logs that share none, counted together.                     *)
LEMMA LogsSplit ==
  ASSUME NEW A, IsFiniteSet(A), A \subseteq Log, NEW B, IsFiniteSet(B), B \subseteq Log,
         A \cap B = {}
  PROVE  /\ Cardinality(A \cup B) = Cardinality(A) + Cardinality(B)
         /\ Cardinality(Successes(A \cup B)) = Cardinality(Successes(A)) + Cardinality(Successes(B))
         /\ DurationSum(A \cup B) = DurationSum(A) + DurationSum(B)
         /\ SizeSum(A \cup B) = SizeSum(A) + SizeSum(B)
<1>1. Cardinality(A \cup B) = Cardinality(A) + Cardinality(B)  BY CountSplits
<1>2. Cardinality(Successes(A \cup B)) = Cardinality(Successes(A)) + Cardinality(Successes(B))
  <2>1. IsFiniteSet(Successes(A)) /\ IsFiniteSet(Successes(B))  BY FS_Subset DEF Successes
  <2>2. /\ Successes(A) \cap Successes(B) = {}
        /\ Successes(A \cup B) = Successes(A) \cup Successes(B)
    BY DEF Successes
  <2> QED  BY <2>1, <2>2, CountSplits
<1>3. DurationSum(A \cup B) = DurationSum(A) + DurationSum(B)
  <2> DEFINE f == [l \in A \cup B |-> Attr[l.id].duration]
             g == [l \in A |-> Attr[l.id].duration]
             h == [l \in B |-> Attr[l.id].duration]
  <2>1. /\ \A l \in A \cup B : f[l] \in Nat
        /\ \A l \in A : g[l] = f[l]
        /\ \A l \in B : h[l] = f[l]
    BY LogHas
  <2>2. DurationSum(A \cup B) = SumOf(f, A \cup B) /\ DurationSum(A) = SumOf(g, A)
        /\ DurationSum(B) = SumOf(h, B)
    BY DEF DurationSum
  <2> HIDE DEF f, g, h
  <2> QED  BY <2>1, <2>2, SumSplits
<1>4. SizeSum(A \cup B) = SizeSum(A) + SizeSum(B)
  <2> DEFINE f == [l \in A \cup B |-> SizeOf(l)]
             g == [l \in A |-> SizeOf(l)]
             h == [l \in B |-> SizeOf(l)]
  <2>1. /\ \A l \in A \cup B : f[l] \in Nat
        /\ \A l \in A : g[l] = f[l]
        /\ \A l \in B : h[l] = f[l]
    BY LogHas
  <2>2. SizeSum(A \cup B) = SumOf(f, A \cup B) /\ SizeSum(A) = SumOf(g, A)
        /\ SizeSum(B) = SumOf(h, B)
    BY DEF SizeSum, SizeOf
  <2> HIDE DEF f, g, h
  <2> QED  BY <2>1, <2>2, SumSplits
<1> QED  BY <1>1, <1>2, <1>3, <1>4

(* What counting a set of logs gives.                                      *)
LEMMA LogsCounted ==
  ASSUME NEW S, IsFiniteSet(S), S \subseteq Log
  PROVE  /\ Cardinality(S) \in Nat /\ (Cardinality(S) = 0 <=> S = {})
         /\ Cardinality(Successes(S)) \in Nat /\ IsFiniteSet(Successes(S))
         /\ Cardinality(Successes(S)) <= Cardinality(S)
         /\ Cardinality(S \ Successes(S)) = Cardinality(S) - Cardinality(Successes(S))
         /\ DurationSum(S) \in Nat /\ SizeSum(S) \in Nat
         /\ S = {} => DurationSum(S) = 0
<1>1. Cardinality(S) \in Nat /\ (Cardinality(S) = 0 <=> S = {})
  BY FS_CardinalityType, FS_EmptySet
<1>2. Successes(S) \subseteq S  BY DEF Successes
<1>3. IsFiniteSet(Successes(S)) /\ Cardinality(Successes(S)) <= Cardinality(S)
  BY <1>2, FS_Subset
<1>4. Cardinality(Successes(S)) \in Nat  BY <1>3, FS_CardinalityType
<1>5. Cardinality(S \ Successes(S)) = Cardinality(S) - Cardinality(Successes(S))
  <2>1. S \cap Successes(S) = Successes(S)  BY <1>2
  <2> QED  BY <2>1, FS_Difference
<1>6. DurationSum(S) \in Nat /\ SizeSum(S) \in Nat
  <2> DEFINE f == [l \in S |-> Attr[l.id].duration]
             g == [l \in S |-> SizeOf(l)]
  <2>1. \A l \in S : f[l] \in Nat /\ g[l] \in Nat  BY LogHas
  <2>2. DurationSum(S) = SumOf(f, S) /\ SizeSum(S) = SumOf(g, S)
    BY DEF DurationSum, SizeSum, SizeOf
  <2> HIDE DEF f, g
  <2> QED  BY <2>1, <2>2, SumSame
<1>7. S = {} => DurationSum(S) = 0  BY SumEmpty DEF DurationSum
<1> QED  BY <1>1, <1>3, <1>4, <1>5, <1>6, <1>7

(* One log more.                                                           *)
LEMMA LogAdded ==
  ASSUME NEW S, IsFiniteSet(S), S \subseteq Log, NEW l \in Log, l \notin S
  PROVE  /\ IsFiniteSet(S \cup {l}) /\ S \cup {l} \subseteq Log
         /\ Cardinality(S \cup {l}) = Cardinality(S) + 1
         /\ Cardinality(Successes(S \cup {l})) =
              Cardinality(Successes(S)) + (IF Attr[l.id].success THEN 1 ELSE 0)
         /\ DurationSum(S \cup {l}) = DurationSum(S) + Attr[l.id].duration
<1>1. IsFiniteSet(S \cup {l}) /\ Cardinality(S \cup {l}) = Cardinality(S) + 1
  BY FS_AddElement
<1>2. IsFiniteSet({l}) /\ Cardinality({l}) = 1  BY FS_Singleton
<1>3. /\ Cardinality(Successes(S \cup {l})) =
           Cardinality(Successes(S)) + Cardinality(Successes({l}))
      /\ DurationSum(S \cup {l}) = DurationSum(S) + DurationSum({l})
  BY <1>2, LogsSplit
<1>4. Cardinality(Successes({l})) = IF Attr[l.id].success THEN 1 ELSE 0
  <2>1. Successes({l}) = IF Attr[l.id].success THEN {l} ELSE {}  BY DEF Successes
  <2> QED  BY <1>2, <2>1, FS_EmptySet
<1>5. DurationSum({l}) = Attr[l.id].duration
  <2> DEFINE f == [m \in {l} |-> Attr[m.id].duration]
  <2>1. f[l] = Attr[l.id].duration /\ \A y \in {} \cup {l} : f[y] \in Nat  BY LogHas
  <2>2. DurationSum({l}) = SumOf(f, {l})  BY DEF DurationSum
  <2>3. IsFiniteSet({}) /\ l \notin {} /\ {} \cup {l} = {l}  BY FS_EmptySet
  <2> HIDE DEF f
  <2>4. SumOf(f, {} \cup {l}) = SumOf(f, {}) + f[l]  BY <2>1, <2>3, SumAdds
  <2>5. f[l] \in Nat  BY <2>1
  <2> QED  BY <2>1, <2>2, <2>3, <2>4, <2>5, SumEmpty
<1> QED  BY <1>1, <1>3, <1>4, <1>5

-----------------------------------------------------------------------------
(* The statistics.                                                         *)

(* The mean is off by half the number of logs in their sum.                *)
LEMMA MeanNear ==
  ASSUME NEW S, IsFiniteSet(S), S \subseteq Log,
         NEW n, n = Cardinality(S), NEW d, d = DurationSum(S), NEW m, m = MeanDuration(S)
  PROVE  /\ n \in Nat /\ d \in Nat /\ m \in Nat /\ m * n \in Nat
         /\ 2 * (m * n) <= 2 * d + n /\ 2 * d <= 2 * (m * n) + n
         /\ n # 0 => 2 * d < 2 * (m * n) + n
<1>1. n \in Nat /\ d \in Nat /\ (n = 0 <=> S = {})  BY LogsCounted
<1>2. CASE S = {}
  <2>1. n = 0 /\ d = 0 /\ m = 0  BY <1>2, LogsCounted DEF MeanDuration
  <2> QED  BY <2>1
<1>3. CASE S # {}
  <2>1. m = Rounded(d, n) /\ n \in Nat \ {0}  BY <1>1, <1>3 DEF MeanDuration
  <2>2. m \in Nat /\ 2 * (m * n) <= 2 * d + n /\ 2 * d < 2 * (m * n) + n
    BY <1>1, <2>1, RoundedNear
  <2>3. m * n \in Nat  BY <1>1, <2>2
  <2> QED  BY <1>1, <2>2, <2>3
<1> QED  BY <1>2, <1>3

(* Factors of n whose products differ by less than 3 n / 2 differ by one.  *)
LEMMA WithinOne ==
  ASSUME NEW a \in Nat, NEW b \in Nat, NEW n \in Nat \ {0}, 2 * (a * n) < 2 * (b * n) + 3 * n
  PROVE  a <= b + 1
<1> SUFFICES ASSUME a >= b + 2 PROVE FALSE  OBVIOUS
<1>1. a * n >= (b + 2) * n  OBVIOUS
<1>2. (b + 2) * n = b * n + 2 * n /\ a * n \in Nat /\ b * n \in Nat  OBVIOUS
<1> QED  BY <1>1, <1>2

(* What the server counted and what the browser adds are the figures of    *)
(* both together.                                                          *)
LEMMA StatsAreTrue ==
  ASSUME NEW base, IsFiniteSet(base), base \subseteq Log,
         NEW live, IsFiniteSet(live), live \subseteq Log, base \cap live = {}
  PROVE  StatsTrue(StatsMerged(Stats(base), live), base \cup live)
<1> DEFINE all == base \cup live
           st  == StatsMerged(Stats(base), live)
           nb  == Cardinality(base)
           nl  == Cardinality(live)
           n   == Cardinality(all)
           db  == DurationSum(base)
           dl  == DurationSum(live)
           d   == DurationSum(all)
           mb  == MeanDuration(base)
           m   == MeanDuration(all)
<1>1. IsFiniteSet(all) /\ all \subseteq Log  BY FS_Union
<1>2. n = nb + nl /\ d = db + dl /\ nb \in Nat /\ nl \in Nat /\ db \in Nat /\ dl \in Nat
      /\ Cardinality(Successes(all)) = Cardinality(Successes(base)) + Cardinality(Successes(live))
      /\ Cardinality(Successes(base)) \in Nat /\ Cardinality(Successes(live)) \in Nat
  BY LogsSplit, LogsCounted
<1>3. st.total = n /\ st.success = Cardinality(Successes(all))
      /\ st.errors = n - Cardinality(Successes(all))
      /\ st.avg = IF n = 0 THEN 0 ELSE Rounded(mb * nb + dl, n)
  BY <1>2 DEF StatsMerged, Stats
<1>4. st.codes = StatusCodes(all)
  <2> DEFINE Has(S)   == {l \in S : StatusOf(l) # None}
             Codes(S) == {StatusOf(l) : l \in Has(S)}
             With(S, c) == {l \in Has(S) : StatusOf(l) = c}
  <2>1. \A S : StatusCodes(S) = [c \in Codes(S) |-> Cardinality(With(S, c))]
    BY DEF StatusCodes, Grouped
  <2>2. Codes(all) = Codes(base) \cup Codes(live)  OBVIOUS
  <2>3. ASSUME NEW c
        PROVE  /\ Cardinality(With(all, c)) = Cardinality(With(base, c)) + Cardinality(With(live, c))
               /\ c \notin Codes(base) => Cardinality(With(base, c)) = 0
               /\ c \notin Codes(live) => Cardinality(With(live, c)) = 0
               /\ Cardinality(With(base, c)) \in Nat /\ Cardinality(With(live, c)) \in Nat
    <3>1. IsFiniteSet(With(base, c)) /\ IsFiniteSet(With(live, c))  BY FS_Subset
    <3>2. With(all, c) = With(base, c) \cup With(live, c) /\ With(base, c) \cap With(live, c) = {}
      OBVIOUS
    <3>3. /\ c \notin Codes(base) => With(base, c) = {}
          /\ c \notin Codes(live) => With(live, c) = {}
      OBVIOUS
    <3> HIDE DEF With, Codes
    <3> QED  BY <3>1, <3>2, <3>3, CountSplits, FS_EmptySet
  <2> DEFINE Of(S, c) == IF c \in Codes(S) THEN Cardinality(With(S, c)) ELSE 0
  <2>4. st.codes = [c \in Codes(base) \cup Codes(live) |-> Of(base, c) + Of(live, c)]
    <3> HIDE DEF Codes, With
    <3>1. /\ StatusCodes(base) = [c \in Codes(base) |-> Cardinality(With(base, c))]
          /\ StatusCodes(live) = [c \in Codes(live) |-> Cardinality(With(live, c))]
      BY <2>1
    <3> QED  BY <3>1 DEF StatsMerged, Stats
  <2>5. \A c : Of(base, c) + Of(live, c) = Cardinality(With(all, c))
    <3> HIDE DEF Codes, With
    <3> QED  BY <2>3
  <2> HIDE DEF Codes, With, Of, st, all
  <2>6. st.codes = [c \in Codes(all) |-> Cardinality(With(all, c))]  BY <2>2, <2>4, <2>5
  <2> QED  BY <2>1, <2>6
<1>5. st.avg - m \in -1 .. 1
  <2>1. /\ mb \in Nat /\ mb * nb \in Nat
        /\ 2 * (mb * nb) <= 2 * db + nb /\ 2 * db <= 2 * (mb * nb) + nb
    BY MeanNear
  <2>2. /\ m \in Nat /\ m * n \in Nat /\ n \in Nat /\ d \in Nat
        /\ 2 * (m * n) <= 2 * d + n /\ 2 * d <= 2 * (m * n) + n
        /\ n = 0 => m = 0
        /\ n # 0 => 2 * d < 2 * (m * n) + n
    BY <1>1, MeanNear, LogsCounted DEF MeanDuration
  <2>3. CASE n = 0  BY <1>3, <2>2, <2>3
  <2>4. CASE n # 0
    <3> DEFINE a == mb * nb + dl
               q == Rounded(a, n)
    <3>1. a \in Nat /\ n \in Nat \ {0}  BY <1>2, <2>1, <2>2, <2>4
    <3>2. st.avg = q  BY <1>3, <2>4
    <3>3. q \in Nat /\ 2 * (q * n) <= 2 * a + n /\ 2 * a < 2 * (q * n) + n
      BY <3>1, RoundedNear
    <3>4. q * n \in Nat /\ a = mb * nb + dl  BY <3>1, <3>3
    <3> HIDE DEF st, n, d, nb, nl, db, dl, mb, m, a, q
    <3>5. 2 * (q * n) < 2 * (m * n) + 3 * n  BY <1>2, <2>1, <2>2, <3>1, <3>3, <3>4
    <3>6. 2 * (m * n) < 2 * (q * n) + 3 * n  BY <1>2, <2>1, <2>2, <3>1, <3>3, <3>4
    <3>7. q <= m + 1 /\ m <= q + 1  BY <2>2, <3>1, <3>3, <3>5, <3>6, WithinOne
    <3> QED  BY <2>2, <3>2, <3>3, <3>7
  <2> QED  BY <2>3, <2>4
<1>6. st = [total |-> st.total, success |-> st.success, errors |-> st.errors, avg |-> st.avg,
            codes |-> st.codes]
  BY DEF StatsMerged
<1>7. st = [Stats(all) EXCEPT !.avg = st.avg]
  <2> HIDE DEF st, all, n
  <2>1. [Stats(all) EXCEPT !.avg = st.avg] =
          [total |-> n, success |-> Cardinality(Successes(all)),
           errors |-> n - Cardinality(Successes(all)), avg |-> st.avg, codes |-> StatusCodes(all)]
    BY DEF Stats, n
  <2> QED  BY <1>3, <1>4, <1>6, <2>1
<1> HIDE DEF st, all, m
<1>8. StatsTrue(st, all)  BY <1>5, <1>7 DEF StatsTrue, m
<1> QED  BY <1>8 DEF st, all

-----------------------------------------------------------------------------
(* Charts.                                                                 *)

\* The logs of a bucket.
Of(S, k) == {l \in S : ChartKey(l) = k}

\* A bucket counts the logs S; buckets describe them, each those of its key.
Counts(b, S) ==
  /\ b.total = Cardinality(S) /\ b.errors = Cardinality(S) - Cardinality(Successes(S))
  /\ b.avg \in Nat /\ Near(b.avg, S, 1)
Describes(b, S) ==
  /\ DOMAIN b = {ChartKey(l) : l \in S}
  /\ \A k \in DOMAIN b : Counts(b[k], Of(S, k))

(* One more rounding: the error grows by half the number of logs.          *)
LEMMA RoundingAdds ==
  ASSUME NEW a \in Nat, NEW n \in Nat, NEW d \in Nat, NEW e \in Nat,
         4 * (a * n - d) <= n * (n + 1), -4 * (a * n - d) <= n * (n + 1),
         NEW q, q = Rounded(a * n + e, n + 1)
  PROVE  /\ q \in Nat
         /\ 4 * (q * (n + 1) - (d + e)) <= (n + 1) * ((n + 1) + 1)
         /\ -4 * (q * (n + 1) - (d + e)) <= (n + 1) * ((n + 1) + 1)
<1> DEFINE p == a * n
           r == q * (n + 1)
           s == n * (n + 1)
<1>1. p \in Nat /\ n + 1 \in Nat \ {0} /\ p + e \in Nat /\ s \in Nat  OBVIOUS
<1>2. q \in Nat /\ 2 * r <= 2 * (p + e) + (n + 1) /\ 2 * (p + e) < 2 * r + (n + 1)
  BY <1>1, RoundedNear
<1>3. r \in Nat  BY <1>2
<1>4. (n + 1) * ((n + 1) + 1) = s + 2 * (n + 1)  OBVIOUS
<1>5. 4 * (p - d) <= s /\ -4 * (p - d) <= s  OBVIOUS
<1> HIDE DEF p, r, s
<1>6. 4 * (r - (d + e)) <= s + 2 * (n + 1) /\ -4 * (r - (d + e)) <= s + 2 * (n + 1)
  BY <1>1, <1>2, <1>3, <1>5
<1> QED  BY <1>2, <1>4, <1>6 DEF r

(* A bucket that counts S counts one log more.                             *)
LEMMA BucketGrows ==
  ASSUME NEW S, IsFiniteSet(S), S \subseteq Log, NEW l \in Log, l \notin S, NEW b,
         Counts(b, S), NEW c, c = Counted(b, l)
  PROVE  Counts(c, S \cup {l})
<1> DEFINE n == Cardinality(S)
           d == DurationSum(S)
           e == Attr[l.id].duration
           a == b.avg
           one == IF Attr[l.id].success THEN 1 ELSE 0
<1>1. n \in Nat /\ d \in Nat /\ Cardinality(Successes(S)) \in Nat  BY LogsCounted
<1>2. e \in Nat /\ one \in Nat  BY LogHas
<1>3. b.total = n /\ b.errors = n - Cardinality(Successes(S)) /\ a \in Nat
      /\ 4 * (a * n - d) <= n * (n + 1) /\ -4 * (a * n - d) <= n * (n + 1)
  BY DEF Counts, Near
<1>4. /\ Cardinality(S \cup {l}) = n + 1 /\ DurationSum(S \cup {l}) = d + e
      /\ Cardinality(Successes(S \cup {l})) = Cardinality(Successes(S)) + one
  BY LogAdded
<1>5. /\ c.total = n + 1 /\ c.errors = b.errors + 1 - one
      /\ c.avg = Rounded(a * n + e, n + 1)
  BY <1>3 DEF Counted
<1> HIDE DEF n, d, e, a, one
<1>6. /\ c.avg \in Nat
      /\ 4 * (c.avg * (n + 1) - (d + e)) <= (n + 1) * ((n + 1) + 1)
      /\ -4 * (c.avg * (n + 1) - (d + e)) <= (n + 1) * ((n + 1) + 1)
  BY <1>1, <1>2, <1>3, <1>5, RoundingAdds
<1>7. Near(c.avg, S \cup {l}, 1)  BY <1>4, <1>6 DEF Near
<1>8. c.errors = Cardinality(S \cup {l}) - Cardinality(Successes(S \cup {l}))
  BY <1>1, <1>2, <1>3, <1>4, <1>5
<1> QED  BY <1>4, <1>5, <1>6, <1>7, <1>8 DEF Counts

(* Buckets that describe S describe one log more.                          *)
LEMMA ChartGrows ==
  ASSUME NEW S, IsFiniteSet(S), S \subseteq Log, NEW l \in Log, l \notin S, NEW b, Describes(b, S)
  PROVE  Describes(CountedIn(b, l), S \cup {l})
<1> DEFINE k == ChartKey(l)
           T == S \cup {l}
           zero == [total |-> 0, success |-> 0, errors |-> 0, avg |-> 0]
           old == IF k \in DOMAIN b THEN b[k] ELSE zero
           c == CountedIn(b, l)
<1>1. c = [x \in DOMAIN b \cup {k} |-> IF x = k THEN Counted(old, l) ELSE b[x]]
  BY DEF CountedIn
<1>2. Of(T, k) = Of(S, k) \cup {l} /\ \A x : x # k => Of(T, x) = Of(S, x)  BY DEF Of
<1>3. DOMAIN b \cup {k} = {ChartKey(m) : m \in T}  BY DEF Describes
<1>4. /\ IsFiniteSet(Of(S, k)) /\ Of(S, k) \subseteq Log /\ l \notin Of(S, k)
  BY FS_Subset DEF Of
<1>5. Counts(old, Of(S, k))
  <2>1. CASE k \in DOMAIN b  BY <2>1 DEF Describes, Counts
  <2>2. CASE k \notin DOMAIN b
    <3>1. Of(S, k) = {}  BY <2>2 DEF Describes, Of
    <3>2. /\ Cardinality(Of(S, k)) = 0 /\ Cardinality(Successes(Of(S, k))) = 0
          /\ DurationSum(Of(S, k)) = 0
      <4>1. Successes({}) = {}  BY DEF Successes
      <4> QED  BY <1>4, <3>1, <4>1, LogsCounted, FS_EmptySet
    <3>3. old.total = 0 /\ old.avg = 0 /\ old.errors = 0  BY <2>2
    <3>4. Near(0, Of(S, k), 1)  BY <3>2 DEF Near
    <3> HIDE DEF old
    <3> QED  BY <3>2, <3>3, <3>4 DEF Counts
  <2> QED  BY <2>1, <2>2
<1> HIDE DEF old, c, T
<1>6. Counts(Counted(old, l), Of(S, k) \cup {l})  BY <1>4, <1>5, BucketGrows
<1>7. ASSUME NEW x \in DOMAIN c PROVE Counts(c[x], Of(T, x))
  <2>1. CASE x = k  BY <1>1, <1>2, <1>6, <2>1 DEF Counts
  <2>2. CASE x # k
    <3>1. x \in DOMAIN b /\ c[x] = b[x]  BY <1>1, <1>7, <2>2
    <3> QED  BY <1>2, <2>2, <3>1 DEF Describes, Counts
  <2> QED  BY <2>1, <2>2
<1>8. DOMAIN c = {ChartKey(m) : m \in T}  BY <1>1, <1>3
<1>9. Describes(c, T)  BY <1>7, <1>8 DEF Describes
<1> QED  BY <1>9 DEF c, T

\* One round of the loop: a log of before the range is left aside.
Round(b, l, since) == IF l.time < since THEN b ELSE CountedIn(b, l)

\* The buckets after the first i logs of s, for each i up to n.
Loop(g, b, s, since, n) ==
  g = [i \in 0 .. n |-> IF i = 0 THEN b ELSE Round(g[i - 1], s[i], since)]

(* The loop has a result: what it does in n rounds gives n + 1.            *)
LEMMA LoopRuns ==
  ASSUME NEW b, NEW s, NEW since, NEW m \in Nat
  PROVE  \E g : Loop(g, b, s, since, m)
<1> DEFINE N == {n \in Nat : \E g : Loop(g, b, s, since, n)}
<1>1. 0 \in N
  <2>1. Loop([i \in 0 .. 0 |-> b], b, s, since, 0)  BY DEF Loop
  <2> QED  BY <2>1
<1>2. ASSUME NEW n \in Nat, n \in N PROVE n + 1 \in N
  <2>1. PICK g : Loop(g, b, s, since, n)  BY <1>2
  <2> DEFINE h == [i \in 0 .. n + 1 |-> IF i = n + 1 THEN Round(g[n], s[n + 1], since) ELSE g[i]]
  <2>2. \A i \in 0 .. n : g[i] = IF i = 0 THEN b ELSE Round(g[i - 1], s[i], since)
    BY Zenon, <2>1 DEF Loop
  <2>3. ASSUME NEW i \in 0 .. n + 1
        PROVE  h[i] = IF i = 0 THEN b ELSE Round(h[i - 1], s[i], since)
    <3>1. CASE i = n + 1
      <4>1. i # 0 /\ i - 1 = n /\ h[n] = g[n] /\ n \in 0 .. n + 1  BY <3>1
      <4>2. h[i] = Round(g[n], s[n + 1], since)  BY <3>1
      <4> QED  BY <3>1, <4>1, <4>2
    <3>2. CASE i # n + 1 /\ i # 0
      <4>1. i \in 0 .. n /\ i - 1 \in 0 .. n + 1 /\ i - 1 # n + 1  BY <3>2
      <4>2. h[i] = g[i] /\ h[i - 1] = g[i - 1]  BY <3>2, <4>1
      <4> QED  BY <2>2, <3>2, <4>1, <4>2
    <3>3. CASE i = 0
      <4>1. 0 \in 0 .. n /\ 0 # n + 1  OBVIOUS
      <4> QED  BY <2>2, <3>3, <4>1
    <3> QED  BY <3>1, <3>2, <3>3
  <2>4. h = [i \in 0 .. n + 1 |-> h[i]]  BY Zenon
  <2>5. Loop(h, b, s, since, n + 1)
    <3> HIDE DEF h
    <3> QED  BY Zenon, <2>3, <2>4 DEF Loop
  <2> HIDE DEF h
  <2>6. n + 1 \in Nat /\ \E k : Loop(k, b, s, since, n + 1)  BY <2>5
  <2> QED  BY Zenon, <2>6
<1> HIDE DEF N
<1>3. \A n \in Nat : n \in N  BY <1>1, <1>2, NumbersReached
<1> QED  BY <1>3 DEF N

(* Logs that are counted one after another join those that were counted,   *)
(* but for those of before the range.                                      *)
LEMMA LoopCounts ==
  ASSUME NEW S, IsFiniteSet(S), S \subseteq Log, NEW b, Describes(b, S),
         NEW s \in Seq(Log), \A i, j \in DOMAIN s : i # j => s[i] # s[j],
         Range(s) \cap S = {}, NEW since \in Int
  PROVE  Describes(CountedAll(b, s, since), S \cup {l \in Range(s) : l.time >= since})
<1> DEFINE n == Len(s)
           g == CHOOSE g : Loop(g, b, s, since, n)
           Upto(i) == {l \in {s[j] : j \in 1 .. i} : l.time >= since}
           N == {i \in Nat : i <= n => Describes(g[i], S \cup Upto(i)) /\ IsFiniteSet(Upto(i))}
<1>1. n \in Nat /\ DOMAIN s = 1 .. n /\ \A i \in 1 .. n : s[i] \in Log  OBVIOUS
<1>2. Loop(g, b, s, since, n)
  <2>1. \E h : Loop(h, b, s, since, n)  BY <1>1, LoopRuns
  <2> QED  BY Zenon, <2>1
<1>3. CountedAll(b, s, since) = g[n]  BY Zenon DEF CountedAll, Loop, Round
<1> HIDE DEF g, n
<1>4. \A i \in 0 .. n : g[i] = IF i = 0 THEN b ELSE Round(g[i - 1], s[i], since)
  BY Zenon, <1>2 DEF Loop
<1>5. 0 \in N
  <2>1. Upto(0) = {} /\ S \cup Upto(0) = S  OBVIOUS
  <2>2. g[0] = b  BY <1>1, <1>4
  <2> HIDE DEF Upto
  <2> QED  BY <2>1, <2>2, FS_EmptySet
<1>6. ASSUME NEW i \in Nat, i \in N PROVE i + 1 \in N
  <2> SUFFICES ASSUME i + 1 <= n
               PROVE  Describes(g[i + 1], S \cup Upto(i + 1)) /\ IsFiniteSet(Upto(i + 1))
    OBVIOUS
  <2> DEFINE l == s[i + 1]
             T == S \cup Upto(i)
  <2>1. i <= n /\ i + 1 \in 1 .. n /\ i + 1 \in 0 .. n /\ i + 1 # 0 /\ (i + 1) - 1 = i
    BY <1>1
  <2>2. Describes(g[i], T) /\ IsFiniteSet(Upto(i))  BY <1>6, <2>1
  <2>3. g[i + 1] = Round(g[i], l, since)
    <3>1. g[i + 1] = Round(g[(i + 1) - 1], s[i + 1], since)  BY <1>4, <2>1
    <3> QED  BY <2>1, <3>1
  <2>4. \A j \in 1 .. i : j \in 1 .. n /\ j # i + 1  BY <1>1, <2>1
  <2>5. l \in Log /\ l \notin T
    <3>1. l \notin Upto(i)  BY <1>1, <2>1, <2>4
    <3>2. l \notin S  BY <1>1, <2>1 DEF Range
    <3> QED  BY <1>1, <2>1, <3>1, <3>2
  <2>6. T \subseteq Log  BY <1>1, <2>4
  <2>7. l.time \in Nat  BY <2>5, LogHas
  <2>8. Upto(i + 1) = IF l.time < since THEN Upto(i) ELSE Upto(i) \cup {l}
    <3>1. \A j : j \in 1 .. i + 1 <=> j \in 1 .. i \/ j = i + 1  OBVIOUS
    <3>2. Upto(i + 1) = Upto(i) \cup {m \in {l} : m.time >= since}  BY <3>1
    <3>3. {m \in {l} : m.time >= since} = IF l.time < since THEN {} ELSE {l}  BY <2>7
    <3> HIDE DEF Upto, l
    <3> QED  BY <3>2, <3>3
  <2> HIDE DEF Upto, l
  <2>9. CASE l.time < since
    <3>1. g[i + 1] = g[i] /\ Upto(i + 1) = Upto(i)  BY <2>3, <2>8, <2>9 DEF Round
    <3> QED  BY <2>2, <3>1
  <2>10. CASE ~(l.time < since)
    <3>1. g[i + 1] = CountedIn(g[i], l) /\ Upto(i + 1) = Upto(i) \cup {l}
      BY <2>3, <2>8, <2>10 DEF Round
    <3>2. IsFiniteSet(T)  BY <2>2, FS_Union
    <3>3. S \cup Upto(i + 1) = T \cup {l}  BY <3>1
    <3> HIDE DEF T
    <3>4. Describes(CountedIn(g[i], l), T \cup {l})  BY <2>2, <2>5, <2>6, <3>2, ChartGrows
    <3>5. IsFiniteSet(Upto(i) \cup {l})  BY <2>2, FS_AddElement
    <3> QED  BY <3>1, <3>3, <3>4, <3>5
  <2> QED  BY <2>9, <2>10
<1>7. Upto(n) = {l \in Range(s) : l.time >= since}
  <2>1. Range(s) = {s[j] : j \in 1 .. n}  BY <1>1 DEF Range
  <2> QED  BY <2>1
<1> HIDE DEF N, Upto
<1>8. \A i \in Nat : i \in N  BY <1>5, <1>6, NumbersReached
<1>9. n \in N  BY <1>1, <1>8
<1>10. Describes(g[n], S \cup Upto(n))  BY <1>1, <1>9 DEF N
<1> QED  BY <1>3, <1>7, <1>10

(* No buckets describe no logs.                                            *)
LEMMA NoneDescribed == Describes(<<>>, {})
<1>1. DOMAIN <<>> = {}  OBVIOUS
<1> QED  BY <1>1 DEF Describes

\* The time bucket of a log.
TimeOf(l) == l.time \div Width

\* The times of the chart that the table keeps.
Newest(S) ==
  {t \in {TimeOf(l) : l \in S} : Cardinality({u \in {TimeOf(l) : l \in S} : u > t}) < BarCount}

\* It is the first part of the key.
LEMMA KeyIs == ASSUME NEW l PROVE ChartKey(l)[1] = TimeOf(l)
BY DEF ChartKey, TimeOf

(* The table's buckets describe the logs of the newest times of a range.   *)
LEMMA TableDescribed ==
  ASSUME NEW A, IsFiniteSet(A), A \subseteq Log, NEW since,
         NEW S, S = {l \in A : l.time >= since}
  PROVE  Describes(TableChart(A, since), {l \in S : TimeOf(l) \in Newest(S)})
<1> DEFINE T == {l \in S : TimeOf(l) \in Newest(S)}
           c == TableChart(A, since)
<1>1. c = [k \in {ChartKey(l) : l \in T} |->
             [total |-> Cardinality(Of(T, k)), success |-> Cardinality(Successes(Of(T, k))),
              errors |-> Cardinality(Of(T, k) \ Successes(Of(T, k))),
              avg |-> MeanDuration(Of(T, k))]]
  <2> DEFINE Times1(R) == {ChartKey(l)[1] : l \in R}
             Kept(R) == {l \in R : ChartKey(l)[1] \in
                           {t \in Times1(R) : Cardinality({u \in Times1(R) : u > t}) < BarCount}}
  <2>1. Kept(S) = T
    <3>1. Times1(S) = {TimeOf(l) : l \in S}  BY KeyIs
    <3> HIDE DEF Times1
    <3> QED  BY <3>1, KeyIs DEF Newest
  <2>2. c = [k \in {ChartKey(l) : l \in Kept({m \in A : m.time >= since})} |->
               [total |-> Cardinality(Of(Kept({m \in A : m.time >= since}), k)),
                success |-> Cardinality(Successes(Of(Kept({m \in A : m.time >= since}), k))),
                errors |-> Cardinality(Of(Kept({m \in A : m.time >= since}), k)
                                         \ Successes(Of(Kept({m \in A : m.time >= since}), k))),
                avg |-> MeanDuration(Of(Kept({m \in A : m.time >= since}), k))]]
    BY DEF TableChart, Grouped, Of
  <2>3. Kept({m \in A : m.time >= since}) = T  BY <2>1
  <2> HIDE DEF Kept, T, c
  <2> QED  BY <2>2, <2>3
<1>2. IsFiniteSet(T) /\ T \subseteq Log  BY FS_Subset
<1> HIDE DEF T, c
<1>3. ASSUME NEW k \in DOMAIN c PROVE Counts(c[k], Of(T, k))
  <2> DEFINE H == Of(T, k)
             n == Cardinality(H)
             d == DurationSum(H)
             a == MeanDuration(H)
  <2>1. IsFiniteSet(H) /\ H \subseteq Log  BY <1>2, FS_Subset DEF Of
  <2>2. c[k].total = n /\ c[k].avg = a /\ c[k].errors = Cardinality(H \ Successes(H))
    BY <1>1
  <2> HIDE DEF H
  <2>3. Cardinality(H \ Successes(H)) = n - Cardinality(Successes(H))  BY <2>1, LogsCounted
  <2>4. /\ n \in Nat /\ d \in Nat /\ a \in Nat /\ a * n \in Nat
        /\ 2 * (a * n) <= 2 * d + n /\ 2 * d <= 2 * (a * n) + n
    BY <2>1, MeanNear
  <2> DEFINE p == a * n
             m == n * (n + 1)
  <2>5. m >= 2 * n /\ m \in Nat
    <3> HIDE DEF n
    <3>1. CASE n = 0  BY <3>1
    <3>2. CASE n >= 1  BY <2>4, <3>2
    <3> QED  BY <2>4, <3>1, <3>2
  <2>6. 4 * (p - d) <= m /\ -4 * (p - d) <= m
    <3> HIDE DEF p, m, n, d
    <3> QED  BY <2>4, <2>5 DEF p
  <2>7. Near(a, H, 1)  BY <2>6 DEF Near
  <2> HIDE DEF n, a
  <2> QED  BY <2>2, <2>3, <2>4, <2>7 DEF Counts, H, n
<1>4. DOMAIN c = {ChartKey(l) : l \in T}  BY <1>1
<1>5. Describes(c, T)  BY <1>3, <1>4 DEF Describes
<1> QED  BY <1>5 DEF c, T

(* The weighted sum of the means of some buckets is as near as one mean    *)
(* rounded with each of their logs.                                        *)
LEMMA BucketsAdd ==
  ASSUME NEW S, IsFiniteSet(S), S \subseteq Log, NEW b, NEW at, IsFiniteSet(at),
         \A k \in at : Counts(b[k], Of(S, k)),
         NEW f, f = [k \in at |-> b[k].avg * b[k].total],
         NEW g, g = [k \in at |-> b[k].total],
         NEW H, H = {l \in S : ChartKey(l) \in at}
  PROVE  /\ SumOf(f, at) \in Nat /\ SumOf(g, at) = Cardinality(H)
         /\ 4 * (SumOf(f, at) - DurationSum(H)) <= Cardinality(H) * (Cardinality(H) + 1)
         /\ -4 * (SumOf(f, at) - DurationSum(H)) <= Cardinality(H) * (Cardinality(H) + 1)
<1> DEFINE In(K) == {l \in S : ChartKey(l) \in K}
           Fine(K) == /\ SumOf(g, K) = Cardinality(In(K))
                      /\ 4 * (SumOf(f, K) - DurationSum(In(K)))
                           <= Cardinality(In(K)) * (Cardinality(In(K)) + 1)
                      /\ -4 * (SumOf(f, K) - DurationSum(In(K)))
                           <= Cardinality(In(K)) * (Cardinality(In(K)) + 1)
           Q == {K \in SUBSET at : Fine(K)}
<1>1. ASSUME NEW k \in at
      PROVE  /\ IsFiniteSet(Of(S, k)) /\ Of(S, k) \subseteq Log
             /\ f[k] = b[k].avg * Cardinality(Of(S, k)) /\ g[k] = Cardinality(Of(S, k))
             /\ f[k] \in Nat /\ g[k] \in Nat
  <2>1. IsFiniteSet(Of(S, k)) /\ Of(S, k) \subseteq Log  BY FS_Subset DEF Of
  <2>2. Cardinality(Of(S, k)) \in Nat  BY <2>1, LogsCounted
  <2>3. b[k].total = Cardinality(Of(S, k)) /\ b[k].avg \in Nat  BY DEF Counts
  <2>4. f[k] = b[k].avg * b[k].total /\ g[k] = b[k].total  OBVIOUS
  <2> QED  BY <2>1, <2>2, <2>3, <2>4
<1>2. \A K : IsFiniteSet(In(K)) /\ In(K) \subseteq Log  BY FS_Subset
<1>3. {} \in Q
  <2>1. In({}) = {}  OBVIOUS
  <2>2. Cardinality(In({})) = 0 /\ DurationSum(In({})) = 0  BY <2>1, <1>2, LogsCounted
  <2>3. SumOf(f, {}) = 0 /\ SumOf(g, {}) = 0  BY SumEmpty
  <2> HIDE DEF In
  <2>4. Fine({})  BY <2>2, <2>3
  <2> QED  BY <2>4
<1>4. ASSUME NEW K \in SUBSET at, NEW k \in at, K \in Q, k \notin K PROVE K \cup {k} \in Q
  <2> DEFINE n1 == Cardinality(In(K))
             n2 == Cardinality(Of(S, k))
             d1 == DurationSum(In(K))
             d2 == DurationSum(Of(S, k))
             s == SumOf(f, K)
  <2>1. In(K \cup {k}) = In(K) \cup Of(S, k) /\ In(K) \cap Of(S, k) = {}  BY <1>4 DEF Of
  <2>2. Fine(K)  BY <1>4
  <2> HIDE DEF In
  <2>3. /\ Cardinality(In(K \cup {k})) = n1 + n2 /\ DurationSum(In(K \cup {k})) = d1 + d2
    <3> DEFINE A == In(K)
               B == Of(S, k)
    <3>1. /\ IsFiniteSet(A) /\ A \subseteq Log /\ IsFiniteSet(B) /\ B \subseteq Log
          /\ A \cap B = {} /\ In(K \cup {k}) = A \cup B
      BY <1>1, <1>2, <2>1
    <3> HIDE DEF A, B
    <3>2. /\ Cardinality(A \cup B) = Cardinality(A) + Cardinality(B)
          /\ DurationSum(A \cup B) = DurationSum(A) + DurationSum(B)
      BY <3>1, LogsSplit
    <3> QED  BY <3>1, <3>2 DEF A, B
  <2>4. n1 \in Nat /\ n2 \in Nat /\ d1 \in Nat /\ d2 \in Nat  BY <1>1, <1>2, LogsCounted
  <2>5. IsFiniteSet(K) /\ \A y \in K \cup {k} : f[y] \in Nat /\ g[y] \in Nat  BY <1>1, FS_Subset
  <2>6. s \in Nat  BY <2>5, SumSame
  <2>7. SumOf(f, K \cup {k}) = s + f[k]  BY <1>4, <2>5, SumAdds
  <2>8. SumOf(g, K \cup {k}) = SumOf(g, K) + g[k]  BY <1>4, <2>5, SumAdds
  <2>9. SumOf(g, K) = n1 /\ 4 * (s - d1) <= n1 * (n1 + 1) /\ -4 * (s - d1) <= n1 * (n1 + 1)
    BY <2>2
  <2>10. /\ 4 * (f[k] - d2) <= n2 * (n2 + 1) /\ -4 * (f[k] - d2) <= n2 * (n2 + 1)
         /\ g[k] = n2 /\ f[k] \in Nat
    <3>1. Near(b[k].avg, Of(S, k), 1)  BY DEF Counts
    <3> QED  BY <1>1, <3>1 DEF Near
  <2> HIDE DEF n1, n2, d1, d2, s, Fine
  <2>11. n1 * (n1 + 1) + n2 * (n2 + 1) <= (n1 + n2) * ((n1 + n2) + 1)
    <3>1. (n1 + n2) * ((n1 + n2) + 1) = n1 * (n1 + 1) + n2 * (n2 + 1) + 2 * (n1 * n2)  BY <2>4
    <3>2. n1 * n2 \in Nat /\ n1 * (n1 + 1) \in Nat /\ n2 * (n2 + 1) \in Nat  BY <2>4
    <3> QED  BY <3>1, <3>2
  <2>12. n1 * (n1 + 1) \in Nat /\ n2 * (n2 + 1) \in Nat /\ (n1 + n2) * ((n1 + n2) + 1) \in Nat
    BY <2>4
  <2>13. /\ 4 * ((s + f[k]) - (d1 + d2)) <= (n1 + n2) * ((n1 + n2) + 1)
         /\ -4 * ((s + f[k]) - (d1 + d2)) <= (n1 + n2) * ((n1 + n2) + 1)
    BY <2>4, <2>6, <2>9, <2>10, <2>11, <2>12
  <2>14. Fine(K \cup {k})  BY <2>3, <2>7, <2>8, <2>9, <2>10, <2>13 DEF Fine
  <2> QED  BY <2>14
<1> HIDE DEF Q
<1>5. at \in Q  BY <1>3, <1>4, SetsReached
<1>6. Fine(at)  BY <1>5 DEF Q
<1>7. SumOf(f, at) \in Nat  BY <1>1, SumSame
<1>8. In(at) = H  OBVIOUS
<1> HIDE DEF In
<1> QED  BY <1>6, <1>7, <1>8

(* The width of a bucket is positive.                                      *)
LEMMA WidthIs == Width \in Nat \ {0}
<1> DEFINE w == ChartRange \div BarCount
<1>1. w \in Nat  BY FiguresAssumption
<1> HIDE DEF w
<1>2. Width = Max({1, w})  BY DEF Width, w
<1>3. CASE w >= 1
  <2>1. \A x \in {1, w} : (\A y \in {1, w} : x >= y) <=> x = w  BY <1>1, <1>3
  <2>2. Max({1, w}) = w  BY <1>1, <2>1 DEF Max
  <2> QED  BY <1>1, <1>2, <1>3, <2>2
<1>4. CASE ~(w >= 1)
  <2>1. \A x \in {1, w} : (\A y \in {1, w} : x >= y) <=> x = 1  BY <1>1, <1>4
  <2>2. Max({1, w}) = 1  BY <1>1, <2>1 DEF Max
  <2> QED  BY <1>2, <2>2
<1> QED  BY <1>3, <1>4

(* A bucket begins no later than the logs that are in it.                  *)
LEMMA BucketBegins ==
  ASSUME NEW a \in Nat
  PROVE  a \div Width \in Nat /\ (a \div Width) * Width <= a
<1> DEFINE w == Width
           x == a \div w
<1>1. w \in Nat \ {0}  BY WidthIs
<1> HIDE DEF w
<1> QED  BY <1>1 DEF w

(* Later times are in no earlier bucket.                                   *)
LEMMA BucketsOrdered ==
  ASSUME NEW a \in Nat, NEW b \in Nat, a <= b
  PROVE  a \div Width \in Nat /\ b \div Width \in Nat /\ a \div Width <= b \div Width
<1> DEFINE w == Width
           x == a \div w
           y == b \div w
<1>1. w \in Nat \ {0}  BY WidthIs
<1> HIDE DEF w
<1>2. x \in Nat /\ y \in Nat  BY <1>1
<1>3. x * w <= a  BY <1>1
<1>4. b < y * w + w  BY <1>1
<1> HIDE DEF x, y
<1>5. ASSUME x >= y + 1 PROVE FALSE
  <2>1. x * w >= (y + 1) * w  BY <1>1, <1>2, <1>5
  <2>2. (y + 1) * w = y * w + w /\ y * w \in Nat /\ x * w \in Nat  BY <1>1, <1>2
  <2> QED  BY <1>3, <1>4, <2>1, <2>2, <1>1
<1>6. x <= y  BY <1>2, <1>5
<1> QED  BY <1>2, <1>6 DEF x, y, w

(* The latency that is shown of a time is as near as one mean that is      *)
(* rounded once more.                                                      *)
LEMMA LatencyNear ==
  ASSUME NEW all, IsFiniteSet(all), all \subseteq Log, NEW chart, NEW at, IsFiniteSet(at),
         \A k \in at : Counts(chart[k], Of(all, k)),
         NEW H, H = {l \in all : ChartKey(l) \in at}, H # {},
         NEW f, f = [k \in at |-> chart[k].avg * chart[k].total],
         NEW g, g = [k \in at |-> chart[k].total],
         NEW q, q = Rounded(SumOf(f, at), SumOf(g, at))
  PROVE  Near(q, H, 3)
<1> DEFINE n == Cardinality(H)
           d == DurationSum(H)
           a == SumOf(f, at)
<1>1. IsFiniteSet(H) /\ H \subseteq Log  BY FS_Subset
<1>2. q = Rounded(a, SumOf(g, at))  OBVIOUS
<1>3. n \in Nat \ {0} /\ d \in Nat  BY <1>1, LogsCounted
<1>4. /\ a \in Nat /\ SumOf(g, at) = n
      /\ 4 * (a - d) <= n * (n + 1) /\ -4 * (a - d) <= n * (n + 1)
  BY BucketsAdd
<1> HIDE DEF n, d, a
<1>5. q \in Nat /\ 2 * (q * n) <= 2 * a + n /\ 2 * a < 2 * (q * n) + n
  BY <1>2, <1>3, <1>4, RoundedNear
<1> DEFINE p == q * n
           m == n * (n + 1)
<1>6. p \in Nat /\ m \in Nat /\ n * (n + 3) = m + 2 * n  BY <1>3, <1>5
<1>7. 4 * (p - d) <= n * (n + 3) /\ -4 * (p - d) <= n * (n + 3)
  <2>1. 4 * (a - d) <= m /\ -4 * (a - d) <= m /\ 2 * p <= 2 * a + n /\ 2 * a < 2 * p + n
    BY <1>4, <1>5
  <2> HIDE DEF p, m
  <2> QED  BY <1>3, <1>4, <1>6, <2>1
<1> QED  BY <1>7 DEF Near, n, d

\* The table leaves out a log's time for as many later ones as a chart has.
LeftOut(l, recent) ==
  /\ backend = "postgres"
  /\ Cardinality({u \in {TimeOf(m) : m \in recent} : u > TimeOf(l)}) >= BarCount

(* A chart that describes some logs, with each of the range whose time it  *)
(* shows, is true of all of them.                                          *)
LEMMA ChartIsTrue ==
  ASSUME NEW all, IsFiniteSet(all), all \subseteq Log, NEW S, S \subseteq all,
         NEW chart, Describes(chart, S), NEW since \in Int,
         NEW recent, recent = {l \in all : l.time >= since},
         \A l \in recent, m \in S : TimeOf(l) = TimeOf(m) => l \in S,
         \A l \in recent : l \in S \/ LeftOut(l, recent)
  PROVE  ChartTrue(chart, all, since)
<1> DEFINE times == {k[1] : k \in DOMAIN chart}
           Within(t) == t * Width >= since
<1>1. DOMAIN chart = {ChartKey(l) : l \in S}  BY DEF Describes
<1>2. times = {TimeOf(l) : l \in S}  BY <1>1, KeyIs
<1>3. ASSUME NEW l \in all, Within(TimeOf(l)) PROVE l \in recent
  <2>1. l.time \in Nat  BY LogHas
  <2>2. TimeOf(l) * Width <= l.time /\ TimeOf(l) * Width \in Nat
    BY <2>1, BucketBegins, WidthIs DEF TimeOf
  <2> QED  BY <1>3, <2>1, <2>2
<1>4. ASSUME NEW k \in DOMAIN chart
      PROVE  /\ Counts(chart[k], Of(S, k)) /\ Of(S, k) \subseteq Of(all, k)
             /\ Of(all, k) \cap recent \subseteq Of(S, k)
             /\ Within(k[1]) => Of(all, k) = Of(S, k)
  <2>1. PICK m \in S : k = ChartKey(m)  BY <1>1
  <2>2. \A l \in Of(all, k) : l \in all /\ TimeOf(l) = TimeOf(m)  BY <2>1, KeyIs DEF Of
  <2>3. Of(S, k) \subseteq Of(all, k) /\ Of(all, k) \cap recent \subseteq Of(S, k)
    BY <2>2 DEF Of
  <2>4. ASSUME Within(k[1]) PROVE Of(all, k) \subseteq recent
    <3>1. k[1] = TimeOf(m)  BY <2>1, KeyIs
    <3>2. \A l \in Of(all, k) : l \in all /\ Within(TimeOf(l))  BY <2>2, <2>4, <3>1
    <3> QED  BY <1>3, <3>2
  <2> QED  BY <2>3, <2>4 DEF Describes
<1>5. ASSUME NEW t \in times, Within(t)
      PROVE  Near(LatencyAt(chart, t), {l \in all : TimeOf(l) = t}, 3)
  <2> DEFINE at == {k \in DOMAIN chart : k[1] = t}
             H == {l \in all : ChartKey(l) \in at}
  <2>1. IsFiniteSet(at)
    <3>1. IsFiniteSet(S)  BY FS_Subset
    <3>2. [l \in S |-> ChartKey(l)] \in Surjection(S, {ChartKey(l) : l \in S})
      BY DEF Surjection
    <3>3. IsFiniteSet({ChartKey(l) : l \in S})  BY <3>1, <3>2, FS_Surjection
    <3> QED  BY <1>1, <3>3, FS_Subset
  <2>2. H = {l \in all : TimeOf(l) = t}
    <3>1. PICK m \in S : t = TimeOf(m)  BY <1>2
    <3>2. ASSUME NEW l \in all, TimeOf(l) = t PROVE ChartKey(l) \in at
      <4>1. Within(TimeOf(l))  BY <1>5, <3>2
      <4> HIDE DEF Within
      <4>2. l \in recent  BY <1>3, <4>1
      <4>3. l \in S  BY <3>1, <3>2, <4>2
      <4> QED  BY <1>1, <3>2, <4>3, KeyIs
    <3> QED  BY <3>2, KeyIs
  <2>3. H # {}  BY <1>2, <2>2
  <2>4. \A k \in at : Counts(chart[k], Of(all, k))
    <3> SUFFICES ASSUME NEW k \in at PROVE Counts(chart[k], Of(all, k))  OBVIOUS
    <3>1. k \in DOMAIN chart /\ Within(k[1])  BY <1>5
    <3> HIDE DEF Within
    <3> QED  BY <1>4, <3>1
  <2> HIDE DEF at, H, Within
  <2>5. Near(LatencyAt(chart, t), H, 3)
    <3> DEFINE f == [k \in at |-> chart[k].avg * chart[k].total]
               g == [k \in at |-> chart[k].total]
               q == LatencyAt(chart, t)
    <3>1. q = Rounded(SumOf(f, at), SumOf(g, at))  BY DEF LatencyAt, at
    <3>2. H = {l \in all : ChartKey(l) \in at}  BY DEF H
    <3> HIDE DEF f, g, q
    <3>3. Near(q, H, 3)  BY <2>1, <2>3, <2>4, <3>1, <3>2, LatencyNear DEF f, g
    <3> QED  BY <3>3 DEF q
  <2> QED  BY <2>2, <2>5
<1>6. ASSUME NEW k \in DOMAIN chart
      PROVE  LET here == {l \in all : ChartKey(l) = k} IN
             /\ Cardinality(here \cap recent) <= chart[k].total
             /\ chart[k].total <= Cardinality(here)
             /\ Within(k[1]) =>
                  /\ chart[k].total = Cardinality(here) /\ Near(chart[k].avg, here, 1)
                  /\ chart[k].errors = Cardinality(here) - Cardinality(Successes(here))
  <2> DEFINE here == {l \in all : ChartKey(l) = k}
  <2>1. here = Of(all, k) /\ IsFiniteSet(here)  BY FS_Subset DEF Of
  <2> HIDE DEF here, Within
  <2>2. chart[k].total = Cardinality(Of(S, k))  BY <1>4 DEF Counts
  <2>3. IsFiniteSet(Of(S, k)) /\ Cardinality(Of(S, k)) <= Cardinality(here)
    BY <1>4, <2>1, FS_Subset
  <2>4. Cardinality(here \cap recent) <= Cardinality(Of(S, k))
    BY <1>4, <2>1, <2>3, FS_Subset
  <2>5. Within(k[1]) => Counts(chart[k], here)  BY <1>4, <2>1
  <2> QED  BY <2>2, <2>3, <2>4, <2>5 DEF Counts, here
<1>7. \A l \in recent :
        \/ TimeOf(l) \in times
        \/ /\ backend = "postgres"
           /\ Cardinality({u \in {TimeOf(m) : m \in recent} : u > TimeOf(l)}) >= BarCount
  BY <1>2 DEF LeftOut
<1> QED  BY <1>5, <1>6, <1>7 DEF ChartTrue, TimeOf

-----------------------------------------------------------------------------
(* Hosts and proxies.                                                      *)

(* Fewer buckets than the limit are all there are.                         *)
LEMMA LargestAreAll ==
  ASSUME NEW b, IsFiniteSet(DOMAIN b), NEW n \in Nat, NEW c \in Largest(b, n),
         Cardinality(DOMAIN c) < n
  PROVE  c = [k \in DOMAIN b |-> b[k]]
<1> DEFINE m == Cardinality(DOMAIN b)
<1>1. PICK K \in SUBSET DOMAIN b : c = Restrict(b, K) /\ Cardinality(K) = Min({n, m})
  BY DEF Largest
<1>2. c = [k \in K |-> b[k]] /\ DOMAIN c = K  BY <1>1 DEF Restrict
<1>3. m \in Nat  BY FS_CardinalityType
<1>4. Cardinality(K) = IF n <= m THEN n ELSE m  BY <1>1, <1>3, MinOf
<1>5. Cardinality(K) = m  BY <1>2, <1>3, <1>4
<1>6. K = DOMAIN b  BY <1>5, FS_Subset
<1> QED  BY <1>2, <1>6

(* The logs of all hosts are all logs of the range.                        *)
LEMMA HostsAreTrue ==
  ASSUME NEW S, IsFiniteSet(S), S \subseteq Log, NEW since, NEW hosts \in HostStats(S, since),
         NEW all, all = {l \in S : l.time >= since}
  PROVE  HostsTrue(hosts, Cardinality(all))
<1> DEFINE From(h) == {l \in all : HostOf(l) = h}
           b == [h \in {HostOf(l) : l \in all} |-> HostVolume(From(h))]
           f == [h \in DOMAIN hosts |-> hosts[h].count]
           In(K) == {l \in all : HostOf(l) \in K}
           Q == {K \in SUBSET DOMAIN hosts : SumOf(f, K) = Cardinality(In(K))}
<1> SUFFICES ASSUME Cardinality(DOMAIN hosts) < MaxHosts
             PROVE  SumOf(f, DOMAIN hosts) = Cardinality(all)
  BY DEF HostsTrue
<1>0. IsFiniteSet(all) /\ all \subseteq Log  BY FS_Subset
<1>1. hosts \in Largest(b, MaxHosts)  BY DEF HostStats, Grouped
<1>2. IsFiniteSet(DOMAIN b)
  <2>1. [l \in all |-> HostOf(l)] \in Surjection(all, {HostOf(l) : l \in all})  BY DEF Surjection
  <2> QED  BY <1>0, <2>1, FS_Surjection
<1>3. hosts = [h \in DOMAIN b |-> b[h]]
  <2> HIDE DEF b
  <2> QED  BY <1>1, <1>2, LargestAreAll, FiguresAssumption
<1>4. DOMAIN hosts = {HostOf(l) : l \in all} /\ IsFiniteSet(DOMAIN hosts)  BY <1>2, <1>3
<1>5. ASSUME NEW h \in DOMAIN hosts
      PROVE  f[h] = Cardinality(From(h)) /\ f[h] \in Nat /\ IsFiniteSet(From(h))
  <2>1. hosts[h] = HostVolume(From(h))  BY <1>3, <1>4
  <2>2. hosts[h].count = Cardinality(From(h))
    <3> HIDE DEF From
    <3> QED  BY <2>1 DEF HostVolume
  <2>3. IsFiniteSet(From(h))  BY <1>0, FS_Subset
  <2> QED  BY <2>2, <2>3, FS_CardinalityType
<1> HIDE DEF f
<1>6. {} \in Q
  <2>1. In({}) = {}  OBVIOUS
  <2> QED  BY <2>1, SumEmpty, FS_EmptySet
<1>7. ASSUME NEW K \in SUBSET DOMAIN hosts, NEW h \in DOMAIN hosts, K \in Q, h \notin K
      PROVE  K \cup {h} \in Q
  <2>1. IsFiniteSet(K)  BY <1>4, FS_Subset
  <2>2. SumOf(f, K \cup {h}) = SumOf(f, K) + f[h]  BY <1>5, <1>7, <2>1, SumAdds
  <2>3. In(K \cup {h}) = In(K) \cup From(h) /\ In(K) \cap From(h) = {}  BY <1>7
  <2>4. IsFiniteSet(In(K))  BY <1>0, FS_Subset
  <2>5. SumOf(f, K) = Cardinality(In(K))  BY <1>7
  <2> HIDE DEF In, From
  <2>6. Cardinality(In(K \cup {h})) = Cardinality(In(K)) + Cardinality(From(h))
    BY <1>5, <2>3, <2>4, CountSplits
  <2>7. SumOf(f, K \cup {h}) = Cardinality(In(K \cup {h}))  BY <1>5, <2>2, <2>5, <2>6
  <2> QED  BY <2>7
<1> HIDE DEF Q
<1>8. DOMAIN hosts \in Q  BY <1>4, <1>6, <1>7, SetsReached
<1>9. In(DOMAIN hosts) = all  BY <1>4
<1> QED  BY <1>8, <1>9 DEF Q

(* What the answer says of a proxy and what the new logs say add up.       *)
LEMMA ProxiesAreTrue ==
  ASSUME NEW base, IsFiniteSet(base), base \subseteq Log,
         NEW live, IsFiniteSet(live), live \subseteq Log, base \cap live = {},
         NEW memory, NEW proxies \in ProxyStats(base, memory)
  PROVE  ProxiesTrue(proxies, live, base \cup live)
<1> DEFINE all == base \cup live
           Keys(S) == {ProxyKey(l) : l \in Proxied(S)}
           With(S, k) == {l \in Proxied(S) : ProxyKey(l) = k}
<1> SUFFICES ASSUME Cardinality(DOMAIN proxies) < MaxProxies
             PROVE  ProxiesMerged(proxies, live) = AllProxies(all)
  BY DEF ProxiesTrue
<1>1. \A S : AllProxies(S) = [k \in Keys(S) |-> Volume(With(S, k))]
  BY DEF AllProxies, Grouped
<1>2. \A S : Proxied(S) \subseteq S  BY DEF Proxied
<1>3. proxies = [k \in Keys(base) |-> Volume(With(base, k))]
  <2>1. CASE memory  BY <1>1, <2>1 DEF ProxyStats
  <2>2. CASE ~memory
    <3>1. IsFiniteSet(Proxied(base))  BY <1>2, FS_Subset
    <3>2. [l \in Proxied(base) |-> ProxyKey(l)] \in Surjection(Proxied(base), Keys(base))
      BY DEF Surjection
    <3>3. IsFiniteSet(Keys(base))  BY <3>1, <3>2, FS_Surjection
    <3> HIDE DEF Keys, With
    <3>4. DOMAIN AllProxies(base) = Keys(base)  BY <1>1
    <3>5. proxies \in Largest(AllProxies(base), MaxProxies)  BY <2>2 DEF ProxyStats
    <3>6. proxies = [k \in DOMAIN AllProxies(base) |-> AllProxies(base)[k]]
      BY <3>3, <3>4, <3>5, LargestAreAll, FiguresAssumption
    <3> QED  BY <1>1, <3>4, <3>6
  <2> QED  BY <2>1, <2>2
<1>4. Keys(all) = Keys(base) \cup Keys(live)  BY DEF Proxied
<1>5. ASSUME NEW k
      PROVE  /\ Volume(With(all, k)) =
                  [count   |-> Volume(With(base, k)).count + Volume(With(live, k)).count,
                   success |-> Volume(With(base, k)).success + Volume(With(live, k)).success,
                   errors  |-> Volume(With(base, k)).errors + Volume(With(live, k)).errors,
                   size    |-> Volume(With(base, k)).size + Volume(With(live, k)).size]
             /\ k \notin Keys(base) => With(all, k) = With(live, k)
             /\ k \notin Keys(live) => With(all, k) = With(base, k)
  <2> DEFINE A == With(base, k)
             B == With(live, k)
  <2>1. With(all, k) = A \cup B /\ A \cap B = {}  BY DEF Proxied
  <2>2. A \subseteq base /\ B \subseteq live  BY DEF Proxied
  <2>3. IsFiniteSet(A) /\ IsFiniteSet(B) /\ A \subseteq Log /\ B \subseteq Log
    BY <2>2, FS_Subset
  <2>4. /\ k \notin Keys(base) => A = {}
        /\ k \notin Keys(live) => B = {}
    OBVIOUS
  <2> HIDE DEF A, B
  <2>5. /\ Cardinality(A \cup B) = Cardinality(A) + Cardinality(B)
        /\ Cardinality(Successes(A \cup B)) = Cardinality(Successes(A)) + Cardinality(Successes(B))
        /\ SizeSum(A \cup B) = SizeSum(A) + SizeSum(B)
    BY <2>1, <2>3, LogsSplit
  <2>6. Cardinality((A \cup B) \ Successes(A \cup B)) =
          Cardinality(A \ Successes(A)) + Cardinality(B \ Successes(B))
    <3>1. IsFiniteSet(A \cup B) /\ A \cup B \subseteq Log  BY <2>3, FS_Union
    <3>2. /\ Cardinality(A) \in Nat /\ Cardinality(B) \in Nat
          /\ Cardinality(Successes(A)) \in Nat /\ Cardinality(Successes(B)) \in Nat
          /\ Cardinality(A \ Successes(A)) = Cardinality(A) - Cardinality(Successes(A))
          /\ Cardinality(B \ Successes(B)) = Cardinality(B) - Cardinality(Successes(B))
      BY <2>3, LogsCounted
    <3>3. Cardinality((A \cup B) \ Successes(A \cup B)) =
            Cardinality(A \cup B) - Cardinality(Successes(A \cup B))
      BY <3>1, LogsCounted
    <3> QED  BY <2>5, <3>2, <3>3
  <2>7. Volume(A \cup B) =
          [count   |-> Volume(A).count + Volume(B).count,
           success |-> Volume(A).success + Volume(B).success,
           errors  |-> Volume(A).errors + Volume(B).errors,
           size    |-> Volume(A).size + Volume(B).size]
    BY <2>5, <2>6 DEF Volume
  <2>8. /\ k \notin Keys(base) => A \cup B = B
        /\ k \notin Keys(live) => A \cup B = A
    BY <2>4
  <2> HIDE DEF With, all
  <2> QED  BY <2>1, <2>7, <2>8 DEF A, B
<1> HIDE DEF all, Keys, With
<1>6. AllProxies(live) = [k \in Keys(live) |-> Volume(With(live, k))]  BY <1>1
<1>7. ProxiesMerged(proxies, live) = [k \in Keys(base) \cup Keys(live) |-> Volume(With(all, k))]
  <2>1. ProxiesMerged(proxies, live) =
          [k \in Keys(base) \cup Keys(live) |->
             IF k \notin Keys(live) THEN Volume(With(base, k))
             ELSE IF k \notin Keys(base) THEN Volume(With(live, k))
             ELSE [count   |-> Volume(With(base, k)).count + Volume(With(live, k)).count,
                   success |-> Volume(With(base, k)).success + Volume(With(live, k)).success,
                   errors  |-> Volume(With(base, k)).errors + Volume(With(live, k)).errors,
                   size    |-> Volume(With(base, k)).size + Volume(With(live, k)).size]]
    <3> HIDE DEF Volume
    <3> QED  BY <1>3, <1>6 DEF ProxiesMerged
  <2> HIDE DEF Volume
  <2> QED  BY <1>5, <2>1
<1> QED  BY <1>1, <1>4, <1>7

-----------------------------------------------------------------------------
(* The figures of what is stored.                                          *)

\* No log is at two positions.
Apart(s) == \A i, j \in DOMAIN s : i # j => s[i] # s[j]

(* What is left are the logs at the positions, each once.                  *)
LEMMA LeftIs ==
  ASSUME logs \in Seq(Log), NEW I, I \subseteq DOMAIN logs, NEW s, s = Left(I)
  PROVE  /\ s \in Seq(Log) /\ Range(s) = {logs[i] : i \in I}
         /\ Apart(logs) => Apart(s)
<1> DEFINE n == Len(logs)
           p == First(n, I, Upwards(I))
<1>1. DOMAIN logs = 1 .. n /\ n \in Nat /\ \A i \in 1 .. n : logs[i] \in Log  OBVIOUS
<1>2. I \subseteq Nat /\ IsFiniteSet(I) /\ Cardinality(I) \in Nat /\ Cardinality(I) <= n
  <2>1. IsFiniteSet(1 .. n) /\ Cardinality(1 .. n) = n  BY <1>1, FS_Interval
  <2>2. I \subseteq 1 .. n  BY <1>1
  <2> HIDE DEF n
  <2>3. IsFiniteSet(I) /\ Cardinality(I) <= n  BY <2>1, <2>2, FS_Subset
  <2> QED  BY <1>1, <2>2, <2>3, FS_CardinalityType
<1>3. Orders(Upwards(I), I) /\ \A x, y \in I : <<x, y>> \in Upwards(I) <=> x < y
  BY <1>2, PositionsOrdered DEF Upwards
<1>4. s = At(p)  BY DEF Left
<1> HIDE DEF n
<1>5. /\ p \in Seq(I) /\ DOMAIN p = 1 .. Len(p) /\ Len(p) \in Nat
      /\ Len(p) = Min({n, Cardinality(I)})
      /\ \A i, j \in 1 .. Len(p) : i < j => <<p[i], p[j]>> \in Upwards(I)
      /\ \A i \in 1 .. Len(p) : p[i] \in I /\ Rank(I, Upwards(I), p[i]) = i - 1
  BY <1>1, <1>2, <1>3, FirstLists
<1> HIDE DEF p
<1>6. Len(p) = Cardinality(I)  BY <1>1, <1>2, <1>5, MinOf
<1>7. \A x \in I : \E i \in 1 .. Len(p) : p[i] = x
  <2> SUFFICES ASSUME NEW x \in I PROVE \E i \in 1 .. Len(p) : p[i] = x  OBVIOUS
  <2> DEFINE r == Rank(I, Upwards(I), x)
  <2>1. /\ r \in 0 .. Cardinality(I) - 1
        /\ \A y \in I : Rank(I, Upwards(I), y) = r => y = x
    BY <1>2, <1>3, RanksAre
  <2> HIDE DEF r
  <2>2. r + 1 \in 1 .. Len(p) /\ (r + 1) - 1 = r  BY <1>2, <1>6, <2>1
  <2>3. p[r + 1] = x  BY <1>5, <2>1, <2>2
  <2> QED  BY <2>2, <2>3
<1>8. s = [k \in 1 .. Len(p) |-> logs[p[k]]]  BY <1>4, <1>5 DEF At
<1>9. \A k \in 1 .. Len(p) : s[k] = logs[p[k]] /\ s[k] \in Log /\ p[k] \in DOMAIN logs
  BY <1>1, <1>5, <1>8
<1>10. s \in Seq(Log) /\ DOMAIN s = 1 .. Len(p)
  <2>1. s \in [1 .. Len(p) -> Log] /\ Len(p) \in Nat  BY <1>5, <1>8, <1>9
  <2> QED  BY <2>1
<1>11. Range(s) = {logs[i] : i \in I}
  <2>1. \A k \in 1 .. Len(p) : p[k] \in I /\ s[k] = logs[p[k]]  BY <1>5, <1>9
  <2>2. Range(s) = {s[k] : k \in 1 .. Len(p)}  BY <1>10 DEF Range
  <2> QED  BY <1>7, <2>1, <2>2
<1>12. ASSUME Apart(logs) PROVE Apart(s)
  <2> SUFFICES ASSUME NEW i \in 1 .. Len(p), NEW j \in 1 .. Len(p), i # j PROVE s[i] # s[j]
    BY <1>10 DEF Apart
  <2>1. p[i] # p[j]
    <3>1. Rank(I, Upwards(I), p[i]) = i - 1 /\ Rank(I, Upwards(I), p[j]) = j - 1  BY <1>5
    <3>2. i - 1 # j - 1  BY <1>5
    <3> QED  BY <3>1, <3>2
  <2> QED  BY <1>9, <1>12, <2>1 DEF Apart
<1> QED  BY <1>10, <1>11, <1>12

(* A new log may be added to others.                                       *)
LEMMA AppendApart ==
  ASSUME NEW s \in Seq(Log), Apart(s), NEW l \in Log, l \notin Range(s)
  PROVE  Apart(Append(s, l))
<1> DEFINE t == Append(s, l)
           n == Len(s)
<1>1. /\ n \in Nat /\ DOMAIN t = 1 .. n + 1 /\ DOMAIN s = 1 .. n
      /\ \A i \in 1 .. n : t[i] = s[i]
  OBVIOUS
<1>2. t[n + 1] = l  BY <1>1
<1>3. \A i \in 1 .. n : s[i] # l  BY <1>1 DEF Range
<1> HIDE DEF t, n
<1>4. \A i \in 1 .. n + 1 : i \in 1 .. n \/ i = n + 1  BY <1>1
<1> SUFFICES ASSUME NEW i \in 1 .. n + 1, NEW j \in 1 .. n + 1, i # j PROVE t[i] # t[j]
  BY <1>1 DEF Apart, t
<1>5. CASE i \in 1 .. n /\ j \in 1 .. n  BY <1>1, <1>5 DEF Apart
<1>6. CASE i = n + 1 \/ j = n + 1  BY <1>1, <1>2, <1>3, <1>4, <1>6
<1> QED  BY <1>4, <1>5, <1>6

(* And so it is in the in-memory store, whether it is full or not.         *)
LEMMA PushApart ==
  ASSUME logs \in Seq(Log), Apart(logs), NEW l \in Log, l \notin Range(logs)
  PROVE  Apart(Push(l))
<1>1. CASE Len(logs) < MaxEntries  BY <1>1, AppendApart DEF Push
<1>2. CASE ~(Len(logs) < MaxEntries)
  <2> DEFINE t == Tail(logs)
             n == Len(logs)
  <2>1. Push(l) = Append(t, l)  BY <1>2 DEF Push
  <2>2. MaxEntries \in Nat \ {0} /\ n \in Nat  BY PagingAssumption
  <2>3. logs # <<>>  BY <1>2, <2>2
  <2>4. /\ t \in Seq(Log) /\ DOMAIN t = 1 .. n - 1 /\ DOMAIN logs = 1 .. n
        /\ \A i \in 1 .. n - 1 : t[i] = logs[i + 1] /\ i + 1 \in 1 .. n
    BY <2>2, <2>3
  <2> HIDE DEF t, n
  <2>5. Apart(t)
    <3> SUFFICES ASSUME NEW i \in 1 .. n - 1, NEW j \in 1 .. n - 1, i # j PROVE t[i] # t[j]
      BY <2>4 DEF Apart
    <3>1. i + 1 # j + 1  OBVIOUS
    <3> QED  BY <2>4, <3>1 DEF Apart
  <2>6. l \notin Range(t)  BY <2>4 DEF Range
  <2> QED  BY <2>1, <2>4, <2>5, <2>6, AppendApart
<1> QED  BY <1>1, <1>2

(* Server and browser agree on a filter that is not ambiguous.             *)
LEMMA FiltersAgree ==
  ASSUME NEW f \in Filters, ~Ambiguous(f), logs \in Seq(Log), NEW l \in Range(logs)
  PROVE  ServerMatches(l, f) <=> ClientMatches(l, f)
<1>1. l \in Log  BY RangeFinite
<1>2. CASE f.proxy = None  BY <1>2 DEF ServerMatches, ClientMatches
<1>3. CASE f.proxy # None
  <2> DEFINE p == f.proxy
             q == Attr[l.id].proxy
  <2>1. p = [host |-> p.host, port |-> p.port]  BY <1>3, PagingAssumption DEF IsProxy
  <2>2. q # None => q = [host |-> q.host, port |-> q.port]  BY <1>1, LogHas DEF IsProxy
  <2>3. p.port = None /\ q # None /\ q.host = p.host => q.port = None  BY <1>3 DEF Ambiguous
  <2>4. (q # None /\ p.host = q.host /\ p.port \in {None, q.port}) <=> p = q
    <3> HIDE DEF p, q
    <3>1. ASSUME q # None, p.host = q.host, p.port \in {None, q.port} PROVE p = q
      <4>1. p.port = q.port  BY <2>3, <3>1
      <4> QED  BY <2>1, <2>2, <3>1, <4>1
    <3>2. ASSUME p = q PROVE q # None /\ p.host = q.host /\ p.port \in {None, q.port}
      BY <1>3, <3>2 DEF p
    <3> QED  BY <3>1, <3>2
  <2> QED  BY <1>3, <2>4 DEF ServerMatches, ClientMatches
<1> QED  BY <1>2, <1>3

(* Of a chart that counted the logs of a range up to a time and those of   *)
(* the range since then after it, each bucket is complete that begins in   *)
(* the range, and the chart is if the table left no time out.              *)
LEMMA ChartComplete ==
  ASSUME backend \in {"memory", "postgres"},
         NEW base \in Seq(Log), Apart(base), NEW live \in Seq(Log), Apart(live),
         NEW at \in Nat, \A l \in Range(base) : l.time <= at, \A l \in Range(live) : l.time > at,
         NEW since \in Int, NEW age \in Nat,
         NEW chart,
         chart = IF backend = "memory" THEN MemoryChart(base, since)
                 ELSE TableChart(Range(base), since),
         NEW all, all = Range(base) \cup Range(live)
  PROVE  ChartTrue(ChartMerged(chart, live, since + age), all, since + age)
<1> DEFINE B == {l \in Range(base) : l.time >= since}
           now == since + age
           L == {l \in Range(live) : l.time >= now}
           S == IF backend = "memory" THEN B ELSE {l \in B : TimeOf(l) \in Newest(B)}
           recent == {l \in all : l.time >= now}
           c == ChartMerged(chart, live, now)
<1>1. /\ IsFiniteSet(Range(base)) /\ Range(base) \subseteq Log
      /\ IsFiniteSet(Range(live)) /\ Range(live) \subseteq Log
  BY RangeFinite
<1>2. /\ IsFiniteSet(B) /\ B \subseteq Log /\ B \subseteq all
      /\ IsFiniteSet(L) /\ L \subseteq Log /\ L \subseteq all
      /\ \A l \in B : l.time <= at
      /\ \A l \in L : l.time > at
  BY <1>1, FS_Subset
<1>3. \A l \in Log : l.time \in Nat /\ TimeOf(l) \in Nat
  BY LogHas, BucketBegins DEF TimeOf
<1>4. Range(live) \cap B = {}  BY <1>1, <1>3
<1>5. /\ IsFiniteSet(all) /\ all \subseteq Log /\ now \in Int
      /\ recent \subseteq B \cup L /\ recent \subseteq all
  <2>1. IsFiniteSet(all) /\ all \subseteq Log  BY <1>1, FS_Union
  <2>2. now \in Int /\ now >= since  OBVIOUS
  <2> HIDE DEF now
  <2>3. recent \subseteq B \cup L
    <3> SUFFICES ASSUME NEW l \in all, l.time >= now PROVE l \in B \cup L  OBVIOUS
    <3>1. l.time \in Nat  BY <1>3, <2>1
    <3>2. l.time >= since  BY <2>2, <3>1
    <3> QED  BY <3>2
  <2> QED  BY <2>1, <2>2, <2>3
<1>6. Describes(chart, S)
  <2>1. CASE backend = "memory"
    <3>1. chart = CountedAll(<<>>, base, since)  BY <2>1 DEF MemoryChart
    <3>2. IsFiniteSet({}) /\ {} \subseteq Log /\ Range(base) \cap {} = {} /\ {} \cup B = B
      BY FS_EmptySet
    <3>3. Describes(CountedAll(<<>>, base, since), {} \cup B)
      BY <3>2, LoopCounts, NoneDescribed DEF Apart
    <3> HIDE DEF B
    <3> QED  BY <2>1, <3>1, <3>2, <3>3
  <2>2. CASE backend = "postgres"
    <3>1. chart = TableChart(Range(base), since)  BY <2>2
    <3>2. Describes(TableChart(Range(base), since), {l \in B : TimeOf(l) \in Newest(B)})
      BY <1>1, TableDescribed
    <3> HIDE DEF B
    <3>3. S = {l \in B : TimeOf(l) \in Newest(B)}  BY <2>2
    <3> QED  BY <3>1, <3>2, <3>3
  <2> QED  BY <2>1, <2>2
<1>7. S \subseteq B /\ IsFiniteSet(S) /\ S \subseteq Log /\ Range(live) \cap S = {}
  <2>1. S \subseteq B  OBVIOUS
  <2> HIDE DEF S, B
  <2> QED  BY <1>2, <1>4, <2>1, FS_Subset
<1>8. Describes(c, S \cup L)
  <2> HIDE DEF S, now
  <2>1. c = CountedAll(chart, live, now)  BY DEF ChartMerged
  <2>2. Describes(CountedAll(chart, live, now), S \cup {l \in Range(live) : l.time >= now})
    BY <1>5, <1>6, <1>7, LoopCounts DEF Apart
  <2> QED  BY <2>1, <2>2
<1> HIDE DEF B, L, recent, now
<1>9. ASSUME NEW l \in recent, NEW m \in S \cup L, TimeOf(l) = TimeOf(m)
      PROVE  l \in S \cup L
  <2>1. CASE backend = "memory" \/ l \in L  BY <1>5, <2>1
  <2>2. CASE backend = "postgres" /\ l \in B
    <3>1. S = {x \in B : TimeOf(x) \in Newest(B)}  BY <2>2
    <3>2. CASE m \in S  BY <1>9, <2>2, <3>1, <3>2
    <3>3. CASE m \in L
      <4>1. \A u \in B : TimeOf(u) <= TimeOf(m)
        <5> SUFFICES ASSUME NEW u \in B PROVE TimeOf(u) <= TimeOf(m)  OBVIOUS
        <5>0. u \in Log /\ m \in Log /\ u.time <= at /\ m.time > at  BY <1>2, <3>3
        <5> HIDE DEF S
        <5>1. u.time <= m.time /\ u.time \in Nat /\ m.time \in Nat  BY <1>3, <5>0
        <5> QED  BY <5>1, BucketsOrdered DEF TimeOf
      <4> DEFINE T == {TimeOf(u) : u \in B}
                 later == {u \in T : u > TimeOf(l)}
      <4>2. later = {}  BY <1>2, <1>3, <1>9, <2>2, <4>1
      <4>3. Cardinality(later) = 0  BY <4>2, FS_EmptySet
      <4>4. TimeOf(l) \in T  BY <2>2
      <4>5. Cardinality(later) < BarCount  BY <4>3, FiguresAssumption
      <4>6. TimeOf(l) \in Newest(B)  BY <4>4, <4>5 DEF Newest
      <4> QED  BY <2>2, <3>1, <4>6
    <3> QED  BY <3>2, <3>3
  <2> QED  BY <1>5, <2>1, <2>2
<1>10. ASSUME NEW l \in recent, l \notin S \cup L
       PROVE  LeftOut(l, recent)
  <2>1. l \in B /\ backend = "postgres"  BY <1>5, <1>10
  <2> DEFINE T == {TimeOf(u) : u \in B}
             R == {TimeOf(m) : m \in recent}
             passed == {u \in T : u > TimeOf(l)}
             later == {u \in R : u > TimeOf(l)}
  <2>2. ~(Cardinality(passed) < BarCount)
    <3>1. S = {x \in B : TimeOf(x) \in Newest(B)}  BY <2>1
    <3>2. TimeOf(l) \notin Newest(B) /\ TimeOf(l) \in T  BY <1>10, <2>1, <3>1
    <3> QED  BY <3>2 DEF Newest
  <2>3. passed \subseteq later
    <3> SUFFICES ASSUME NEW u \in B, TimeOf(u) > TimeOf(l) PROVE u \in recent
      OBVIOUS
    <3>1. /\ l \in Log /\ u \in Log /\ u \in all /\ l.time \in Nat /\ u.time \in Nat
          /\ TimeOf(l) \in Nat /\ TimeOf(u) \in Nat
      BY <1>2, <1>3, <2>1
    <3>2. u.time <= l.time => TimeOf(u) <= TimeOf(l)  BY <3>1, BucketsOrdered DEF TimeOf
    <3>3. u.time > l.time  BY <3>1, <3>2
    <3>4. l.time >= now  BY DEF recent
    <3>5. u.time >= now  BY <1>5, <3>1, <3>3, <3>4
    <3> QED  BY <3>1, <3>5 DEF recent
  <2>4. IsFiniteSet(later)
    <3>1. IsFiniteSet(recent)  BY <1>5, FS_Subset
    <3>2. [m \in recent |-> TimeOf(m)] \in Surjection(recent, R)  BY DEF Surjection
    <3>3. IsFiniteSet(R)  BY <3>1, <3>2, FS_Surjection
    <3> QED  BY <3>3, FS_Subset
  <2> HIDE DEF passed, later
  <2>5. /\ IsFiniteSet(passed) /\ Cardinality(passed) <= Cardinality(later)
    BY <2>3, <2>4, FS_Subset
  <2>6. Cardinality(passed) \in Nat /\ Cardinality(later) \in Nat /\ BarCount \in Nat
    BY <2>4, <2>5, FS_CardinalityType, FiguresAssumption
  <2>7. Cardinality(later) >= BarCount  BY <2>2, <2>5, <2>6
  <2> QED  BY <2>1, <2>7 DEF later, LeftOut
<1> HIDE DEF S, c
<1>11. S \cup L \subseteq all  BY <1>2, <1>7
<1>12. \A l \in recent, m \in S \cup L : TimeOf(l) = TimeOf(m) => l \in S \cup L  BY <1>9
<1>13. \A l \in recent : l \in S \cup L \/ LeftOut(l, recent)  BY <1>10
<1>14. recent = {l \in all : l.time >= now}  BY DEF recent
<1>15. ChartTrue(c, all, now)
  <2> DEFINE W == S \cup L
  <2>1. Describes(c, W) /\ W \subseteq all  BY <1>8, <1>11
  <2>2. \A l \in recent, m \in W : TimeOf(l) = TimeOf(m) => l \in W  BY <1>12
  <2>3. \A l \in recent : l \in W \/ LeftOut(l, recent)  BY <1>13
  <2> HIDE DEF W
  <2> QED  BY <1>5, <1>14, <2>1, <2>2, <2>3, ChartIsTrue
<1> QED  BY <1>15 DEF c, now

(* Every figure of what is stored is true.                                 *)
LEMMA StoredFigures ==
  ASSUME TypeInv, Apart(logs)
  PROVE  FiguresTrue
<1>1. backend \in {"memory", "postgres"} /\ logs \in Seq(Log)  BY TypesOf
<1> SUFFICES ASSUME NEW f \in Filters, ~Ambiguous(f), NEW at \in Times,
                    \A i \in DOMAIN logs : logs[i].time > at => i \in Held
    PROVE
      LET base  == Left({i \in DOMAIN logs : ServerMatches(logs[i], f) /\ logs[i].time <= at})
          live  == Left({i \in Held : ClientMatches(logs[i], f) /\ logs[i].time > at})
          all   == {l \in Range(logs) : ClientMatches(l, f)}
          since == at - ChartRange
          chart == IF backend = "memory" THEN MemoryChart(base, since)
                   ELSE TableChart(Range(base), since)
      IN
      /\ StatsTrue(StatsMerged(Stats(Range(base)), Range(live)), all)
      /\ \A age \in Ages : ChartTrue(ChartMerged(chart, live, since + age), all, since + age)
      /\ \A hosts \in HostStats(Range(base), since) :
           HostsTrue(hosts, Cardinality({l \in all : since <= l.time /\ l.time <= at}))
      /\ \A proxies \in ProxyStats(Range(base), backend = "memory") :
           ProxiesTrue(proxies, Range(live), all)
  BY DEF FiguresTrue
<1> DEFINE I == {i \in DOMAIN logs : ServerMatches(logs[i], f) /\ logs[i].time <= at}
           J == {i \in Held : ClientMatches(logs[i], f) /\ logs[i].time > at}
           base  == Left(I)
           live  == Left(J)
           all   == {l \in Range(logs) : ClientMatches(l, f)}
           since == at - ChartRange
           chart == IF backend = "memory" THEN MemoryChart(base, since)
                    ELSE TableChart(Range(base), since)
<1>2. /\ I \subseteq DOMAIN logs /\ J \subseteq DOMAIN logs
      /\ J = {i \in DOMAIN logs : ClientMatches(logs[i], f) /\ logs[i].time > at}
  BY DEF Held
<1>3. /\ Range(base) = {l \in Range(logs) : ServerMatches(l, f) /\ l.time <= at}
      /\ Range(live) = {l \in Range(logs) : ClientMatches(l, f) /\ l.time > at}
  <2>1. Range(base) = {logs[i] : i \in I} /\ Range(live) = {logs[i] : i \in J}
    BY <1>1, <1>2, LeftIs
  <2> DEFINE Logs == {logs[i] : i \in DOMAIN logs}
  <2>2. /\ {logs[i] : i \in I} = {l \in Logs : ServerMatches(l, f) /\ l.time <= at}
        /\ {logs[i] : i \in J} = {l \in Logs : ClientMatches(l, f) /\ l.time > at}
    BY <1>2
  <2>3. Range(logs) = Logs  BY DEF Range
  <2> HIDE DEF base, live, I, J, Logs
  <2> QED  BY <2>1, <2>2, <2>3
<1>4. base \in Seq(Log) /\ Apart(base) /\ live \in Seq(Log) /\ Apart(live)
  BY <1>1, <1>2, LeftIs
<1> HIDE DEF I, J, base, live
<1>5. at \in Nat /\ \A l \in Range(logs) : l \in Log /\ l.time \in Nat
  BY <1>1, PagingAssumption, RangeFinite, LogHas
<1>6. all = Range(base) \cup Range(live) /\ Range(base) \cap Range(live) = {}
  <2>1. \A l \in Range(logs) : ServerMatches(l, f) <=> ClientMatches(l, f)
    BY <1>1, FiltersAgree
  <2>2. \A l \in Range(logs) : (l.time <= at \/ l.time > at) /\ ~(l.time <= at /\ l.time > at)
    BY <1>5
  <2> QED  BY <1>3, <2>1, <2>2
<1>7. /\ IsFiniteSet(Range(base)) /\ Range(base) \subseteq Log
      /\ IsFiniteSet(Range(live)) /\ Range(live) \subseteq Log
  BY <1>4, RangeFinite
<1>8. IsFiniteSet(all) /\ all \subseteq Log  BY <1>6, <1>7, FS_Union
<1>9. (\A l \in Range(base) : l.time <= at) /\ (\A l \in Range(live) : l.time > at)  BY <1>3
<1> HIDE DEF all, chart, since
<1>10. StatsTrue(StatsMerged(Stats(Range(base)), Range(live)), all)
  BY <1>6, <1>7, StatsAreTrue
<1>11. since \in Int /\ \A age \in Ages : age \in Nat
  BY <1>5, FiguresAssumption, PagingAssumption DEF since
<1>12. ASSUME NEW age \in Ages
       PROVE  ChartTrue(ChartMerged(chart, live, since + age), all, since + age)
  BY <1>1, <1>4, <1>5, <1>6, <1>9, <1>11, ChartComplete DEF chart
<1>13. \A hosts \in HostStats(Range(base), since) :
         HostsTrue(hosts, Cardinality({l \in all : since <= l.time /\ l.time <= at}))
  <2> DEFINE S == {l \in Range(base) : l.time >= since}
             T == {l \in all : since <= l.time /\ l.time <= at}
  <2>1. \A l \in all : l \in Range(logs) /\ l.time \in Nat  BY <1>5 DEF all
  <2>2. \A l \in all : l.time >= since <=> since <= l.time  BY <1>11, <2>1
  <2>3. \A l \in all : l.time <= at <=> l \in Range(base)
    BY <1>5, <1>6, <1>9, <2>1
  <2>4. S = T  BY <1>6, <2>2, <2>3
  <2> HIDE DEF S, T
  <2>5. \A hosts \in HostStats(Range(base), since) : HostsTrue(hosts, Cardinality(S))
    BY <1>7, HostsAreTrue DEF S
  <2> QED  BY <2>4, <2>5 DEF T
<1>14. \A proxies \in ProxyStats(Range(base), backend = "memory") :
         ProxiesTrue(proxies, Range(live), all)
  <2> DEFINE memory == backend = "memory"
  <2> HIDE DEF memory
  <2>1. \A proxies \in ProxyStats(Range(base), memory) :
          ProxiesTrue(proxies, Range(live), Range(base) \cup Range(live))
    BY <1>6, <1>7, ProxiesAreTrue
  <2> QED  BY <1>6, <2>1 DEF memory
<1> QED  BY <1>10, <1>12, <1>13, <1>14 DEF base, live, all, since, chart, I, J

(* No log is stored twice.                                                 *)
LEMMA StoredApart == PagingSpec => []Apart(logs)
<1>1. PagingInit => Apart(logs)
  <2>1. DOMAIN <<>> = {}  OBVIOUS
  <2> QED  BY <2>1 DEF PagingInit, Apart
<1>2. ASSUME Inv, Apart(logs), [PagingNext]_pagingVars PROVE Apart(logs')
  <2>1. /\ logs \in Seq(Log) /\ Range(logs) \subseteq added  BY <1>2, TypesOf DEF Inv, Stored
  <2>2. CASE Add
    <3>1. PICK l \in Log : /\ \A m \in added : m.id # l.id
                           /\ logs' = IF backend = "memory" THEN Push(l) ELSE Append(logs, l)
      BY <2>2 DEF Add
    <3>2. l \notin Range(logs)  BY <2>1, <3>1
    <3> QED  BY <1>2, <2>1, <3>1, <3>2, PushApart, AppendApart
  <2>3. CASE ClearMemory \/ DeleteRows
    <3>1. PICK I : I \subseteq DOMAIN logs /\ logs' = Left(I)  BY <2>3 DEF ClearMemory, DeleteRows
    <3> QED  BY <1>2, <2>1, <3>1, LeftIs
  <2>4. CASE StartExport \/ ReadPage \/ WritePage \/ Abort \/ UNCHANGED pagingVars
    <3>1. logs' = logs  BY <2>4 DEF StartExport, ReadPage, WritePage, Abort, pagingVars
    <3> QED  BY <1>2, <3>1 DEF Apart
  <2> QED  BY <1>2, <2>2, <2>3, <2>4 DEF PagingNext
<1>3. Inv /\ Apart(logs) /\ [PagingNext]_pagingVars => Apart(logs)'  BY <1>2
<1> QED  BY <1>1, <1>3, ExportInvariant, PTL DEF PagingSpec

(* "The stats bar and charts always describe the same rows the feed is     *)
(* showing": whatever is stored and wherever the server's part ends, what  *)
(* it counted and what the browser adds, while it has the rows that came   *)
(* since, are the figures of the logs that are shown, charts and hosts of  *)
(* those of their range; with either store, for any logs, filters, ranges  *)
(* and limits, however long ago the server was asked.                      *)
THEOREM FiguresAreTrue == PagingSpec => []FiguresTrue
<1>1. Inv /\ Apart(logs) => FiguresTrue  BY StoredFigures DEF Inv
<1> QED  BY <1>1, ExportInvariant, StoredApart, PTL

-----------------------------------------------------------------------------
(* The dashboards connected to the server.                                 *)

USE DEF AuthFailure, NoAnswer, Failed, Idle, Asking

(* Before its admission a connection gets nothing, and afterwards it       *)
(* listens; whoever is a client listens; nobody is admitted twice.         *)
Unadmitted ==
  \A s \in Sockets :
    /\ s \in clients => listens[s]
    /\ ~listens[s] => queue[s] = 0 /\ got[s] = 0
    /\ admission[s] # Idle => ~listens[s]
    /\ state[s] = "none" => ~listens[s] /\ admission[s] = Idle

ClientsInv == TypeOK /\ HeartbeatCovers /\ NoOrphan /\ Gapless /\ MemoryBounded /\ Unadmitted

\* The invariant holds at first.
LEMMA ClientsInit == Init => ClientsInv
<1> SUFFICES ASSUME Init PROVE ClientsInv  OBVIOUS
<1>1. TypeOK
  <2>1. Idle \in Query  BY DEF Answer, Query
  <2>2. admission \in [Sockets -> Query] /\ check \in Query  BY Zenon, <2>1 DEF Init
  <2>3. /\ peer \in [Sockets -> BOOLEAN] /\ alive \in [Sockets -> BOOLEAN]
        /\ listens \in [Sockets -> BOOLEAN] /\ heartbeat \in BOOLEAN /\ down \in BOOLEAN
    BY Zenon DEF Init
  <2>4. /\ token \in Nat /\ sessions \in Nat /\ sent \in Nat /\ clients \in SUBSET Sockets
        /\ state \in [Sockets -> {"none", "open", "closing", "closed"}]
        /\ code \in [Sockets -> {0, AuthFailure}] /\ tokenOf \in [Sockets -> Nat]
        /\ queue \in [Sockets -> Nat] /\ joined \in [Sockets -> Nat] /\ got \in [Sockets -> Nat]
        /\ thrown \in SUBSET Sockets
    BY DEF Init
  <2> QED  BY <2>2, <2>3, <2>4 DEF TypeOK
<1>2. HeartbeatCovers /\ NoOrphan /\ Gapless /\ MemoryBounded
  BY BroadcastAssumption DEF Init, HeartbeatCovers, NoOrphan, Gapless, MemoryBounded
<1>3. Unadmitted  BY DEF Init, Unadmitted
<1> QED  BY <1>1, <1>2, <1>3 DEF ClientsInv

(* The state of a query that is asked or answered has its type.            *)
LEMMA DbAnswersType == ASSUME TypeOK PROVE DbAnswers \subseteq Answer
BY DEF TypeOK, DbAnswers, Answer

\* The steps of a session keep it.
LEMMA SessionStep ==
  ASSUME ClientsInv, StartSession \/ EndSession PROVE ClientsInv'
<1> USE DEF ClientsInv
<1>1. TypeOK'
  BY DEF TypeOK, StartSession, EndSession, socketVars, routeVars, clientVars, eventVars
<1>2. UNCHANGED <<state, clients, listens, heartbeat, sent, queue, joined, got, admission, thrown>>
  BY DEF StartSession, EndSession, socketVars, routeVars, clientVars, eventVars
<1>3. (HeartbeatCovers /\ NoOrphan /\ Gapless /\ MemoryBounded /\ Unadmitted)'
  BY <1>2 DEF HeartbeatCovers, NoOrphan, Gapless, MemoryBounded, Unadmitted
<1> QED  BY <1>1, <1>3

\* So does the check of tokens.
LEMMA CheckStep ==
  ASSUME ClientsInv, CheckStarts \/ CheckQueried \/ CheckEnds PROVE ClientsInv'
<1> USE DEF ClientsInv
<1>1. CASE CheckStarts \/ CheckQueried
  <2>1. TypeOK'
    BY <1>1, DbAnswersType
    DEF TypeOK, Query, Answer, CheckStarts, CheckQueried, sessionVars, socketVars, routeVars, clientVars, eventVars
  <2>2. UNCHANGED <<state, clients, listens, heartbeat, sent, queue, joined, got, admission, thrown>>
    BY <1>1 DEF CheckStarts, CheckQueried, socketVars, routeVars, clientVars, eventVars
  <2>3. (HeartbeatCovers /\ NoOrphan /\ Gapless /\ MemoryBounded /\ Unadmitted)'
    BY <2>2 DEF HeartbeatCovers, NoOrphan, Gapless, MemoryBounded, Unadmitted
  <2> QED  BY <2>1, <2>3
<1>2. CASE CheckEnds
  <2>1. UNCHANGED <<clients, listens, heartbeat, sent, queue, joined, got, admission, thrown>>
    BY <1>2 DEF CheckEnds, routeVars, clientVars, eventVars
  <2>2. /\ state' \in [Sockets -> {"none", "open", "closing", "closed"}]
        /\ code' \in [Sockets -> {0, AuthFailure}]
        /\ \A s \in Sockets : state'[s] = state[s] \/ (state[s] = "open" /\ state'[s] = "closing")
    BY <1>2 DEF CheckEnds, Refuse, TypeOK
  <2>3. TypeOK'
    BY <1>2, <2>1, <2>2 DEF CheckEnds, TypeOK, Query, Answer, sessionVars, routeVars, clientVars, eventVars
  <2>4. (HeartbeatCovers /\ MemoryBounded)'  BY <2>1 DEF HeartbeatCovers, MemoryBounded
  <2>5. NoOrphan' /\ Gapless'  BY <2>1, <2>2 DEF NoOrphan, Gapless, TypeOK
  <2>6. Unadmitted'  BY <2>1, <2>2 DEF Unadmitted
  <2> QED  BY <2>3, <2>4, <2>5, <2>6
<1> QED  BY <1>1, <1>2

\* So does a connection that is opened.
LEMMA ConnectStep ==
  ASSUME ClientsInv, NEW s \in Sockets, Connect(s) \/ AdmissionQueried(s) PROVE ClientsInv'
<1> USE DEF ClientsInv
<1>1. UNCHANGED <<clients, listens, heartbeat, sent, queue, joined, got, thrown>>
  BY DEF Connect, AdmissionQueried, clientVars, eventVars
<1>2. /\ admission' \in [Sockets -> Query]
      /\ state' \in [Sockets -> {"none", "open", "closing", "closed"}]
      /\ peer' \in [Sockets -> BOOLEAN] /\ tokenOf' \in [Sockets -> Nat]
  <2>1. CASE Connect(s)
    <3>1. Asking \in Query  BY DEF Query, Answer
    <3>2. /\ admission' = [admission EXCEPT ![s] = Asking] /\ peer' = [peer EXCEPT ![s] = TRUE]
          /\ state' = [state EXCEPT ![s] = "open"]
          /\ \E t \in 1 .. sessions : tokenOf' = [tokenOf EXCEPT ![s] = t]
      BY <2>1 DEF Connect
    <3> HIDE DEF Asking, Idle
    <3> QED  BY <3>1, <3>2 DEF TypeOK
  <2>2. CASE AdmissionQueried(s)
    <3>1. UNCHANGED <<state, peer, tokenOf>>  BY <2>2 DEF AdmissionQueried, socketVars
    <3>2. PICK a \in Answer : admission' = [admission EXCEPT ![s].answer = a]
      BY <2>2, DbAnswersType DEF AdmissionQueried
    <3>3. admission' \in [Sockets -> Query]  BY <3>2 DEF TypeOK, Query
    <3> QED  BY <3>1, <3>3 DEF TypeOK
  <2> QED  BY <2>1, <2>2
<1>3. \A q \in Sockets : q # s => state'[q] = state[q] /\ admission'[q] = admission[q]
  BY DEF Connect, AdmissionQueried, TypeOK, socketVars
<1>4. ~listens[s] /\ state'[s] # "none"
  BY DEF Connect, AdmissionQueried, TypeOK, Unadmitted, socketVars
<1>5. TypeOK'
  BY <1>1, <1>2 DEF Connect, AdmissionQueried, TypeOK, sessionVars, socketVars, clientVars, eventVars
<1>6. (HeartbeatCovers /\ MemoryBounded)'  BY <1>1 DEF HeartbeatCovers, MemoryBounded
<1>7. s \notin clients  BY <1>4 DEF Unadmitted
<1>8. NoOrphan' /\ Gapless'  BY <1>1, <1>3, <1>4, <1>7 DEF NoOrphan, Gapless, TypeOK
<1>9. Unadmitted'
  <2> SUFFICES ASSUME NEW q \in Sockets
               PROVE  /\ q \in clients' => listens'[q]
                      /\ ~listens'[q] => queue'[q] = 0 /\ got'[q] = 0
                      /\ admission'[q] # Idle => ~listens'[q]
                      /\ state'[q] = "none" => ~listens'[q] /\ admission'[q] = Idle
    BY DEF Unadmitted
  <2>1. CASE q = s  BY <2>1, <1>1, <1>4 DEF Unadmitted
  <2>2. CASE q # s  BY <2>2, <1>1, <1>3 DEF Unadmitted
  <2> QED  BY <2>1, <2>2
<1> QED  BY <1>5, <1>6, <1>8, <1>9

\* So does each step of its admission.
LEMMA AdmissionStep ==
  ASSUME ClientsInv, NEW s \in Sockets, AdmissionEnds(s) PROVE ClientsInv'
<1> USE DEF ClientsInv
<1>1. admission[s] # Idle /\ ~listens[s] /\ s \notin clients
  BY DEF AdmissionEnds, Unadmitted
<1>2. /\ admission' \in [Sockets -> Query] /\ admission'[s] = Idle
      /\ \A q \in Sockets : q # s => admission'[q] = admission[q]
  BY DEF AdmissionEnds, TypeOK, Query, Answer
<1>3. queue[s] = 0 /\ got[s] = 0 /\ state[s] # "none"  BY <1>1 DEF Unadmitted
<1>4. CASE AddClient(s) /\ UNCHANGED socketVars
  <2>1. /\ joined' \in [Sockets -> Nat] /\ joined'[s] = sent
        /\ \A q \in Sockets : q # s => joined'[q] = joined[q]
    BY <1>4 DEF AddClient, TypeOK
  <2>2. /\ listens' \in [Sockets -> BOOLEAN] /\ alive' \in [Sockets -> BOOLEAN] /\ listens'[s]
        /\ \A q \in Sockets : q # s => listens'[q] = listens[q]
    BY <1>4 DEF AddClient, TypeOK
  <2>3. /\ clients' = clients \cup {s} /\ heartbeat' = TRUE
        /\ UNCHANGED <<state, peer, code, sent, queue, got, thrown>>
    BY <1>4 DEF AddClient, AdmissionEnds, socketVars
  <2>4. TypeOK'
    BY <1>2, <2>1, <2>2, <2>3 DEF AdmissionEnds, TypeOK, sessionVars
  <2>5. HeartbeatCovers' /\ MemoryBounded'  BY <2>3 DEF HeartbeatCovers, MemoryBounded
  <2>6. NoOrphan'  BY <2>2, <2>3 DEF NoOrphan
  <2>7. Gapless'
    <3> SUFFICES ASSUME NEW q \in clients', state'[q] = "open"
                 PROVE  joined'[q] + got'[q] + queue'[q] = sent'
      BY DEF Gapless
    <3>1. CASE q = s  BY <3>1, <1>3, <2>1, <2>3 DEF TypeOK
    <3>2. CASE q # s
      <4>1. q \in clients /\ q \in Sockets  BY <3>2, <2>3 DEF TypeOK
      <4>2. joined[q] + got[q] + queue[q] = sent  BY <4>1, <2>3 DEF Gapless
      <4> QED  BY <3>2, <4>1, <4>2, <2>1, <2>3
    <3> QED  BY <3>1, <3>2
  <2>8. Unadmitted'  BY <1>2, <1>3, <2>2, <2>3 DEF Unadmitted
  <2> QED  BY <2>4, <2>5, <2>6, <2>7, <2>8
<1>5. CASE Refuse({s}) /\ UNCHANGED <<peer, clientVars, joined>>
  <2>1. UNCHANGED <<clients, listens, alive, heartbeat, sent, queue, joined, got, thrown>>
    BY <1>5 DEF AdmissionEnds, clientVars
  <2>2. /\ state' \in [Sockets -> {"none", "open", "closing", "closed"}]
        /\ code' \in [Sockets -> {0, AuthFailure}]
        /\ \A q \in Sockets : state'[q] = state[q] \/ (state[q] = "open" /\ state'[q] = "closing")
    BY <1>5 DEF Refuse, TypeOK
  <2>3. TypeOK'
    BY <1>2, <1>5, <2>1, <2>2 DEF AdmissionEnds, TypeOK, sessionVars
  <2>4. (HeartbeatCovers /\ MemoryBounded)'  BY <2>1 DEF HeartbeatCovers, MemoryBounded
  <2>5. NoOrphan' /\ Gapless'  BY <2>1, <2>2 DEF NoOrphan, Gapless, TypeOK
  <2>6. Unadmitted'  BY <1>2, <2>1, <2>2 DEF Unadmitted
  <2> QED  BY <2>3, <2>4, <2>5, <2>6
<1> QED  BY <1>4, <1>5 DEF AdmissionEnds

(* removeClient() keeps the heartbeat exactly while there are clients.     *)
LEMMA RemainingCovers ==
  ASSUME HeartbeatCovers, NEW R, Remaining(R), clients \in SUBSET Sockets, heartbeat \in BOOLEAN
  PROVE  HeartbeatCovers' /\ clients' \in SUBSET Sockets /\ heartbeat' \in BOOLEAN
BY DEF HeartbeatCovers, Remaining

\* So do the steps of an admitted socket.
LEMMA SocketStep ==
  ASSUME ClientsInv, NEW s \in Sockets,
         PeerCloses(s) \/ PeerVanishes(s) \/ SocketClosed(s) \/ Pong(s)
  PROVE  ClientsInv'
<1> USE DEF ClientsInv
<1>1. UNCHANGED <<listens, sent, admission>>
  BY DEF PeerCloses, PeerVanishes, SocketClosed, Pong, clientVars, eventVars, routeVars
<1>2. /\ queue' \in [Sockets -> Nat] /\ joined' \in [Sockets -> Nat] /\ got' \in [Sockets -> Nat]
      /\ \A q \in Sockets : queue'[q] \in {queue[q], 0} /\ got'[q] \in {got[q], 0}
      /\ \A q \in Sockets : state'[q] # "closed" =>
           queue'[q] = queue[q] /\ joined'[q] = joined[q] /\ got'[q] = got[q]
  <2>1. CASE SocketClosed(s)
    <3>1. /\ queue' = [queue EXCEPT ![s] = 0] /\ joined' = [joined EXCEPT ![s] = 0]
          /\ got' = [got EXCEPT ![s] = 0] /\ state' = [state EXCEPT ![s] = "closed"]
      BY <2>1 DEF SocketClosed
    <3> QED  BY <3>1 DEF TypeOK
  <2>2. CASE ~SocketClosed(s)
    <3>1. UNCHANGED <<queue, joined, got>>
      BY <2>2 DEF PeerCloses, PeerVanishes, Pong, eventVars
    <3> QED  BY <3>1 DEF TypeOK
  <2> QED  BY <2>1, <2>2
<1>3. /\ state' \in [Sockets -> {"none", "open", "closing", "closed"}]
      /\ \A q \in Sockets : state'[q] = state[q] \/ (state[q] # "none" /\ state'[q] \in {"closing", "closed"})
  <2>1. \/ state' = state
        \/ /\ state[s] # "none"
           /\ state' = [state EXCEPT ![s] = "closing"] \/ state' = [state EXCEPT ![s] = "closed"]
    BY DEF PeerCloses, PeerVanishes, SocketClosed, Pong, socketVars
  <2> QED  BY <2>1 DEF TypeOK
<1>4. /\ HeartbeatCovers' /\ clients' \in SUBSET Sockets /\ heartbeat' \in BOOLEAN
      /\ clients' \subseteq clients
      /\ clients \ clients' \subseteq {q \in Sockets : state[q] = "closing"}
  <2>1. CASE SocketClosed(s)
    <3>1. Remaining(IF listens[s] THEN {s} ELSE {}) /\ state[s] = "closing"  BY <2>1 DEF SocketClosed
    <3>2. HeartbeatCovers' /\ clients' \in SUBSET Sockets /\ heartbeat' \in BOOLEAN
      BY <3>1, RemainingCovers DEF TypeOK
    <3>3. clients' \subseteq clients /\ clients \ clients' \subseteq {s}  BY <3>1 DEF Remaining
    <3> QED  BY <3>1, <3>2, <3>3
  <2>2. CASE ~SocketClosed(s)
    BY <2>2 DEF PeerCloses, PeerVanishes, Pong, clientVars, TypeOK, HeartbeatCovers
  <2> QED  BY <2>1, <2>2
<1>5. alive' \in [Sockets -> BOOLEAN] /\ peer' \in [Sockets -> BOOLEAN]
  <2>1. \/ alive' = alive \/ alive' = [alive EXCEPT ![s] = TRUE]
    BY DEF PeerCloses, PeerVanishes, SocketClosed, Pong, clientVars
  <2>2. \/ peer' = peer \/ peer' = [peer EXCEPT ![s] = FALSE]
    BY DEF PeerCloses, PeerVanishes, SocketClosed, Pong, socketVars
  <2>3. alive \in [Sockets -> BOOLEAN] /\ peer \in [Sockets -> BOOLEAN]  BY DEF TypeOK
  <2>4. alive' \in [Sockets -> BOOLEAN]  BY <2>1, <2>3
  <2>5. peer' \in [Sockets -> BOOLEAN]  BY <2>2, <2>3
  <2> QED  BY <2>4, <2>5
<1>10. thrown' \subseteq thrown /\ \A q \in thrown : state'[q] # "closed" => q \in thrown'
  <2>1. CASE SocketClosed(s)
    <3>1. thrown' = thrown \ {s} /\ state' = [state EXCEPT ![s] = "closed"]
      BY <2>1 DEF SocketClosed
    <3> QED  BY <3>1 DEF TypeOK
  <2>2. CASE ~SocketClosed(s)
    BY <2>2 DEF PeerCloses, PeerVanishes, Pong, eventVars
  <2> QED  BY <2>1, <2>2
<1>6. TypeOK'
  BY <1>1, <1>2, <1>3, <1>4, <1>5, <1>10
  DEF PeerCloses, PeerVanishes, SocketClosed, Pong, TypeOK, sessionVars, socketVars, routeVars
<1>7. MemoryBounded'  BY <1>2, BroadcastAssumption DEF MemoryBounded, TypeOK
<1>8. NoOrphan' /\ Gapless'  BY <1>1, <1>2, <1>3, <1>4, <1>10 DEF NoOrphan, Gapless, TypeOK
<1>9. Unadmitted'  BY <1>1, <1>2, <1>3, <1>4 DEF Unadmitted
<1> QED  BY <1>4, <1>6, <1>7, <1>8, <1>9

(* Who is removed is not open any more, or ping() threw.                   *)
LEMMA ClientStep ==
  ASSUME ClientsInv, Heartbeat \/ Shutdown PROVE ClientsInv'
<1> USE DEF ClientsInv
<1>1. UNCHANGED <<listens, sent, queue, joined, got, admission>>
  BY DEF Heartbeat, Shutdown, eventVars, routeVars
<1>2. /\ state' \in [Sockets -> {"none", "open", "closing", "closed"}]
      /\ \A q \in Sockets : state'[q] = state[q] \/ (state[q] = "open" /\ state'[q] = "closing")
  <2>1. PICK R : state' = Terminated(R)  BY DEF Heartbeat, Shutdown
  <2> QED  BY <2>1 DEF Terminated, TypeOK
<1>3. /\ HeartbeatCovers' /\ clients' \in SUBSET Sockets /\ heartbeat' \in BOOLEAN
      /\ clients' \subseteq clients
  <2>1. CASE Heartbeat
    <3>1. PICK R : Remaining(R)  BY <2>1 DEF Heartbeat
    <3> QED  BY <3>1, RemainingCovers DEF Remaining, TypeOK
  <2>2. CASE Shutdown  BY <2>2 DEF Shutdown, HeartbeatCovers
  <2> QED  BY <2>1, <2>2
<1>4. /\ \A q \in clients \ clients' : state'[q] # "open" \/ q \in thrown'
      /\ thrown \subseteq thrown' /\ thrown' \in SUBSET Sockets
  <2>1. CASE Heartbeat
    <3> DEFINE dead == {q \in clients : ~alive[q]}
    <3>1. PICK broken \in Throwing(clients \ dead) :
            /\ Remaining(dead \cup broken) /\ state' = Terminated(dead)
            /\ thrown' = thrown \cup broken
      BY <2>1 DEF Heartbeat
    <3>2. broken \subseteq clients  BY DEF Throwing
    <3> QED  BY <3>1, <3>2 DEF Terminated, Remaining, TypeOK
  <2>2. CASE Shutdown
    BY <2>2 DEF Shutdown, Terminated, TypeOK, eventVars
  <2> QED  BY <2>1, <2>2
<1>5. TypeOK'
  <2>1. alive' \in [Sockets -> BOOLEAN]
    <3>1. \/ alive' = alive \/ alive' = [q \in Sockets |-> alive[q] /\ q \notin clients]
      BY DEF Heartbeat, Shutdown
    <3>2. CASE alive' = alive  BY <3>2 DEF TypeOK
    <3>3. CASE alive' = [q \in Sockets |-> alive[q] /\ q \notin clients]  BY Zenon, <3>3
    <3> QED  BY <3>1, <3>2, <3>3
  <2>2. UNCHANGED <<token, sessions, peer, code, tokenOf, check>>
    BY DEF Heartbeat, Shutdown, sessionVars, routeVars
  <2>3. down' = down \/ down' = TRUE  BY DEF Heartbeat, Shutdown
  <2>4. down' \in BOOLEAN
    <3>1. down \in BOOLEAN  BY DEF TypeOK
    <3> QED  BY Zenon, <3>1, <2>3
  <2> QED  BY <1>1, <1>2, <1>3, <1>4, <2>1, <2>2, <2>4 DEF TypeOK
<1>6. MemoryBounded'  BY <1>1 DEF MemoryBounded
<1>7. NoOrphan' /\ Gapless'  BY <1>1, <1>2, <1>3, <1>4 DEF NoOrphan, Gapless, TypeOK
<1>8. Unadmitted'  BY <1>1, <1>2, <1>3 DEF Unadmitted
<1> QED  BY <1>3, <1>5, <1>6, <1>7, <1>8

\* So does an event that is broadcast.
LEMMA EventStep == ASSUME ClientsInv, Event PROVE ClientsInv'
<1> USE DEF ClientsInv
<1>1. UNCHANGED <<listens, alive, joined, got, admission>> /\ sent' = sent + 1
  BY DEF Event, routeVars
<1>2. /\ state' \in [Sockets -> {"none", "open", "closing", "closed"}]
      /\ \A q \in Sockets : state'[q] = state[q] \/ (state[q] = "open" /\ state'[q] = "closing")
  BY DEF Event, Terminated, TypeOK
<1>0. PICK broken \in Throwing(Receivers) :
        /\ queue' = [q \in Sockets |-> IF q \in Receivers \ broken THEN queue[q] + 1 ELSE queue[q]]
        /\ Remaining(clients \ (Receivers \ broken))
        /\ thrown' = thrown \cup broken
  BY DEF Event
<1> DEFINE R == Receivers \ broken
<1>3. R \subseteq clients /\ broken \subseteq Receivers /\ R \subseteq Receivers
      /\ Receivers \subseteq clients
  BY DEF Receivers, Throwing
<1>4. /\ HeartbeatCovers' /\ clients' \in SUBSET Sockets /\ heartbeat' \in BOOLEAN
      /\ clients' = R
  <2>1. Remaining(clients \ R)  BY <1>0
  <2>2. clients' = clients \ (clients \ R)  BY <2>1 DEF Remaining
  <2>3. clients' = R  BY <2>2, <1>3
  <2> QED  BY <2>1, <2>3, RemainingCovers DEF TypeOK
<1>5. /\ \A q \in clients \ clients' : state'[q] # "open" \/ q \in thrown'
      /\ thrown \subseteq thrown' /\ thrown' \in SUBSET Sockets
  BY <1>0, <1>3, <1>4 DEF Event, Terminated, Receivers, Backed, TypeOK
<1>6. /\ queue' \in [Sockets -> Nat]
      /\ \A q \in R : queue'[q] = queue[q] + 1
      /\ \A q \in Sockets \ R : queue'[q] = queue[q]
  BY <1>0, <1>3 DEF TypeOK
<1>7. sent' \in Nat  BY <1>1 DEF TypeOK
<1>8. TypeOK'
  BY <1>1, <1>2, <1>4, <1>5, <1>6, <1>7 DEF Event, TypeOK, sessionVars, routeVars
<1>9. MemoryBounded'
  <2>1. \A q \in R : queue[q] <= MaxQueued /\ q \in Sockets
    BY BroadcastAssumption DEF Receivers, Backed, TypeOK
  <2> SUFFICES ASSUME NEW q \in Sockets PROVE queue'[q] <= MaxQueued + 1
    BY DEF MemoryBounded
  <2>2. queue[q] \in Nat /\ queue[q] <= MaxQueued + 1  BY DEF TypeOK, MemoryBounded
  <2> QED  BY <1>6, <2>1, <2>2, BroadcastAssumption
<1>10. NoOrphan'  BY <1>1, <1>2, <1>5 DEF NoOrphan
<1>11. Gapless'
  <2> SUFFICES ASSUME NEW q \in R PROVE joined'[q] + got'[q] + queue'[q] = sent'
    BY <1>4 DEF Gapless
  <2>1. q \in Sockets /\ joined[q] + got[q] + queue[q] = sent
    BY DEF Receivers, Gapless, TypeOK
  <2>2. joined[q] \in Nat /\ got[q] \in Nat /\ queue[q] \in Nat  BY <2>1 DEF TypeOK
  <2>3. joined'[q] = joined[q] /\ got'[q] = got[q] /\ queue'[q] = queue[q] + 1  BY <1>1, <1>6
  <2> QED  BY <1>1, <2>1, <2>2, <2>3
<1>12. Unadmitted'
  <2>1. \A q \in Sockets : ~listens[q] => q \notin R  BY <1>3 DEF Unadmitted
  <2>2. clients' \subseteq clients  BY <1>3, <1>4
  <2> QED  BY <1>1, <1>2, <1>6, <2>1, <2>2 DEF Unadmitted
<1> QED  BY <1>4, <1>8, <1>9, <1>10, <1>11, <1>12

\* So does a client that reads.
LEMMA ReadEventStep == ASSUME ClientsInv, NEW s \in Sockets, Read(s) PROVE ClientsInv'
<1> USE DEF ClientsInv
<1>1. UNCHANGED <<state, clients, listens, heartbeat, admission, sent, joined, thrown>>
  BY DEF Read, socketVars, clientVars, routeVars
<1>2. queue[s] \in Nat /\ got[s] \in Nat /\ queue[s] > 0  BY DEF Read, TypeOK
<1>3. /\ queue' \in [Sockets -> Nat] /\ got' \in [Sockets -> Nat]
      /\ queue'[s] = queue[s] - 1 /\ got'[s] = got[s] + 1
      /\ \A q \in Sockets : q # s => queue'[q] = queue[q] /\ got'[q] = got[q]
  BY <1>2 DEF Read, TypeOK
<1>4. TypeOK'
  BY <1>1, <1>3 DEF Read, TypeOK, sessionVars, socketVars, routeVars, clientVars
<1>5. HeartbeatCovers' /\ NoOrphan'  BY <1>1 DEF HeartbeatCovers, NoOrphan
<1>6. MemoryBounded'
  BY <1>2, <1>3, BroadcastAssumption DEF MemoryBounded
<1>7. Gapless'
  <2> SUFFICES ASSUME NEW q \in clients, state[q] = "open"
               PROVE  joined[q] + got'[q] + queue'[q] = sent
    BY <1>1 DEF Gapless
  <2>1. q \in Sockets /\ joined[q] \in Nat /\ joined[q] + got[q] + queue[q] = sent
    BY DEF Gapless, TypeOK
  <2> QED  BY <1>2, <1>3, <2>1
<1>8. listens[s]  BY <1>2 DEF Unadmitted
<1>9. Unadmitted'  BY <1>1, <1>3, <1>8 DEF Unadmitted
<1> QED  BY <1>4, <1>5, <1>6, <1>7, <1>9

\* Every step keeps the invariant.
LEMMA ClientsNext == ASSUME ClientsInv, [Next]_vars PROVE ClientsInv'
<1>1. CASE UNCHANGED vars
  <2>1. UNCHANGED <<token, sessions, state, peer, code, tokenOf, admission, clients, alive, listens,
                    heartbeat, check, down, sent, queue, joined, got, thrown>>
    BY <1>1 DEF vars, sessionVars, socketVars, routeVars, clientVars, eventVars
  <2>2. TypeOK'  BY <2>1 DEF ClientsInv, TypeOK
  <2>3. (HeartbeatCovers /\ NoOrphan /\ Gapless /\ MemoryBounded /\ Unadmitted)'
    BY <2>1 DEF ClientsInv, HeartbeatCovers, NoOrphan, Gapless, MemoryBounded, Unadmitted
  <2> QED  BY <2>2, <2>3 DEF ClientsInv
<1>2. CASE Next
  BY <1>2, SessionStep, CheckStep, ConnectStep, AdmissionStep, SocketStep, ClientStep, EventStep, ReadEventStep
  DEF Next
<1> QED  BY <1>1, <1>2

\* The invariant holds in every state.
LEMMA ClientsInvariant == Spec => []ClientsInv
BY ClientsInit, ClientsNext, PTL DEF Spec

(* Every variable of the connections keeps its type, for any connections.  *)
THEOREM ClientsTyped == Spec => []TypeOK
<1>1. ClientsInv => TypeOK  BY DEF ClientsInv
<1> QED  BY <1>1, ClientsInvariant, PTL

(* The heartbeat runs exactly while there are clients.                     *)
THEOREM HeartbeatRuns == Spec => []HeartbeatCovers
<1>1. ClientsInv => HeartbeatCovers  BY DEF ClientsInv
<1> QED  BY <1>1, ClientsInvariant, PTL

(* An open socket that was admitted is a client, unless send() or ping()   *)
(* threw on it.                                                            *)
THEOREM NobodyForgotten == Spec => []NoOrphan
<1>1. ClientsInv => NoOrphan  BY DEF ClientsInv
<1> QED  BY <1>1, ClientsInvariant, PTL

(* A dashboard that stays connected has read, or finds in its socket, every*)
(* event broadcast since it joined.                                        *)
THEOREM NothingMissed == Spec => []Gapless
<1>1. ClientsInv => Gapless  BY DEF ClientsInv
<1> QED  BY <1>1, ClientsInvariant, PTL

(* The outbound queue of a dashboard passes its limit by one event at most.*)
THEOREM QueueBounded == Spec => []MemoryBounded
<1>1. ClientsInv => MemoryBounded  BY DEF ClientsInv
<1> QED  BY <1>1, ClientsInvariant, PTL
=============================================================================
