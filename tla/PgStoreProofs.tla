---------------------------- MODULE PgStoreProofs ----------------------------
(***************************************************************************)
(* Theorems about PgStore for every value of its constants: its types, the *)
(* buffer's timer, where every unsettled call of add() is, what an         *)
(* acknowledged log can rely on, and the contract of LogStore.  What one   *)
(* part proves of every reachable state the following ones assume.         *)
(***************************************************************************)
EXTENDS PgStore, FiniteSetTheorems, WellFoundedInduction, TLAPS

(* The empty buffer is a sequence of calls.                                *)
LEMMA EmptySeq == << >> \in Seq(Calls)
OBVIOUS

(* The number of positions of a sequence with some property is a number.   *)
LEMMA PositionsCount ==
  ASSUME NEW s \in Seq(Calls), NEW S, S \subseteq DOMAIN s
  PROVE  Cardinality(S) \in Nat
<1>1. DOMAIN s = 1 .. Len(s) /\ Len(s) \in Nat  OBVIOUS
<1>2. IsFiniteSet(1 .. Len(s))  BY <1>1, FS_Interval
<1>3. IsFiniteSet(S)  BY <1>1, <1>2, FS_Subset
<1> QED  BY <1>3, FS_CardinalityType

(* The number of rows in a part of the table is a number.                  *)
LEMMA RowsCount ==
  ASSUME NEW S, S \subseteq Calls
  PROVE  Cardinality(S) \in Nat
<1>1. IsFiniteSet(S)  BY PgStoreAssumption, FS_Subset
<1> QED  BY <1>1, FS_CardinalityType

(* Range of an appended sequence.                                          *)
LEMMA RangeAppend ==
  ASSUME NEW S, NEW s \in Seq(S), NEW e \in S
  PROVE  /\ Append(s, e) \in Seq(S)
         /\ Len(Append(s, e)) = Len(s) + 1
         /\ Range(Append(s, e)) = Range(s) \cup {e}
<1>1. Append(s, e) \in Seq(S) /\ Len(Append(s, e)) = Len(s) + 1  OBVIOUS
<1>2. \A i \in 1 .. Len(s) : Append(s, e)[i] = s[i]  OBVIOUS
<1>3. Append(s, e)[Len(s) + 1] = e  OBVIOUS
<1>4. DOMAIN s = 1 .. Len(s) /\ DOMAIN Append(s, e) = 1 .. Len(s) + 1 /\ Len(s) \in Nat
  BY <1>1
<1>5. 1 .. Len(s) + 1 = (1 .. Len(s)) \cup {Len(s) + 1}  BY <1>4
<1> QED  BY <1>1, <1>2, <1>3, <1>4, <1>5 DEF Range

(* trackInserts() and the start of a trim keep the types of the counters.  *)
LEMMA TrackInsertsType ==
  ASSUME TypeOK, NEW s \in Seq(Calls), TrackInserts(s)
  PROVE  /\ rowCounts' \in [Projects -> Int]
         /\ insertsSinceCleanup' \in [Projects -> Nat]
         /\ trims' \in [Projects -> Trim]
<1>1. CASE closing = "ended"
  BY <1>1 DEF TrackInserts, trimVars, TypeOK
<1>2. CASE closing # "ended"
  <2>1. /\ rowCounts \in [Projects -> Int] /\ insertsSinceCleanup \in [Projects -> Nat]
        /\ trims \in [Projects -> Trim]
    BY DEF TypeOK
  <2>2. \A p \in Projects : CountOf(s, p) \in Nat
    BY PositionsCount DEF CountOf
  <2>3. rowCounts' \in [Projects -> Int]
    BY <1>2, <2>1, <2>2 DEF TrackInserts, Unknown
  <2>4. insertsSinceCleanup' \in [Projects -> Nat]
    <3>1. insertsSinceCleanup' = [p \in Projects |->
            IF Due(s, p) THEN 0 ELSE insertsSinceCleanup[p] + CountOf(s, p)]
      BY <1>2 DEF TrackInserts
    <3>2. \A p \in Projects : insertsSinceCleanup[p] + CountOf(s, p) \in Nat
      <4>1. TAKE p \in Projects
      <4>2. insertsSinceCleanup[p] \in Nat /\ CountOf(s, p) \in Nat  BY <2>1, <2>2
      <4> QED  BY <4>2
    <3>3. \A p \in Projects :
            (IF Due(s, p) THEN 0 ELSE insertsSinceCleanup[p] + CountOf(s, p)) \in Nat
      BY <3>2
    <3> QED  BY <3>1, <3>3, Zenon
  <2>5. \A k \in Int : StartTrim(k) \in Trim
    BY DEF StartTrim, TrimLoop, TrimAt, NoTrim, Trim, Unknown, Answers
  <2>6. \A p \in Projects : StartTrim(rowCounts'[p]) \in Trim /\ trims[p] \in Trim
    BY <2>1, <2>3, <2>5
  <2>7. trims' \in [Projects -> Trim]
    BY <1>2, <2>6 DEF TrackInserts
  <2> QED  BY <2>3, <2>4, <2>7
<1> QED  BY <1>1, <1>2

(* An INSERT leaves a set of calls in the table, a DELETE too.             *)
LEMMA InsertType ==
  ASSUME table \in SUBSET Calls, NEW s \in Seq(Calls), NEW a, ExecuteInsert(s, a)
  PROVE  table' \in SUBSET Calls
<1>1. NewRows(s) \subseteq Calls  BY DEF NewRows
<1> QED  BY <1>1 DEF ExecuteInsert

(* A DELETE leaves a set of calls in the table and adds keys to the removed ones. *)
LEMMA DeleteType ==
  ASSUME table \in SUBSET Calls, removed \in SUBSET Ids, NEW S, S \subseteq Calls,
         NEW a, ExecuteDelete(S, a)
  PROVE  table' \in SUBSET Calls /\ removed' \in SUBSET Ids
<1>1. KeysOf(S) \subseteq Ids  BY PgStoreAssumption DEF KeysOf
<1> QED  BY <1>1 DEF ExecuteDelete

(* A flight that goes on with another row is a flight.                     *)
LEMMA FlightAdvances ==
  ASSUME NEW r \in Flight, NEW n \in Nat, NEW a \in Answers
  PROVE  [r EXCEPT !.next = n, !.ans = a] \in Flight
BY DEF Flight

(* The steps of the components of the store keep its type.                 *)
LEMMA AddType ==
  ASSUME TypeOK, NEW c \in Calls, AddBuffered(c) \/ AddFull(c)
  PROVE  TypeOK'
<1>1. /\ Append(buffer, c) \in Seq(Calls) /\ Len(Append(buffer, c)) = Len(buffer) + 1
      /\ Len(buffer) \in Nat
  BY RangeAppend DEF TypeOK
<1>2. Issued \in Answers  BY DEF Issued, Answers
<1>3. CASE AddBuffered(c)
  BY <1>1, <1>3 DEF AddBuffered, TypeOK, trimVars, statsVars, ArmTimer
<1>4. CASE AddFull(c)
  <2>1. PICK f \in Flights : Launch(f, Append(buffer, c), FALSE)  BY <1>4 DEF AddFull
  <2>2. flights' \in [Flights -> Flight]
    BY <1>1, <1>2, <2>1 DEF Launch, TypeOK, Flight, TakeBuffer
  <2>3. \A g \in Flights : flights'[g].pc # "idle" => flights'[g].next \in 1 .. Len(flights'[g].batch)
    BY <1>1, <2>1 DEF Launch, TypeOK, TakeBuffer
  <2>4. buffer' \in Seq(Calls) /\ flushTimer' \in BOOLEAN  BY <2>1, EmptySeq DEF Launch, TakeBuffer
  <2>5. promise' \in [Calls -> {"none", "pending", "resolved"} \cup Rejections]
    BY <1>4 DEF AddFull, TypeOK
  <2> QED  BY <1>4, <2>2, <2>3, <2>4, <2>5 DEF AddFull, TypeOK, trimVars, statsVars
<1> QED  BY <1>3, <1>4

(* The timer and close(), with the flush they start, keep the type.        *)
LEMMA FlushType ==
  ASSUME TypeOK, TimerFlush \/ Close
  PROVE  TypeOK'
<1>1. Issued \in Answers /\ Len(buffer) \in Nat  BY DEF Issued, Answers, TypeOK
<1>2. ASSUME NEW f \in Flights, NEW b \in BOOLEAN, buffer # << >>, Launch(f, buffer, b)
      PROVE  /\ buffer' \in Seq(Calls) /\ flushTimer' \in BOOLEAN
             /\ flights' \in [Flights -> Flight]
             /\ \A g \in Flights : flights'[g].pc # "idle"
                                     => flights'[g].next \in 1 .. Len(flights'[g].batch)
  <2>1. Len(buffer) >= 1  BY <1>2 DEF TypeOK
  <2>2. flights' \in [Flights -> Flight]
    BY <1>1, <1>2, <2>1 DEF Launch, TypeOK, Flight, TakeBuffer
  <2>3. \A g \in Flights : flights'[g].pc # "idle" => flights'[g].next \in 1 .. Len(flights'[g].batch)
    BY <1>1, <1>2, <2>1 DEF Launch, TypeOK, TakeBuffer
  <2> QED  BY <1>2, <2>2, <2>3, EmptySeq DEF Launch, TakeBuffer
<1>3. CASE TimerFlush
  BY <1>2, <1>3 DEF TimerFlush, TypeOK, trimVars, statsVars
<1>4. CASE Close
  BY <1>2, <1>4 DEF Close, TypeOK, trimVars, statsVars
<1> QED  BY <1>3, <1>4

(* The steps of a flush keep the type.                                     *)
LEMMA FlushStepType ==
  ASSUME TypeOK, NEW f \in Flights, FlushStep(f)
  PROVE  TypeOK'
<1> DEFINE fl == flights[f]
<1>1. /\ fl \in Flight /\ fl.batch \in Seq(Calls) /\ Len(fl.batch) \in Nat
      /\ fl.pc # "idle" => fl.next \in 1 .. Len(fl.batch) /\ fl.batch[fl.next] \in Calls
      /\ fl.ans \in Answers
  BY DEF TypeOK, Flight
<1>2. Issued \in Answers  BY DEF Issued, Answers
<1>3. NoFlight \in Flight  BY DEF NoFlight, Flight, Answers
<1>4. ASSUME FlushReturns(f)
      PROVE  /\ rowCounts' \in [Projects -> Int] /\ insertsSinceCleanup' \in [Projects -> Nat]
             /\ trims' \in [Projects -> Trim]
             /\ flights' \in [Flights -> Flight]
             /\ \A g \in Flights : flights'[g].pc # "idle"
                                     => flights'[g].next \in 1 .. Len(flights'[g].batch)
             /\ closing' \in {"open", "flushing", "ended"}
  <2>1. /\ rowCounts' \in [Projects -> Int] /\ insertsSinceCleanup' \in [Projects -> Nat]
        /\ trims' \in [Projects -> Trim]
    BY <1>1, <1>4, TrackInsertsType DEF FlushReturns
  <2> QED  BY <2>1, <1>3, <1>4 DEF FlushReturns, TypeOK, NoFlight
<1>5. CASE ExecuteFlush(f)
  <2>1. PICK a \in {"ok", "bad", "fault"} :
          /\ ExecuteInsert(IF fl.pc = "batch" THEN fl.batch ELSE <<fl.batch[fl.next]>>, a)
          /\ flights' = [flights EXCEPT ![f].ans = a]
    BY <1>5 DEF ExecuteFlush
  <2>2. (IF fl.pc = "batch" THEN fl.batch ELSE <<fl.batch[fl.next]>>) \in Seq(Calls)
    BY <1>1, <1>5 DEF ExecuteFlush
  <2>3. table' \in SUBSET Calls  BY <2>1, <2>2, InsertType DEF TypeOK
  <2>4. flights' \in [Flights -> Flight]  BY <2>1 DEF TypeOK, Flight, Answers
  <2>5. \A g \in Flights : flights'[g].pc # "idle" => flights'[g].next \in 1 .. Len(flights'[g].batch)
    BY <2>1 DEF TypeOK
  <2> QED  BY <1>5, <2>3, <2>4, <2>5 DEF ExecuteFlush, TypeOK, trimVars, statsVars
<1>6. CASE BatchWritten(f)
  <2>1. promise' \in [Calls -> {"none", "pending", "resolved"} \cup Rejections]
    BY <1>6 DEF BatchWritten, TypeOK
  <2> QED  BY <1>4, <1>6, <2>1 DEF BatchWritten, TypeOK, statsVars
<1>7. CASE BatchFailed(f)
  <2>1. flights' \in [Flights -> Flight]  BY <1>2, <1>7 DEF BatchFailed, TypeOK, Flight
  <2>2. \A g \in Flights : flights'[g].pc # "idle" => flights'[g].next \in 1 .. Len(flights'[g].batch)
    BY <1>7 DEF BatchFailed, TypeOK
  <2> QED  BY <1>7, <2>1, <2>2 DEF BatchFailed, TypeOK, trimVars, statsVars
<1>8. CASE RowAnswered(f)
  <2>1. promise' \in [Calls -> {"none", "pending", "resolved"} \cup Rejections]
    BY <1>1, <1>8 DEF RowAnswered, TypeOK, Answers, Rejections, LastRow, RowOutcome
  <2>2. CASE fl.next = Len(fl.batch)
    BY <1>4, <1>8, <2>1, <2>2 DEF RowAnswered, TypeOK, statsVars, LastRow, RowOutcome
  <2>3. CASE fl.next # Len(fl.batch)
    <3>1. flights' = [flights EXCEPT ![f].next = fl.next + 1, ![f].ans = Issued]
      BY <1>8, <2>3 DEF RowAnswered, LastRow, RowOutcome
    <3>2. flights' \in [Flights -> Flight]
      <4>1. [fl EXCEPT !.next = fl.next + 1, !.ans = Issued] \in Flight
        <5>1. fl \in Flight /\ fl.next + 1 \in Nat  BY <1>1 DEF Flight
        <5>2. Issued \in Answers  BY <1>2
        <5> QED  BY <5>1, <5>2, FlightAdvances
      <4>2. flights' = [flights EXCEPT ![f] = [fl EXCEPT !.next = fl.next + 1, !.ans = Issued]]
        BY <1>1, <3>1 DEF TypeOK, Flight
      <4> QED  BY <4>1, <4>2 DEF TypeOK
    <3>3. \A g \in Flights : flights'[g].pc # "idle" => flights'[g].next \in 1 .. Len(flights'[g].batch)
      BY <1>1, <1>8, <2>3, <3>1 DEF RowAnswered, TypeOK, LastRow, RowOutcome
    <3> QED  BY <1>8, <2>1, <2>3, <3>2, <3>3 DEF RowAnswered, TypeOK, trimVars, statsVars, LastRow, RowOutcome
  <2> QED  BY <2>2, <2>3
<1> QED  BY <1>5, <1>6, <1>7, <1>8 DEF FlushStep

(* The steps of a trim keep the type.                                      *)
LEMMA TrimStepType ==
  ASSUME TypeOK, NEW p \in Projects, TrimStep(p)
  PROVE  TypeOK'
<1>1. trims[p] \in Trim /\ trims \in [Projects -> Trim] /\ rowCounts \in [Projects -> Int]
  BY DEF TypeOK
<1>2. trims[p].n \in Int /\ trims[p].count - trims[p].n \in Int /\ Unknown \in Int
  BY <1>1 DEF Trim, Unknown
<1>3. \A k \in Int : TrimLoop(k) \in Trim
  BY DEF TrimLoop, TrimAt, NoTrim, Trim, Answers
<1>4. NoTrim \in Trim  BY DEF TrimAt, NoTrim, Trim, Answers
<1>5. CASE ExecuteTrim(p)
  <2>1. \A S : S \subseteq Calls => Cardinality(S) \in Nat  BY RowsCount
  <2>2. \A a \in Answers, n \in Nat : [trims EXCEPT ![p].ans = a, ![p].n = n] \in [Projects -> Trim]
    BY <1>1 DEF Trim
  <2>3. \A a \in Answers : [trims EXCEPT ![p].ans = a] \in [Projects -> Trim]
    BY <1>1 DEF Trim
  <2>4. RowsOf(p) \subseteq Calls  BY DEF RowsOf, TypeOK
  <2>5. CASE trims[p].pc = "count"
    <3>1. trims' \in [Projects -> Trim]
      <4>1. \/ trims' = [trims EXCEPT ![p].ans = "ok", ![p].n = Cardinality(RowsOf(p))]
            \/ trims' = [trims EXCEPT ![p].ans = "fault"]
        BY <1>5, <2>5 DEF ExecuteTrim
      <4>2. Cardinality(RowsOf(p)) \in Nat  BY <2>1, <2>4
      <4>3. CASE trims' = [trims EXCEPT ![p].ans = "ok", ![p].n = Cardinality(RowsOf(p))]
        BY <2>2, <4>2, <4>3 DEF Answers
      <4>4. CASE trims' = [trims EXCEPT ![p].ans = "fault"]
        BY <2>3, <4>4 DEF Answers
      <4> QED  BY <4>1, <4>3, <4>4
    <3> QED  BY <1>5, <2>5, <3>1 DEF ExecuteTrim, TypeOK, ingestVars, statsVars
  <2>6. CASE trims[p].pc = "delete"
    <3>1. PICK n \in Int : \E del \in OldestOf(RowsOf(p), n), a \in {"ok", "fault"} :
            /\ ExecuteDelete(del, a)
            /\ trims' = [trims EXCEPT ![p].ans = a, ![p].n = Cardinality(del)]
      BY <1>1, <1>5, <2>6, PgStoreAssumption DEF ExecuteTrim, Trim
    <3>2. PICK del \in OldestOf(RowsOf(p), n), a \in {"ok", "fault"} :
            /\ ExecuteDelete(del, a)
            /\ trims' = [trims EXCEPT ![p].ans = a, ![p].n = Cardinality(del)]
      BY <3>1
    <3>3. del \subseteq Calls  BY <2>4 DEF OldestOf, Limited
    <3>4. table' \in SUBSET Calls /\ removed' \in SUBSET Ids
      BY <3>2, <3>3, DeleteType DEF TypeOK
    <3>5. trims' \in [Projects -> Trim]  BY <2>1, <2>2, <3>2, <3>3 DEF Answers
    <3> QED  BY <1>5, <3>4, <3>5 DEF ExecuteTrim, TypeOK, ingestVars, statsVars
  <2> QED  BY <1>5, <2>5, <2>6 DEF ExecuteTrim
<1>6. CASE TrimCounted(p)
  <2>1. rowCounts' \in [Projects -> Int] /\ trims' \in [Projects -> Trim]
    BY <1>1, <1>2, <1>3, <1>6 DEF TrimCounted
  <2> QED  BY <1>6, <2>1 DEF TrimCounted, TypeOK, ingestVars, statsVars
<1>7. CASE TrimDeleted(p)
  <2>1. rowCounts' \in [Projects -> Int] /\ trims' \in [Projects -> Trim]
    BY <1>1, <1>2, <1>3, <1>4, <1>7 DEF TrimDeleted, Drained
  <2> QED  BY <1>7, <2>1 DEF TrimDeleted, TypeOK, ingestVars, statsVars, Drained
<1>8. CASE TrimFailed(p)
  <2>1. rowCounts' \in [Projects -> Int] /\ trims' \in [Projects -> Trim]
    BY <1>1, <1>2, <1>4, <1>8 DEF TrimFailed
  <2> QED  BY <1>8, <2>1 DEF TrimFailed, TypeOK, ingestVars, statsVars
<1> QED  BY <1>5, <1>6, <1>7, <1>8 DEF TrimStep

(* The start of a clear keeps the type.                                    *)
LEMMA ClearType ==
  ASSUME TypeOK, NEW k \in Clears, NEW s \in Scopes, ClearScoped(k, s) \/ ClearAll(k, s)
  PROVE  TypeOK'
<1>1. Issued \in Answers /\ Acknowledged \subseteq Calls /\ Range(buffer) \subseteq Calls
  BY DEF Issued, Answers, Acknowledged, Range, TypeOK
<1>2. \A S \in SUBSET Calls : /\ ClearAt("delete", s, Issued, S) \in Clear
                              /\ ClearAt("count", s, Issued, S) \in Clear
  BY <1>1 DEF ClearAt, Clear
<1>3. CASE ClearScoped(k, s)
  <2>1. clears' \in [Clears -> Clear]  BY <1>1, <1>2, <1>3 DEF ClearScoped, TypeOK
  <2> QED  BY <1>3, <2>1 DEF ClearScoped, TypeOK, ingestVars, trimVars, statsVars
<1>4. CASE ClearAll(k, s)
  <2>1. clears' \in [Clears -> Clear]  BY <1>1, <1>2, <1>4 DEF ClearAll, TypeOK, TakeBuffer
  <2>2. promise' \in [Calls -> {"none", "pending", "resolved"} \cup Rejections]
    BY <1>4 DEF ClearAll, TypeOK, TakeBuffer
  <2>3. buffer' \in Seq(Calls) /\ flushTimer' \in BOOLEAN /\ dropped' \in SUBSET Calls
    BY <1>1, <1>4, EmptySeq DEF ClearAll, TypeOK, TakeBuffer
  <2> QED  BY <1>4, <2>1, <2>2, <2>3 DEF ClearAll, TypeOK, trimVars, statsVars, TakeBuffer
<1> QED  BY <1>3, <1>4

(* The steps of a clear keep the type.                                     *)
LEMMA ClearStepType ==
  ASSUME TypeOK, NEW k \in Clears, ClearStep(k)
  PROVE  TypeOK'
<1>1. clears \in [Clears -> Clear] /\ Issued \in Answers
  BY DEF TypeOK, Issued, Answers
<1>2. \A a \in Answers : [clears EXCEPT ![k].ans = a] \in [Clears -> Clear]
  BY <1>1 DEF Clear
<1>3. \A a \in Answers, n \in Nat : [clears EXCEPT ![k].ans = a, ![k].n = n] \in [Clears -> Clear]
  BY <1>1 DEF Clear
<1>4. [clears EXCEPT ![k].pc = "truncate", ![k].ans = Issued] \in [Clears -> Clear]
  BY <1>1 DEF Clear
<1>5. /\ [clears EXCEPT ![k].pc = "done", ![k].ans = "none", ![k].n = 0] \in [Clears -> Clear]
      /\ [clears EXCEPT ![k].pc = "failed", ![k].ans = "none", ![k].n = 0] \in [Clears -> Clear]
  <2>1. \A c \in Clear : /\ [c EXCEPT !.pc = "done", !.ans = "none", !.n = 0] \in Clear
                         /\ [c EXCEPT !.pc = "failed", !.ans = "none", !.n = 0] \in Clear
    BY DEF Clear, Answers
  <2>2. clears[k] \in Clear  BY <1>1
  <2>3. /\ [clears EXCEPT ![k].pc = "done", ![k].ans = "none", ![k].n = 0]
             = [clears EXCEPT ![k] = [clears[k] EXCEPT !.pc = "done", !.ans = "none", !.n = 0]]
        /\ [clears EXCEPT ![k].pc = "failed", ![k].ans = "none", ![k].n = 0]
             = [clears EXCEPT ![k] = [clears[k] EXCEPT !.pc = "failed", !.ans = "none", !.n = 0]]
    BY <1>1, <2>2 DEF Clear
  <2> QED  BY <1>1, <2>1, <2>2, <2>3
<1>6. CASE ExecuteClear(k)
  <2>1. CASE clears[k].pc = "count"
    <3>1. clears' \in [Clears -> Clear]  BY <1>2, <1>6, <2>1 DEF ExecuteClear, Answers
    <3> QED  BY <1>6, <2>1, <3>1 DEF ExecuteClear, TypeOK, ingestVars, trimVars, statsVars
  <2>2. CASE clears[k].pc = "truncate"
    <3>1. clears' \in [Clears -> Clear]  BY <1>2, <1>6, <2>2 DEF ExecuteClear, Answers
    <3>2. table' \in SUBSET Calls /\ removed' \in SUBSET Ids
      BY <1>6, <2>2, DeleteType DEF ExecuteClear, TypeOK
    <3> QED  BY <1>6, <3>1, <3>2 DEF ExecuteClear, TypeOK, ingestVars, trimVars, statsVars
  <2>3. CASE clears[k].pc = "delete"
    <3>1. PICK del \in Limited(Matching(clears[k].scope), TrimBatch), a \in {"ok", "fault"} :
            /\ ExecuteDelete(del, a)
            /\ clears' = [clears EXCEPT ![k].ans = a, ![k].n = Cardinality(del)]
      BY <1>6, <2>3 DEF ExecuteClear
    <3>2. del \subseteq Calls  BY DEF Limited, Matching, TypeOK
    <3>3. Cardinality(del) \in Nat  BY <3>2, RowsCount
    <3>4. clears' \in [Clears -> Clear]  BY <1>3, <3>1, <3>3 DEF Answers
    <3>5. table' \in SUBSET Calls /\ removed' \in SUBSET Ids
      BY <3>1, <3>2, DeleteType DEF TypeOK
    <3> QED  BY <1>6, <3>4, <3>5 DEF ExecuteClear, TypeOK, ingestVars, trimVars, statsVars
  <2> QED  BY <1>6, <2>1, <2>2, <2>3 DEF ExecuteClear
<1>7. CASE ClearContinues(k)
  <2>1. clears' \in [Clears -> Clear]  BY <1>1, <1>2, <1>4, <1>7 DEF ClearContinues, FoundRows
  <2> QED  BY <1>7, <2>1 DEF ClearContinues, TypeOK, ingestVars, trimVars, statsVars, FoundRows
<1>8. CASE ClearReturns(k)
  <2>1. clears' \in [Clears -> Clear]  BY <1>5, <1>8 DEF ClearReturns, FoundRows
  <2>2. rowCounts' \in [Projects -> Int] /\ insertsSinceCleanup' \in [Projects -> Nat]
    BY <1>8 DEF ClearReturns, TypeOK, Unknown, FoundRows
  <2>3. \A r \in Readers, b \in BOOLEAN : [reads[r] EXCEPT !.crossed = b] \in Read
    BY DEF TypeOK, Read
  <2>4. reads' \in [Readers -> Read] /\ cache' \in SUBSET Entry
    BY <1>8, <2>3 DEF ClearReturns, InvalidateCaches, FoundRows
  <2> QED  BY <1>8, <2>1, <2>2, <2>4 DEF ClearReturns, TypeOK, ingestVars, FoundRows
<1>9. CASE ClearFails(k)
  <2>1. clears' \in [Clears -> Clear]  BY <1>5, <1>9 DEF ClearFails
  <2> QED  BY <1>9, <2>1 DEF ClearFails, TypeOK, ingestVars, trimVars, statsVars
<1> QED  BY <1>6, <1>7, <1>8, <1>9 DEF ClearStep

(* The steps of a statistics query keep the type.                          *)
LEMMA StatsType ==
  ASSUME TypeOK, NEW r \in Readers, StatsQueries(r) \/ StatsStep(r)
  PROVE  TypeOK'
<1>1. reads \in [Readers -> Read] /\ table \in SUBSET Calls /\ Issued \in Answers
  BY DEF TypeOK, Issued, Answers
<1>2. ReadAt("query", Issued) \in Read /\ NoRead \in Read
  BY <1>1 DEF ReadAt, NoRead, Read, Answers
<1>3. reads' \in [Readers -> Read]
  <2>1. [reads EXCEPT ![r].ans = "ok", ![r].data = table] \in [Readers -> Read]
    BY <1>1 DEF Read, Answers
  <2>2. [reads EXCEPT ![r].ans = "fault"] \in [Readers -> Read]
    BY <1>1 DEF Read, Answers
  <2> QED  BY <1>1, <1>2, <2>1, <2>2 DEF StatsQueries, StatsStep, ExecuteStats, StatsAnswers
<1>4. cache' \in SUBSET Entry
  <2>1. [data |-> reads[r].data, crossed |-> reads[r].crossed] \in Entry
    BY <1>1 DEF Read, Entry
  <2> QED  BY <2>1 DEF StatsQueries, StatsStep, ExecuteStats, StatsAnswers, TypeOK
<1> QED
  BY <1>3, <1>4
  DEF StatsQueries, StatsStep, ExecuteStats, StatsAnswers, TypeOK, ingestVars, trimVars

(* Every step of the store keeps its type.                                 *)
LEMMA NextType ==
  ASSUME TypeOK, [Next]_vars
  PROVE  TypeOK'
<1>1. CASE UNCHANGED vars
  BY <1>1 DEF TypeOK, vars, ingestVars, trimVars, statsVars
<1>2. CASE Next
  BY <1>2, AddType, FlushType, FlushStepType, TrimStepType, ClearType, ClearStepType, StatsType
  DEF Next
<1> QED  BY <1>1, <1>2

(* The store starts well typed.                                            *)
LEMMA InitType == Init => TypeOK
<1> SUFFICES ASSUME Init PROVE TypeOK  OBVIOUS
<1>1. NoFlight \in Flight  BY EmptySeq DEF NoFlight, Flight, Answers
<1>2. NoTrim \in Trim  BY DEF NoTrim, TrimAt, Trim, Answers
<1>3. NoClear \in Clear  BY DEF NoClear, ClearAt, Clear, Answers
<1>4. NoRead \in Read  BY DEF NoRead, ReadAt, Read, Answers
<1>5. \A f \in Flights : flights[f].pc = "idle"  BY DEF Init, NoFlight
<1>6. /\ flights \in [Flights -> Flight] /\ trims \in [Projects -> Trim]
      /\ clears \in [Clears -> Clear] /\ reads \in [Readers -> Read]
  BY <1>1, <1>2, <1>3, <1>4 DEF Init
<1>7. rowCounts \in [Projects -> Int] /\ insertsSinceCleanup \in [Projects -> Nat]
  BY DEF Init, Unknown
<1>8. buffer \in Seq(Calls)  BY EmptySeq DEF Init
<1> QED  BY <1>5, <1>6, <1>7, <1>8 DEF Init, TypeOK

(* The state of the store always has its type.                             *)
THEOREM TypeCorrect == Spec => []TypeOK
BY InitType, NextType, PTL DEF Spec

-----------------------------------------------------------------------------
(* The timer, and where the unsettled calls of add() are.                  *)

(* The buffer and its timer agree, and the buffer stays below FLUSH_MAX.   *)
THEOREM TimerAlwaysCovers == Spec => []TimerCovers
<1>1. Init => TimerCovers
  BY PgStoreAssumption DEF Init, TimerCovers
<1>2. TypeOK /\ TimerCovers /\ [Next]_vars => TimerCovers'
  <2> SUFFICES ASSUME TypeOK, TimerCovers, [Next]_vars PROVE TimerCovers'  OBVIOUS
  <2>1. ASSUME buffer' = << >>, flushTimer' = FALSE PROVE TimerCovers'
    BY <2>1, PgStoreAssumption DEF TimerCovers
  <2>2. ASSUME UNCHANGED <<buffer, flushTimer>> PROVE TimerCovers'
    BY <2>2 DEF TimerCovers
  <2>3. ASSUME NEW c \in Calls, AddBuffered(c) PROVE TimerCovers'
    <3>1. Len(buffer') = Len(buffer) + 1 /\ Len(buffer) \in Nat
      BY <2>3, RangeAppend DEF AddBuffered, TypeOK, ArmTimer
    <3>2. buffer' # << >>  BY <3>1
    <3> QED  BY <2>3, <3>1, <3>2 DEF AddBuffered, TimerCovers, ArmTimer
  <2>4. ASSUME NEW c \in Calls, AddFull(c) PROVE TimerCovers'
    BY <2>1, <2>4 DEF AddFull, Launch, TakeBuffer
  <2>5. CASE TimerFlush \/ Close
    BY <2>1, <2>5 DEF TimerFlush, Close, Launch, TakeBuffer
  <2>6. ASSUME NEW f \in Flights, FlushStep(f) PROVE TimerCovers'
    BY <2>2, <2>6 DEF FlushStep, ExecuteFlush, BatchWritten, BatchFailed, RowAnswered, LastRow, RowOutcome
  <2>7. ASSUME NEW p \in Projects, TrimStep(p) PROVE TimerCovers'
    BY <2>2, <2>7 DEF TrimStep, ExecuteTrim, TrimCounted, TrimDeleted, TrimFailed, ingestVars, Drained
  <2>8. ASSUME NEW k \in Clears, NEW s \in Scopes, ClearScoped(k, s) \/ ClearAll(k, s)
        PROVE  TimerCovers'
    BY <2>1, <2>2, <2>8 DEF ClearScoped, ClearAll, ingestVars, TakeBuffer
  <2>9. ASSUME NEW k \in Clears, ClearStep(k) PROVE TimerCovers'
    BY <2>2, <2>9 DEF ClearStep, ExecuteClear, ClearContinues, ClearReturns, ClearFails, ingestVars, FoundRows
  <2>10. ASSUME NEW r \in Readers, StatsQueries(r) \/ StatsStep(r) PROVE TimerCovers'
    BY <2>2, <2>10 DEF StatsQueries, StatsStep, ExecuteStats, StatsAnswers, ingestVars
  <2>11. CASE UNCHANGED vars  BY <2>2, <2>11 DEF vars, ingestVars
  <2> QED  BY <2>3, <2>4, <2>5, <2>6, <2>7, <2>8, <2>9, <2>10, <2>11 DEF Next
<1> QED  BY <1>1, <1>2, TypeCorrect, PTL DEF Spec

-----------------------------------------------------------------------------
(* The inductive invariant adds what a flight looks like before its retry. *)
FlightShape(fl) == /\ fl.pc = "idle" => fl.batch = << >>
                   /\ fl.pc \in {"idle", "batch"} => fl.next = 1
Placement == OnePlace /\ \A f \in Flights : FlightShape(flights[f])

(* A batch that is not yet split waits with all its calls.                 *)
LEMMA UnsettledOf ==
  ASSUME NEW s \in Seq(Calls), NEW fl, fl.batch = s, fl.next = 1
  PROVE  Unsettled(fl) = Range(s)
<1>1. DOMAIN s = 1 .. Len(s)  OBVIOUS
<1> QED  BY <1>1 DEF Unsettled, Range

(* The placement of the next state, said of the next values.               *)
LEMMA PlacementPrimed ==
  ASSUME {c \in Calls : promise'[c] = "pending"} = Range(buffer') \cup Awaiting',
         Range(buffer') \cap Awaiting' = {},
         \A f, g \in Flights : f # g => Unsettled(flights'[f]) \cap Unsettled(flights'[g]) = {},
         IsOnce(buffer'),
         \A f \in Flights : IsOnce(flights'[f].batch) /\ FlightShape(flights'[f])
  PROVE  Placement'
BY DEF Placement, OnePlace, Range, Unsettled, IsOnce, FlightShape

(* A step that changes no batch and settles nothing keeps the placement.   *)
LEMMA PlacementSameBatches ==
  ASSUME Placement, UNCHANGED <<buffer, promise>>,
         \A f \in Flights : /\ flights'[f].batch = flights[f].batch
                            /\ flights'[f].next = flights[f].next
                            /\ FlightShape(flights'[f])
  PROVE  Placement'
<1>1. \A f \in Flights : Unsettled(flights'[f]) = Unsettled(flights[f])  BY DEF Unsettled
<1>2. Awaiting' = Awaiting
  <2>1. Awaiting' = UNION {Unsettled(flights'[f]) : f \in Flights}  BY DEF Awaiting, Unsettled
  <2> QED  BY <1>1, <2>1 DEF Awaiting
<1>3. \A f, g \in Flights : f # g => Unsettled(flights'[f]) \cap Unsettled(flights'[g]) = {}
  BY <1>1 DEF Placement, OnePlace
<1>4. \A f \in Flights : IsOnce(flights'[f].batch)  BY DEF Placement, OnePlace
<1>5. {c \in Calls : promise'[c] = "pending"} = Range(buffer') \cup Awaiting'
  BY <1>2 DEF Placement, OnePlace
<1>6. Range(buffer') \cap Awaiting' = {} /\ IsOnce(buffer')
  BY <1>2 DEF Placement, OnePlace
<1> QED  BY <1>3, <1>4, <1>5, <1>6, PlacementPrimed

(* Steps that leave the ingestion state alone keep the placement.          *)
LEMMA PlacementUnchanged ==
  ASSUME Placement, UNCHANGED ingestVars
  PROVE  Placement'
BY PlacementSameBatches DEF ingestVars, Placement

(* The buffer becomes the batch of one flight: its calls move together.    *)
LEMMA LaunchPlacement ==
  ASSUME TypeOK, Placement, NEW f \in Flights, NEW s \in Seq(Calls), NEW b,
         Launch(f, s, b), IsOnce(s), Range(buffer) \subseteq Range(s),
         {c \in Calls : promise'[c] = "pending"} = Range(s) \cup Awaiting,
         Range(s) \cap Awaiting = {}
  PROVE  Placement'
<1>1. /\ flights'[f] = [pc |-> "batch", batch |-> s, next |-> 1, ans |-> Issued, forClose |-> b]
      /\ \A g \in Flights \ {f} : flights'[g] = flights[g]
      /\ buffer' = << >>
  BY DEF Launch, TypeOK, TakeBuffer
<1>2. Unsettled(flights[f]) = {}
  <2>1. flights[f].batch = << >> /\ flights[f].next = 1
    BY DEF Launch, Placement, FlightShape, TakeBuffer
  <2>2. 1 .. Len(<< >>) = {}  OBVIOUS
  <2> QED  BY <2>1, <2>2 DEF Unsettled
<1>3. Unsettled(flights'[f]) = Range(s)  BY <1>1, UnsettledOf
<1>4. \A g \in Flights \ {f} : Unsettled(flights'[g]) = Unsettled(flights[g])  BY <1>1
<1>5. Awaiting' = UNION {Unsettled(flights'[g]) : g \in Flights}  BY DEF Awaiting, Unsettled
<1>6. Awaiting' = Range(s) \cup Awaiting  BY <1>2, <1>3, <1>4, <1>5 DEF Awaiting
<1>7. \A g, h \in Flights : g # h => Unsettled(flights'[g]) \cap Unsettled(flights'[h]) = {}
  BY <1>3, <1>4 DEF Awaiting, Placement, OnePlace
<1>8. \A g \in Flights : IsOnce(flights'[g].batch) /\ FlightShape(flights'[g])
  BY <1>1 DEF Placement, OnePlace, FlightShape
<1>9. Range(buffer') = {} /\ IsOnce(buffer')  BY <1>1 DEF Range, IsOnce
<1> QED  BY <1>6, <1>7, <1>8, <1>9, PlacementPrimed

(* A flight that settles calls and the rest of its batch.                  *)
LEMMA SettlePlacement ==
  ASSUME TypeOK, Placement, NEW f \in Flights, NEW S, S \subseteq Unsettled(flights[f]),
         \A g \in Flights \ {f} : flights'[g] = flights[g],
         Unsettled(flights'[f]) = Unsettled(flights[f]) \ S,
         IsOnce(flights'[f].batch), FlightShape(flights'[f]),
         UNCHANGED buffer,
         \A c \in Calls : (promise'[c] = "pending") <=> (promise[c] = "pending" /\ c \notin S)
  PROVE  Placement'
<1>1. Awaiting' = UNION {Unsettled(flights'[g]) : g \in Flights}  BY DEF Awaiting, Unsettled
<1>2. Awaiting' = Awaiting \ S
  BY <1>1 DEF Awaiting, Placement, OnePlace
<1>3. Range(buffer) \cap S = {}  BY DEF Awaiting, Placement, OnePlace
<1>4. {c \in Calls : promise'[c] = "pending"} = {c \in Calls : promise[c] = "pending"} \ S
  OBVIOUS
<1>5. {c \in Calls : promise'[c] = "pending"} = Range(buffer') \cup Awaiting'
  BY <1>2, <1>3, <1>4 DEF Placement, OnePlace
<1>6. Range(buffer') \cap Awaiting' = {} /\ IsOnce(buffer')
  BY <1>2 DEF Placement, OnePlace
<1>7. \A g, h \in Flights : g # h => Unsettled(flights'[g]) \cap Unsettled(flights'[h]) = {}
  BY DEF Placement, OnePlace
<1>8. \A g \in Flights : IsOnce(flights'[g].batch) /\ FlightShape(flights'[g])
  BY DEF Placement, OnePlace
<1> QED  BY <1>5, <1>6, <1>7, <1>8, PlacementPrimed

(* The row that insertOneByOne() settles is the first unsettled one.       *)
LEMMA RowUnsettled ==
  ASSUME NEW s \in Seq(Calls), NEW i \in 1 .. Len(s), IsOnce(s)
  PROVE  {s[j] : j \in i + 1 .. Len(s)} = {s[j] : j \in i .. Len(s)} \ {s[i]}
<1>1. DOMAIN s = 1 .. Len(s) /\ Len(s) \in Nat  OBVIOUS
<1>2. i .. Len(s) = {i} \cup (i + 1 .. Len(s)) /\ i \notin i + 1 .. Len(s)  BY <1>1
<1>3. \A j \in i + 1 .. Len(s) : s[j] # s[i]  BY <1>1 DEF IsOnce
<1> QED  BY <1>2, <1>3

(* Nothing that was settled changes.                                       *)
SettledStays == \A c \in Calls : promise[c] \notin {"none", "pending"} => promise'[c] = promise[c]

(* A call that is new to add() is new to the buffer.                       *)
LEMMA AppendOnce ==
  ASSUME TypeOK, Placement, NEW c \in Calls, promise[c] = "none"
  PROVE  /\ Append(buffer, c) \in Seq(Calls)
         /\ Range(Append(buffer, c)) = Range(buffer) \cup {c}
         /\ c \notin Range(buffer) /\ c \notin Awaiting
         /\ IsOnce(Append(buffer, c))
<1>1. /\ Append(buffer, c) \in Seq(Calls)
      /\ Range(Append(buffer, c)) = Range(buffer) \cup {c}
      /\ Len(Append(buffer, c)) = Len(buffer) + 1
  BY RangeAppend DEF TypeOK
<1>2. c \notin Range(buffer) /\ c \notin Awaiting  BY DEF Placement, OnePlace
<1>3. IsOnce(Append(buffer, c))
  <2>1. DOMAIN Append(buffer, c) = 1 .. Len(buffer) + 1 /\ DOMAIN buffer = 1 .. Len(buffer)
    BY <1>1 DEF TypeOK
  <2>2. /\ Append(buffer, c)[Len(buffer) + 1] = c
        /\ \A j \in 1 .. Len(buffer) : Append(buffer, c)[j] = buffer[j]
    BY DEF TypeOK
  <2>3. \A j \in 1 .. Len(buffer) : buffer[j] # c
    BY <1>2, <2>1 DEF Range
  <2> QED  BY <2>1, <2>2, <2>3 DEF IsOnce, Placement, OnePlace, TypeOK
<1> QED  BY <1>1, <1>2, <1>3

(* add() puts a call into the buffer or into a flush.                      *)
LEMMA AddPlacement ==
  ASSUME TypeOK, Placement, NEW c \in Calls, AddBuffered(c) \/ AddFull(c)
  PROVE  Placement' /\ SettledStays
<1>1. promise[c] = "none" /\ promise' = [promise EXCEPT ![c] = "pending"]
  BY DEF AddBuffered, AddFull, ArmTimer
<1>2. SettledStays  BY <1>1 DEF SettledStays, TypeOK
<1>3. {d \in Calls : promise'[d] = "pending"} = {c} \cup {d \in Calls : promise[d] = "pending"}
  BY <1>1 DEF TypeOK
<1>4. /\ Append(buffer, c) \in Seq(Calls)
      /\ Range(Append(buffer, c)) = Range(buffer) \cup {c}
      /\ c \notin Range(buffer) /\ c \notin Awaiting
      /\ IsOnce(Append(buffer, c))
  BY <1>1, AppendOnce
<1>5. CASE AddFull(c)
  <2>1. PICK f \in Flights : Launch(f, Append(buffer, c), FALSE)  BY <1>5 DEF AddFull
  <2>2. {d \in Calls : promise'[d] = "pending"} = Range(Append(buffer, c)) \cup Awaiting
    BY <1>3, <1>4 DEF Placement, OnePlace
  <2>3. Range(Append(buffer, c)) \cap Awaiting = {}
    BY <1>4 DEF Placement, OnePlace
  <2> QED  BY <1>2, <1>4, <2>1, <2>2, <2>3, LaunchPlacement
<1>6. CASE AddBuffered(c)
  <2>1. buffer' = Append(buffer, c) /\ flights' = flights  BY <1>6 DEF AddBuffered, ArmTimer
  <2>2. Awaiting' = Awaiting  BY <2>1 DEF Awaiting, Unsettled
  <2>3. \A f, g \in Flights : f # g => Unsettled(flights'[f]) \cap Unsettled(flights'[g]) = {}
    BY <2>1 DEF Placement, OnePlace
  <2>4. \A f \in Flights : IsOnce(flights'[f].batch) /\ FlightShape(flights'[f])
    BY <2>1 DEF Placement, OnePlace
  <2>5. /\ {d \in Calls : promise'[d] = "pending"} = Range(buffer') \cup Awaiting'
        /\ Range(buffer') \cap Awaiting' = {} /\ IsOnce(buffer')
    BY <1>3, <1>4, <2>1, <2>2 DEF Placement, OnePlace
  <2> QED  BY <1>2, <2>3, <2>4, <2>5, PlacementPrimed
<1> QED  BY <1>5, <1>6

(* The timer and close() move the buffer into a flush.                     *)
LEMMA FlushPlacement ==
  ASSUME TypeOK, Placement, TimerFlush \/ Close
  PROVE  Placement' /\ SettledStays
<1>1. promise' = promise  BY DEF TimerFlush, Close
<1>2. SettledStays  BY <1>1 DEF SettledStays
<1>3. CASE buffer = << >>
  BY <1>1, <1>2, <1>3, PlacementSameBatches DEF TimerFlush, Close, Placement
<1>4. CASE buffer # << >>
  <2>1. PICK f \in Flights, b \in BOOLEAN : Launch(f, buffer, b)
    BY <1>4 DEF TimerFlush, Close
  <2>2. /\ IsOnce(buffer) /\ Range(buffer) \cap Awaiting = {} /\ buffer \in Seq(Calls)
        /\ {c \in Calls : promise'[c] = "pending"} = Range(buffer) \cup Awaiting
    BY <1>1 DEF Placement, OnePlace, TypeOK
  <2> QED  BY <1>2, <2>1, <2>2, LaunchPlacement
<1> QED  BY <1>3, <1>4

(* A flush settles the calls it lets go.                                   *)
LEMMA FlushStepPlacement ==
  ASSUME TypeOK, Placement, NEW f \in Flights, FlushStep(f)
  PROVE  Placement' /\ SettledStays
<1> DEFINE fl == flights[f]
<1>1. /\ fl \in Flight /\ fl.batch \in Seq(Calls) /\ Len(fl.batch) \in Nat /\ fl.next \in Nat
      /\ fl.pc # "idle" => fl.next \in 1 .. Len(fl.batch)
      /\ FlightShape(fl) /\ IsOnce(fl.batch)
      /\ Unsettled(fl) \subseteq {c \in Calls : promise[c] = "pending"}
  BY DEF TypeOK, Flight, Placement, OnePlace, Awaiting
<1>2. Unsettled(NoFlight) = {} /\ IsOnce(NoFlight.batch) /\ FlightShape(NoFlight)
  BY DEF Unsettled, NoFlight, IsOnce, FlightShape
<1>3. CASE ExecuteFlush(f)
  <2>1. PICK a : flights' = [flights EXCEPT ![f].ans = a]  BY <1>3 DEF ExecuteFlush
  <2>2. \A g \in Flights : /\ flights'[g].batch = flights[g].batch
                           /\ flights'[g].next = flights[g].next
                           /\ flights'[g].pc = flights[g].pc
    BY <2>1 DEF TypeOK, Flight
  <2>3. \A g \in Flights : FlightShape(flights'[g])  BY <2>2 DEF Placement, FlightShape
  <2>4. buffer' = buffer /\ promise' = promise  BY <1>3 DEF ExecuteFlush
  <2> QED  BY <2>2, <2>3, <2>4, PlacementSameBatches DEF SettledStays
<1>4. CASE BatchFailed(f)
  <2>1. \A g \in Flights : /\ flights'[g].batch = flights[g].batch
                           /\ flights'[g].next = flights[g].next
                           /\ FlightShape(flights'[g])
    BY <1>1, <1>4 DEF BatchFailed, TypeOK, Flight, Placement, FlightShape
  <2>2. buffer' = buffer /\ promise' = promise  BY <1>4 DEF BatchFailed
  <2> QED  BY <2>1, <2>2, PlacementSameBatches DEF SettledStays
<1>5. CASE BatchWritten(f)
  <2>1. Unsettled(fl) = Range(fl.batch)
    BY <1>1, <1>5, UnsettledOf DEF BatchWritten, FlightShape
  <2>2. /\ flights' = [flights EXCEPT ![f] = NoFlight] /\ buffer' = buffer
        /\ promise' = [c \in Calls |-> IF c \in Range(fl.batch) THEN "resolved" ELSE promise[c]]
    BY <1>5 DEF BatchWritten, FlushReturns
  <2>3. /\ \A g \in Flights \ {f} : flights'[g] = flights[g]
        /\ flights'[f] = NoFlight
    BY <2>2 DEF TypeOK
  <2>4. \A c \in Calls : (promise'[c] = "pending") <=> (promise[c] = "pending" /\ c \notin Unsettled(fl))
    BY <2>1, <2>2
  <2>5. SettledStays  BY <1>1, <2>1, <2>2 DEF SettledStays
  <2> QED  BY <1>2, <2>2, <2>3, <2>4, <2>5, SettlePlacement
<1>6. CASE RowAnswered(f)
  <2> DEFINE c == fl.batch[fl.next]
  <2>1. fl.pc = "row" /\ fl.ans # "none" /\ fl.next \in 1 .. Len(fl.batch) /\ buffer' = buffer
    BY <1>1, <1>6 DEF RowAnswered, LastRow, RowOutcome
  <2>2. c \in Unsettled(fl) /\ promise[c] = "pending" /\ c \in Calls
    BY <1>1, <2>1 DEF Unsettled
  <2>3. PICK v \in {"resolved"} \cup Rejections : promise' = [promise EXCEPT ![c] = v]
    BY <1>1, <1>6, <2>1 DEF RowAnswered, Rejections, Flight, Answers, LastRow, RowOutcome
  <2>4. \A d \in Calls : (promise'[d] = "pending") <=> (promise[d] = "pending" /\ d \notin {c})
    BY <2>2, <2>3 DEF TypeOK, Rejections
  <2>5. SettledStays  BY <2>2, <2>3 DEF SettledStays, TypeOK
  <2>6. Unsettled(fl) \ {c} = {fl.batch[j] : j \in fl.next + 1 .. Len(fl.batch)}
    BY <1>1, <2>1, RowUnsettled DEF Unsettled
  <2>7. CASE fl.next = Len(fl.batch)
    <3>1. flights' = [flights EXCEPT ![f] = NoFlight]
      BY <1>6, <2>7 DEF RowAnswered, FlushReturns, LastRow, RowOutcome
    <3>2. Unsettled(fl) \ {c} = {}  BY <1>1, <2>6, <2>7
    <3>3. /\ \A g \in Flights \ {f} : flights'[g] = flights[g]
          /\ flights'[f] = NoFlight
      BY <3>1 DEF TypeOK
    <3> QED  BY <1>2, <2>1, <2>2, <2>4, <2>5, <3>2, <3>3, SettlePlacement
  <2>8. CASE fl.next # Len(fl.batch)
    <3>1. flights' = [flights EXCEPT ![f].next = fl.next + 1, ![f].ans = Issued]
      BY <1>6, <2>8 DEF RowAnswered, LastRow, RowOutcome
    <3>2. /\ \A g \in Flights \ {f} : flights'[g] = flights[g]
          /\ flights'[f].batch = fl.batch /\ flights'[f].next = fl.next + 1
          /\ flights'[f].pc = "row"
      BY <2>1, <3>1 DEF TypeOK, Flight
    <3>3. Unsettled(flights'[f]) = Unsettled(fl) \ {c}
      <4>1. Unsettled(flights'[f]) = {fl.batch[j] : j \in fl.next + 1 .. Len(fl.batch)}
        BY <3>2 DEF Unsettled
      <4> QED  BY <2>6, <4>1
    <3>4. IsOnce(flights'[f].batch) /\ FlightShape(flights'[f])
      BY <1>1, <3>2 DEF FlightShape
    <3> QED  BY <2>1, <2>2, <2>4, <2>5, <3>2, <3>3, <3>4, SettlePlacement
  <2> QED  BY <2>7, <2>8
<1> QED  BY <1>3, <1>4, <1>5, <1>6 DEF FlushStep

(* A clear of everything settles the calls of the buffer.                  *)
LEMMA ClearPlacement ==
  ASSUME TypeOK, Placement, NEW k \in Clears, NEW s \in Scopes, ClearAll(k, s)
  PROVE  Placement' /\ SettledStays
<1>1. /\ flights' = flights /\ buffer' = << >>
      /\ promise' = [c \in Calls |-> IF c \in Range(buffer) THEN "resolved" ELSE promise[c]]
  BY DEF ClearAll, TakeBuffer
<1>2. Awaiting' = Awaiting  BY <1>1 DEF Awaiting, Unsettled
<1>3. Range(buffer') = {} /\ IsOnce(buffer')  BY <1>1 DEF Range, IsOnce
<1>4. {c \in Calls : promise'[c] = "pending"} = Awaiting
  BY <1>1 DEF Placement, OnePlace
<1>5. \A f, g \in Flights : f # g => Unsettled(flights'[f]) \cap Unsettled(flights'[g]) = {}
  BY <1>1 DEF Placement, OnePlace
<1>6. \A f \in Flights : IsOnce(flights'[f].batch) /\ FlightShape(flights'[f])
  BY <1>1 DEF Placement, OnePlace
<1>7. SettledStays  BY <1>1 DEF SettledStays, Placement, OnePlace
<1> QED  BY <1>2, <1>3, <1>4, <1>5, <1>6, <1>7, PlacementPrimed

(* Every step keeps the placement and what was settled.                    *)
LEMMA NextPlacement ==
  ASSUME TypeOK, Placement, [Next]_vars
  PROVE  Placement' /\ SettledStays
<1>1. ASSUME UNCHANGED ingestVars PROVE Placement' /\ SettledStays
  BY <1>1, PlacementUnchanged DEF ingestVars, SettledStays
<1>2. ASSUME NEW p \in Projects, TrimStep(p) PROVE UNCHANGED ingestVars
  BY <1>2 DEF TrimStep, ExecuteTrim, TrimCounted, TrimDeleted, TrimFailed, Drained
<1>3. ASSUME NEW k \in Clears, NEW s \in Scopes, ClearScoped(k, s) PROVE UNCHANGED ingestVars
  BY <1>3 DEF ClearScoped
<1>4. ASSUME NEW k \in Clears, ClearStep(k) PROVE UNCHANGED ingestVars
  BY <1>4 DEF ClearStep, ExecuteClear, ClearContinues, ClearReturns, ClearFails, FoundRows
<1>5. ASSUME NEW r \in Readers, StatsQueries(r) \/ StatsStep(r) PROVE UNCHANGED ingestVars
  BY <1>5 DEF StatsQueries, StatsStep, ExecuteStats, StatsAnswers
<1>6. CASE UNCHANGED vars  BY <1>1, <1>6 DEF vars
<1> QED
  BY <1>1, <1>2, <1>3, <1>4, <1>5, <1>6, AddPlacement, FlushPlacement, FlushStepPlacement,
     ClearPlacement
  DEF Next

(* At first there is no call anywhere.                                     *)
LEMMA InitPlacement == Init => Placement
<1> SUFFICES ASSUME Init PROVE Placement  OBVIOUS
<1>1. Range(buffer) = {}  BY DEF Init, Range
<1>2. \A f \in Flights : Unsettled(flights[f]) = {}
  BY DEF Init, NoFlight, Unsettled
<1> QED  BY <1>1, <1>2 DEF Init, NoFlight, Placement, OnePlace, Awaiting, IsOnce, FlightShape

(* Every unsettled call of add() is in exactly one place.                  *)
THEOREM AlwaysOnePlace == Spec => []OnePlace
<1>1. TypeOK /\ Placement /\ [Next]_vars => Placement'  BY NextPlacement
<1>2. Placement => OnePlace  BY DEF Placement
<1> QED  BY <1>1, <1>2, InitPlacement, TypeCorrect, PTL DEF Spec

(* No promise of add() is settled twice.                                   *)
THEOREM AlwaysSettledOnce == Spec => SettledOnce
<1>1. TypeOK /\ Placement /\ [Next]_vars => Placement' /\ [SettledStays]_vars
  BY NextPlacement
<1>2. SettledOnce <=> [][SettledStays]_vars  BY DEF SettledOnce, SettledStays
<1> QED  BY <1>1, <1>2, InitPlacement, TypeCorrect, PTL DEF Spec

-----------------------------------------------------------------------------
(* What an acknowledged log can rely on.                                   *)

(* A nonempty set of natural numbers has a least element.                  *)
LEMMA LeastElement ==
  ASSUME NEW T, T \subseteq Nat, T # {}
  PROVE  \E x \in T : \A y \in T : x <= y
<1> DEFINE Upto == {1 .. j : j \in T}
<1>1. Upto \subseteq FiniteSubsetsOf(Nat)
  <2>1. \A j \in T : IsFiniteSet(1 .. j)  BY FS_Interval
  <2> QED  BY <2>1 DEF FiniteSubsetsOf
<1> HIDE DEF Upto
<1>2. PICK S \in Upto : \A R \in Upto : ~ (<<R, S>> \in StrictSubsetOrdering(Nat))
  <2>1. Upto # {}  BY DEF Upto
  <2> QED  BY <1>1, <2>1, FS_StrictSubsetOrderingWellFounded, WFMin
<1>3. PICK x \in T : S = 1 .. x  BY DEF Upto
<1>4. ASSUME NEW y \in T, y < x  PROVE FALSE
  <2>1. x \in 1 .. x /\ x \notin 1 .. y /\ 1 .. y \subseteq 1 .. x  BY <1>4
  <2>2. <<1 .. y, 1 .. x>> \in StrictSubsetOrdering(Nat)  BY <2>1 DEF StrictSubsetOrdering
  <2> QED  BY <1>2, <1>3, <2>2 DEF Upto
<1> QED  BY <1>4

-----------------------------------------------------------------------------
Kept == KeysOf(table) \cup removed     (* keys that are or were in the table *)

\* An INSERT that the database confirmed left every key of the batch in the table.
Confirmed(fl) == fl.ans = "ok" =>
  /\ fl.pc = "batch" => KeysOf(Range(fl.batch)) \subseteq Kept
  /\ fl.pc = "row" => RowId[fl.batch[fl.next]] \in Kept

Durability == Durable /\ \A f \in Flights : Confirmed(flights[f])

(* An INSERT keeps the keys of the table, and when it commits it adds      *)
(* those of the batch: the first of several calls with one key stores it.  *)
LEMMA InsertKeeps ==
  ASSUME TypeOK, NEW s \in Seq(Calls), NEW a, ExecuteInsert(s, a)
  PROVE  /\ KeysOf(table) \subseteq KeysOf(table')
         /\ a = "ok" => KeysOf(Range(s)) \subseteq KeysOf(table')
<1>1. KeysOf(table) \subseteq KeysOf(table')  BY DEF ExecuteInsert, KeysOf
<1>2. ASSUME a = "ok"  PROVE KeysOf(Range(s)) \subseteq KeysOf(table')
  <2>1. table' = table \cup NewRows(s)  BY <1>2 DEF ExecuteInsert
  <2> SUFFICES ASSUME NEW i \in DOMAIN s, ~Stored(RowId[s[i]])
               PROVE  \E d \in NewRows(s) : RowId[d] = RowId[s[i]]
    BY <2>1 DEF KeysOf, Range, Stored
  <2> DEFINE T == {j \in DOMAIN s : RowId[s[j]] = RowId[s[i]]}
  <2>2. T \subseteq Nat /\ T # {} /\ DOMAIN s = 1 .. Len(s)  OBVIOUS
  <2>3. PICK j \in T : \A h \in T : j <= h  BY <2>2, LeastElement
  <2>4. \A h \in 1 .. j - 1 : RowId[s[h]] # RowId[s[j]]
    <3>1. \A h \in 1 .. j - 1 : h \in DOMAIN s /\ ~(j <= h)  BY <2>2
    <3> QED  BY <2>3, <3>1
  <2>5. s[j] \in NewRows(s)  BY <2>4 DEF NewRows
  <2> QED  BY <2>5
<1> QED  BY <1>1, <1>2

(* A DELETE moves keys from the table to the removed ones.                 *)
LEMMA DeleteKeeps ==
  ASSUME NEW S, NEW a, ExecuteDelete(S, a)
  PROVE  Kept \subseteq Kept'
<1>1. Kept' = KeysOf(table') \cup removed'  BY DEF Kept, KeysOf
<1> QED  BY <1>1 DEF ExecuteDelete, Kept, KeysOf

(* What is kept stays kept: a step that changes no promise and no flight   *)
(* keeps the invariant.                                                    *)
LEMMA DurabilityGrows ==
  ASSUME Durability, Kept \subseteq Kept', UNCHANGED ingestVars, UNCHANGED dropped
  PROVE  Durability'
<1>1. \A f \in Flights : Confirmed(flights[f])'
  BY DEF Durability, Confirmed, ingestVars, KeysOf, Range
<1>2. Kept' = KeysOf(table') \cup removed'  BY DEF Kept, KeysOf
<1>3. Durable'  BY <1>2 DEF Durability, Durable, Kept, ingestVars, KeysOf
<1> QED  BY <1>1, <1>3 DEF Durability

(* A step that settles the calls R, all of them kept or dropped.           *)
LEMMA DurabilitySettles ==
  ASSUME Durability, UNCHANGED <<table, removed>>, dropped \subseteq dropped',
         \A c \in Calls : promise'[c] = "resolved" =>
            promise[c] = "resolved" \/ c \in dropped' \/ RowId[c] \in Kept,
         \A f \in Flights : flights'[f] = flights[f] \/ flights'[f].ans # "ok"
  PROVE  Durability'
<1>1. KeysOf(table') = KeysOf(table) /\ Kept' = Kept  BY DEF KeysOf, Kept
<1>2. Durable'  BY <1>1 DEF Durability, Durable, Kept, KeysOf
<1>3. \A f \in Flights : Confirmed(flights'[f])  BY DEF Durability, Confirmed
<1>4. \A f \in Flights : Confirmed(flights[f])'
  BY <1>1, <1>3 DEF Confirmed, KeysOf, Range
<1> QED  BY <1>2, <1>4 DEF Durability

(* add() settles nothing.                                                  *)
LEMMA AddDurability ==
  ASSUME TypeOK, Durability, NEW c \in Calls, AddBuffered(c) \/ AddFull(c)
  PROVE  Durability'
<1>1. promise' = [promise EXCEPT ![c] = "pending"] /\ UNCHANGED <<table, removed, dropped>>
  BY DEF AddBuffered, AddFull, ArmTimer
<1>2. \A f \in Flights : flights'[f] = flights[f] \/ flights'[f].ans # "ok"
  BY DEF AddBuffered, AddFull, Launch, Issued, TypeOK, TakeBuffer, ArmTimer
<1> QED  BY <1>1, <1>2, DurabilitySettles DEF TypeOK

(* The start of a flush settles nothing.                                   *)
LEMMA FlushDurability ==
  ASSUME TypeOK, Durability, TimerFlush \/ Close
  PROVE  Durability'
<1>1. promise' = promise /\ UNCHANGED <<table, removed, dropped>>  BY DEF TimerFlush, Close
<1>2. \A f \in Flights : flights'[f] = flights[f] \/ flights'[f].ans # "ok"
  BY DEF TimerFlush, Close, Launch, Issued, TypeOK, TakeBuffer
<1> QED  BY <1>1, <1>2, DurabilitySettles

(* A flush resolves only what the database confirmed.                      *)
LEMMA FlushStepDurability ==
  ASSUME TypeOK, Durability, NEW f \in Flights, FlushStep(f)
  PROVE  Durability'
<1> DEFINE fl == flights[f]
<1>1. /\ fl.batch \in Seq(Calls)
      /\ fl.pc # "idle" => fl.next \in 1 .. Len(fl.batch) /\ fl.batch[fl.next] \in Calls
  BY DEF TypeOK, Flight
<1>2. CASE ExecuteFlush(f)
  <2> DEFINE s == IF fl.pc = "batch" THEN fl.batch ELSE <<fl.batch[fl.next]>>
  <2>1. PICK a : ExecuteInsert(s, a) /\ flights' = [flights EXCEPT ![f].ans = a]
    BY <1>2 DEF ExecuteFlush
  <2>2. s \in Seq(Calls)  BY <1>1, <1>2 DEF ExecuteFlush
  <2>3. UNCHANGED <<promise, removed, dropped>>  BY <1>2 DEF ExecuteFlush
  <2>4. /\ KeysOf(table) \subseteq KeysOf(table')
        /\ a = "ok" => KeysOf(Range(s)) \subseteq KeysOf(table')
    BY <2>1, <2>2, InsertKeeps
  <2>5. Kept' = KeysOf(table') \cup removed /\ Kept \subseteq Kept'
    BY <2>3, <2>4 DEF Kept, KeysOf
  <2>6. Durable'  BY <2>3, <2>5 DEF Durability, Durable, Kept, KeysOf
  <2>7. \A g \in Flights \ {f} : Confirmed(flights[g])'
    <3> SUFFICES ASSUME NEW g \in Flights \ {f} PROVE Confirmed(flights[g])'  OBVIOUS
    <3>1. flights'[g] = flights[g]  BY <2>1 DEF TypeOK
    <3>2. Confirmed(flights[g])  BY DEF Durability
    <3> QED  BY <2>5, <3>1, <3>2 DEF Confirmed, KeysOf, Range
  <2>8. Confirmed(flights[f])'
    <3>1. /\ flights'[f].batch = fl.batch /\ flights'[f].next = fl.next
          /\ flights'[f].pc = fl.pc /\ flights'[f].ans = a
      BY <2>1 DEF TypeOK, Flight
    <3>2. fl.pc = "batch" => s = fl.batch  OBVIOUS
    <3>3. fl.pc = "row" => fl.batch[fl.next] \in Range(s)
      BY DEF Range
    <3>4. ASSUME a = "ok", fl.pc = "batch"
          PROVE  KeysOf(Range(fl.batch)) \subseteq Kept'
      BY <2>4, <2>5, <3>2, <3>4
    <3>5. ASSUME a = "ok", fl.pc = "row"  PROVE RowId[fl.batch[fl.next]] \in Kept'
      BY <2>4, <2>5, <3>3, <3>5 DEF KeysOf
    <3> QED  BY <3>1, <3>4, <3>5 DEF Confirmed, KeysOf, Range
  <2> QED  BY <2>6, <2>7, <2>8 DEF Durability
<1>3. CASE BatchWritten(f)
  <2>1. KeysOf(Range(fl.batch)) \subseteq Kept
    BY <1>3 DEF BatchWritten, Durability, Confirmed
  <2>2. \A c \in Calls : promise'[c] = "resolved" =>
          promise[c] = "resolved" \/ RowId[c] \in Kept
    BY <1>3, <2>1 DEF BatchWritten, KeysOf
  <2>3. \A g \in Flights : flights'[g] = flights[g] \/ flights'[g].ans # "ok"
    BY <1>3 DEF BatchWritten, FlushReturns, NoFlight, TypeOK
  <2> QED  BY <1>3, <2>2, <2>3, DurabilitySettles DEF BatchWritten
<1>4. CASE BatchFailed(f)
  <2>1. \A g \in Flights : flights'[g] = flights[g] \/ flights'[g].ans # "ok"
    BY <1>4 DEF BatchFailed, Issued, TypeOK, Flight
  <2> QED  BY <1>4, <2>1, DurabilitySettles DEF BatchFailed
<1>5. CASE RowAnswered(f)
  <2> DEFINE c == fl.batch[fl.next]
  <2>1. /\ fl.pc = "row" /\ UNCHANGED <<table, removed, dropped>>
        /\ promise' = [promise EXCEPT ![c] = IF fl.ans = "ok" THEN "resolved" ELSE fl.ans]
    BY <1>5 DEF RowAnswered, LastRow, RowOutcome
  <2>2. fl.ans # "resolved"  BY DEF TypeOK, Flight, Answers
  <2>3. fl.ans = "ok" => RowId[c] \in Kept  BY <2>1 DEF Durability, Confirmed
  <2>4. \A d \in Calls : promise'[d] = "resolved" =>
          promise[d] = "resolved" \/ RowId[d] \in Kept
    BY <2>1, <2>2, <2>3 DEF TypeOK
  <2>5. \A g \in Flights : flights'[g] = flights[g] \/ flights'[g].ans # "ok"
    BY <1>5 DEF RowAnswered, FlushReturns, NoFlight, Issued, TypeOK, Flight, LastRow, RowOutcome
  <2> QED  BY <2>1, <2>4, <2>5, DurabilitySettles
<1> QED  BY <1>2, <1>3, <1>4, <1>5 DEF FlushStep

(* A clear of everything resolves the calls it drops.                      *)
LEMMA ClearDurability ==
  ASSUME TypeOK, Durability, NEW k \in Clears, NEW s \in Scopes, ClearAll(k, s)
  PROVE  Durability'
<1>1. /\ UNCHANGED <<flights, table, removed>> /\ dropped' = dropped \cup Range(buffer)
      /\ promise' = [c \in Calls |-> IF c \in Range(buffer) THEN "resolved" ELSE promise[c]]
  BY DEF ClearAll, TakeBuffer
<1> QED  BY <1>1, DurabilitySettles

(* The deletions of trim() and clear().                                    *)
LEMMA DeletionsKeep ==
  ASSUME \/ \E p \in Projects : TrimStep(p)
         \/ \E k \in Clears : ClearStep(k)
         \/ \E k \in Clears, s \in Scopes : ClearScoped(k, s)
         \/ \E r \in Readers : StatsQueries(r) \/ StatsStep(r)
         \/ UNCHANGED vars
  PROVE  UNCHANGED ingestVars /\ UNCHANGED dropped /\ Kept \subseteq Kept'
<1>1. ASSUME UNCHANGED <<table, removed>> PROVE Kept \subseteq Kept'
  BY <1>1 DEF Kept, KeysOf
<1>2. ASSUME NEW p \in Projects, TrimStep(p)
      PROVE  UNCHANGED ingestVars /\ UNCHANGED dropped /\ Kept \subseteq Kept'
  BY <1>1, <1>2, DeleteKeeps
  DEF TrimStep, ExecuteTrim, TrimCounted, TrimDeleted, TrimFailed, Drained
<1>3. ASSUME NEW k \in Clears, ClearStep(k)
      PROVE  UNCHANGED ingestVars /\ UNCHANGED dropped /\ Kept \subseteq Kept'
  BY <1>1, <1>3, DeleteKeeps
  DEF ClearStep, ExecuteClear, ClearContinues, ClearReturns, ClearFails, FoundRows
<1>4. ASSUME NEW k \in Clears, NEW s \in Scopes, ClearScoped(k, s)
      PROVE  UNCHANGED ingestVars /\ UNCHANGED dropped /\ Kept \subseteq Kept'
  BY <1>1, <1>4 DEF ClearScoped
<1>5. ASSUME NEW r \in Readers, StatsQueries(r) \/ StatsStep(r)
      PROVE  UNCHANGED ingestVars /\ UNCHANGED dropped /\ Kept \subseteq Kept'
  BY <1>1, <1>5 DEF StatsQueries, StatsStep, ExecuteStats, StatsAnswers
<1> QED  BY <1>1, <1>2, <1>3, <1>4, <1>5 DEF vars

(* Every step keeps the durability invariant.                              *)
LEMMA NextDurability ==
  ASSUME TypeOK, Durability, [Next]_vars
  PROVE  Durability'
BY AddDurability, FlushDurability, FlushStepDurability, ClearDurability, DeletionsKeep,
   DurabilityGrows DEF Next

(* At first nothing is resolved.                                           *)
LEMMA InitDurability == Init => Durability
BY DEF Init, Durability, Durable, Confirmed, NoFlight

(* add() acknowledges only what reached the table, or was dropped with the *)
(* buffer by a clear of everything.                                        *)
THEOREM AlwaysDurable == Spec => []Durable
<1>1. TypeOK /\ Durability /\ [Next]_vars => Durability'  BY NextDurability
<1>2. Durability => Durable  BY DEF Durability
<1> QED  BY <1>1, <1>2, InitDurability, TypeCorrect, PTL DEF Spec

-----------------------------------------------------------------------------
(* PgStore implements LogStore.                                            *)

AbstractVars == <<promise, table, removed, dropped>>

(* The calls of a flight are unanswered.                                   *)
LEMMA FlightsArePending ==
  ASSUME Placement, NEW f \in Flights
  PROVE  Unsettled(flights[f]) \subseteq Abstract!Pending
BY DEF Placement, OnePlace, Awaiting, Abstract!Pending

(* The rows an INSERT adds have new and distinct keys.                     *)
LEMMA NewRowsKeys ==
  ASSUME NEW s \in Seq(Calls)
  PROVE  /\ NewRows(s) \subseteq Range(s)
         /\ KeysOf(NewRows(s)) \cap KeysOf(table) = {}
         /\ \A a, b \in NewRows(s) : RowId[a] = RowId[b] => a = b
<1>1. NewRows(s) \subseteq Range(s)  BY DEF NewRows, Range
<1>2. KeysOf(NewRows(s)) \cap KeysOf(table) = {}  BY DEF NewRows, KeysOf, Stored
<1>3. ASSUME NEW a \in NewRows(s), NEW b \in NewRows(s), RowId[a] = RowId[b]
      PROVE  a = b
  <2>1. PICK i \in DOMAIN s : a = s[i] /\ \A h \in 1 .. i - 1 : RowId[s[h]] # RowId[s[i]]
    BY DEF NewRows
  <2>2. PICK j \in DOMAIN s : b = s[j] /\ \A h \in 1 .. j - 1 : RowId[s[h]] # RowId[s[j]]
    BY DEF NewRows
  <2>3. i \in 1 .. Len(s) /\ j \in 1 .. Len(s)  OBVIOUS
  <2>4. ~ (i < j) /\ ~ (j < i)
    <3>1. i < j => i \in 1 .. j - 1  BY <2>3
    <3>2. j < i => j \in 1 .. i - 1  BY <2>3
    <3> QED  BY <1>3, <2>1, <2>2, <3>1, <3>2
  <2> QED  BY <2>1, <2>2, <2>3, <2>4
<1> QED  BY <1>1, <1>2, <1>3

(* An INSERT of unanswered calls is a Store, or stores nothing.            *)
LEMMA InsertStores ==
  ASSUME NEW s \in Seq(Calls), NEW a, ExecuteInsert(s, a),
         Range(s) \subseteq Abstract!Pending, UNCHANGED <<promise, removed, dropped>>
  PROVE  [Abstract!Next]_AbstractVars
<1>1. CASE UNCHANGED table  BY <1>1 DEF AbstractVars
<1>2. CASE table' = table \cup NewRows(s)
  <2>1. Abstract!KeysOf(NewRows(s)) = KeysOf(NewRows(s)) /\ Abstract!KeysOf(table) = KeysOf(table)
    BY DEF Abstract!KeysOf, KeysOf
  <2>2. Abstract!Store(NewRows(s))  BY <1>2, <2>1, NewRowsKeys DEF Abstract!Store
  <2>3. NewRows(s) \in SUBSET Calls  BY NewRowsKeys DEF Abstract!Pending
  <2> QED  BY <2>2, <2>3 DEF Abstract!Next
<1> QED  BY <1>1, <1>2 DEF ExecuteInsert

(* A DELETE of rows of the table is a Delete, or deletes nothing.          *)
LEMMA DeleteDeletes ==
  ASSUME NEW S, S \subseteq table, S \subseteq Calls, NEW a, ExecuteDelete(S, a),
         UNCHANGED <<promise, dropped>>
  PROVE  [Abstract!Next]_AbstractVars
<1>1. CASE UNCHANGED <<table, removed>>  BY <1>1 DEF AbstractVars
<1>2. CASE table' = table \ S /\ removed' = removed \cup KeysOf(S)
  <2>1. Abstract!Delete(S)  BY <1>2 DEF Abstract!Delete, Abstract!KeysOf, KeysOf
  <2> QED  BY <2>1 DEF Abstract!Next
<1> QED  BY <1>1, <1>2 DEF ExecuteDelete

(* A row that the database has rejected as malformed is.                   *)
RowBlame ==
  \A f \in Flights : flights[f].pc = "row" /\ flights[f].ans = "bad"
    => flights[f].batch[flights[f].next] \in Bad

(* The steps of a flush keep the blame where it belongs.                   *)
LEMMA FlushStepBlame ==
  ASSUME TypeOK, RowBlame, NEW f \in Flights, FlushStep(f)
  PROVE  RowBlame'
<1> DEFINE fl == flights[f]
<1>1. CASE ExecuteFlush(f)
  <2>1. PICK a \in {"ok", "bad", "fault"} :
          /\ ExecuteInsert(IF fl.pc = "batch" THEN fl.batch ELSE <<fl.batch[fl.next]>>, a)
          /\ flights' = [flights EXCEPT ![f].ans = a]
    BY <1>1 DEF ExecuteFlush
  <2>2. ASSUME fl.pc = "row", a = "bad"  PROVE fl.batch[fl.next] \in Bad
    <3>1. Range(<<fl.batch[fl.next]>>) = {fl.batch[fl.next]}  BY DEF Range
    <3> QED  BY <2>1, <2>2, <3>1 DEF ExecuteInsert
  <2> QED  BY <2>1, <2>2 DEF RowBlame, TypeOK, Flight
<1>2. CASE BatchWritten(f)
  <2>1. flights' = [flights EXCEPT ![f] = NoFlight]  BY <1>2 DEF BatchWritten, FlushReturns
  <2> QED  BY <2>1 DEF RowBlame, TypeOK, NoFlight
<1>3. CASE BatchFailed(f)
  BY <1>3 DEF BatchFailed, RowBlame, TypeOK, Flight, Issued
<1>4. CASE RowAnswered(f)
  <2>1. \/ flights' = [flights EXCEPT ![f] = NoFlight]
        \/ flights' = [flights EXCEPT ![f].next = fl.next + 1, ![f].ans = Issued]
    BY <1>4 DEF RowAnswered, FlushReturns
  <2>2. \A g \in Flights \ {f} : flights'[g] = flights[g]  BY <2>1 DEF TypeOK
  <2>3. flights'[f].pc # "row" \/ flights'[f].ans # "bad"
    <3>1. Issued # "bad"  BY DEF Issued
    <3> QED  BY <2>1, <3>1 DEF TypeOK, Flight, NoFlight
  <2> QED  BY <2>2, <2>3 DEF RowBlame
<1> QED  BY <1>1, <1>2, <1>3, <1>4 DEF FlushStep

(* Every step keeps the blame where it belongs.                            *)
LEMMA NextBlame ==
  ASSUME TypeOK, RowBlame, [Next]_vars
  PROVE  RowBlame'
<1>1. ASSUME NEW f \in Flights, NEW calls, NEW b, Launch(f, calls, b)  PROVE RowBlame'
  BY <1>1 DEF Launch, RowBlame, TypeOK, Flight
<1>2. CASE UNCHANGED flights  BY <1>2 DEF RowBlame
<1>3. CASE \E c \in Calls : AddBuffered(c) \/ AddFull(c)
  BY <1>1, <1>2, <1>3 DEF AddBuffered, AddFull
<1>4. CASE TimerFlush \/ Close  BY <1>1, <1>2, <1>4 DEF TimerFlush, Close
<1>5. CASE \E p \in Projects : TrimStep(p)
  BY <1>2, <1>5 DEF TrimStep, ExecuteTrim, TrimCounted, TrimDeleted, TrimFailed, ingestVars
<1>6. CASE \E k \in Clears, s \in Scopes : ClearScoped(k, s) \/ ClearAll(k, s)
  BY <1>2, <1>6 DEF ClearScoped, ClearAll, ingestVars
<1>7. CASE \E k \in Clears : ClearStep(k)
  BY <1>2, <1>7 DEF ClearStep, ExecuteClear, ClearContinues, ClearReturns, ClearFails, ingestVars
<1>8. CASE \E r \in Readers : StatsQueries(r) \/ StatsStep(r)
  BY <1>2, <1>8 DEF StatsQueries, StatsStep, ExecuteStats, StatsAnswers, ingestVars
<1>9. CASE UNCHANGED vars  BY <1>2, <1>9 DEF vars, ingestVars
<1> QED
  BY <1>3, <1>4, <1>5, <1>6, <1>7, <1>8, <1>9, FlushStepBlame DEF Next

(* add() is a Request.                                                     *)
LEMMA AddRequests ==
  ASSUME TypeOK, NEW c \in Calls, AddBuffered(c) \/ AddFull(c)
  PROVE  Abstract!Next
<1>1. promise[c] = "none" /\ promise' = [promise EXCEPT ![c] = "pending"]
  BY DEF AddBuffered, AddFull, ArmTimer
<1>2. Abstract!Request(c)
  BY <1>1 DEF AddBuffered, AddFull, Abstract!Request, Abstract!Answer, TypeOK, ArmTimer
<1> QED  BY <1>2 DEF Abstract!Next

(* A step of a flush stores, acknowledges or refuses its calls, or nothing. *)
LEMMA FlushStepMaps ==
  ASSUME TypeOK, Placement, Durability, RowBlame, NEW f \in Flights, FlushStep(f)
  PROVE  [Abstract!Next]_AbstractVars
<1> DEFINE fl == flights[f]
<1>1. /\ fl.batch \in Seq(Calls) /\ fl.ans \in Answers
      /\ fl.pc # "idle" => fl.next \in 1 .. Len(fl.batch) /\ fl.batch[fl.next] \in Calls
      /\ FlightShape(fl) /\ Unsettled(fl) \subseteq Abstract!Pending
  BY FlightsArePending DEF TypeOK, Flight, Placement
<1>2. fl.pc = "batch" => Range(fl.batch) \subseteq Abstract!Pending
  BY <1>1, UnsettledOf DEF FlightShape
<1>3. fl.pc = "row" => fl.batch[fl.next] \in Abstract!Pending
  BY <1>1 DEF Unsettled
<1>4. CASE ExecuteFlush(f)
  <2> DEFINE s == IF fl.pc = "batch" THEN fl.batch ELSE <<fl.batch[fl.next]>>
  <2>1. PICK a : ExecuteInsert(s, a)  BY <1>4 DEF ExecuteFlush
  <2>2. fl.pc \in {"batch", "row"}  BY <1>4 DEF ExecuteFlush, TypeOK, Flight
  <2>3. s \in Seq(Calls)  BY <1>1, <2>2
  <2>4. Range(s) \subseteq Abstract!Pending  BY <1>2, <1>3, <2>2 DEF Range
  <2> QED  BY <1>4, <2>1, <2>3, <2>4, InsertStores DEF ExecuteFlush
<1>5. CASE BatchWritten(f)
  <2>1. KeysOf(Range(fl.batch)) \subseteq KeysOf(table) \cup removed
    BY <1>5 DEF BatchWritten, Durability, Confirmed, Kept
  <2>2. Abstract!Acknowledge(Range(fl.batch))
    BY <1>2, <1>5, <2>1
    DEF BatchWritten, Abstract!Acknowledge, Abstract!Answer, Abstract!KeysOf, KeysOf
  <2>3. Range(fl.batch) \in SUBSET Calls  BY <1>1 DEF Range
  <2> QED  BY <2>2, <2>3 DEF Abstract!Next
<1>6. CASE BatchFailed(f)  BY <1>6 DEF BatchFailed, AbstractVars
<1>7. CASE RowAnswered(f)
  <2> DEFINE c == fl.batch[fl.next]
  <2>1. /\ fl.pc = "row" /\ UNCHANGED <<table, removed, dropped>>
        /\ promise' = [promise EXCEPT ![c] = IF fl.ans = "ok" THEN "resolved" ELSE fl.ans]
        /\ fl.ans # "none"
    BY <1>7 DEF RowAnswered, LastRow, RowOutcome
  <2>2. c \in Calls /\ c \in Abstract!Pending  BY <1>1, <1>3, <2>1
  <2>3. CASE fl.ans = "ok"
    <3>1. RowId[c] \in KeysOf(table) \cup removed
      BY <2>1, <2>3 DEF Durability, Confirmed, Kept
    <3>2. Abstract!Acknowledge({c})
      BY <2>1, <2>2, <2>3, <3>1
      DEF Abstract!Acknowledge, Abstract!Answer, Abstract!KeysOf, KeysOf, TypeOK
    <3> QED  BY <2>2, <3>2 DEF Abstract!Next
  <2>4. CASE fl.ans # "ok"
    <3>1. fl.ans \in Rejections  BY <1>1, <2>1, <2>4 DEF Answers, Rejections
    <3>2. fl.ans = "bad" => c \in Bad  BY <2>1 DEF RowBlame
    <3>3. Abstract!Refuse(c, fl.ans)
      BY <2>1, <2>2, <2>4, <3>2 DEF Abstract!Refuse, Abstract!Answer, TypeOK
    <3> QED  BY <2>2, <3>1, <3>3 DEF Abstract!Next
  <2> QED  BY <2>3, <2>4
<1> QED  BY <1>4, <1>5, <1>6, <1>7 DEF FlushStep

(* A step of a trim deletes rows, or nothing.                              *)
LEMMA TrimStepMaps ==
  ASSUME TypeOK, NEW p \in Projects, TrimStep(p)
  PROVE  [Abstract!Next]_AbstractVars
<1>1. CASE UNCHANGED AbstractVars  BY <1>1
<1>2. CASE ExecuteTrim(p)
  <2>1. UNCHANGED <<promise, dropped>>  BY <1>2 DEF ExecuteTrim, ingestVars
  <2>2. \A n : \A del \in OldestOf(RowsOf(p), n) : del \subseteq table /\ del \subseteq Calls
    BY DEF OldestOf, Limited, RowsOf, TypeOK
  <2>3. \/ UNCHANGED <<table, removed>>
        \/ \E n : \E del \in OldestOf(RowsOf(p), n), a \in {"ok", "fault"} : ExecuteDelete(del, a)
    BY <1>2 DEF ExecuteTrim
  <2> QED  BY <2>1, <2>2, <2>3, DeleteDeletes DEF AbstractVars
<1> QED
  BY <1>1, <1>2 DEF TrimStep, TrimCounted, TrimDeleted, TrimFailed, AbstractVars, ingestVars, Drained

(* A clear of everything discards the buffer.                              *)
LEMMA ClearAllMaps ==
  ASSUME TypeOK, Placement, NEW k \in Clears, NEW s \in Scopes, ClearAll(k, s)
  PROVE  Abstract!Next
<1>1. Range(buffer) \subseteq Abstract!Pending /\ Range(buffer) \in SUBSET Calls
  BY DEF Placement, OnePlace, Abstract!Pending
<1>2. Abstract!Discard(Range(buffer))
  BY <1>1 DEF ClearAll, Abstract!Discard, Abstract!Answer, TakeBuffer
<1> QED  BY <1>1, <1>2 DEF Abstract!Next

(* A step of a clear deletes rows, or nothing.                             *)
LEMMA ClearStepMaps ==
  ASSUME TypeOK, NEW k \in Clears, ClearStep(k)
  PROVE  [Abstract!Next]_AbstractVars
<1>1. CASE ExecuteClear(k)
  <2>1. UNCHANGED <<promise, dropped>>  BY <1>1 DEF ExecuteClear, ingestVars
  <2>2. CASE clears[k].pc = "count"
    BY <1>1, <2>1, <2>2 DEF ExecuteClear, AbstractVars
  <2>3. CASE clears[k].pc = "truncate"
    <3>1. PICK a : ExecuteDelete(table, a)  BY <1>1, <2>3 DEF ExecuteClear
    <3>2. table \subseteq Calls  BY DEF TypeOK
    <3> QED  BY <2>1, <3>1, <3>2, DeleteDeletes
  <2>4. CASE clears[k].pc = "delete"
    <3>1. PICK del \in Limited(Matching(clears[k].scope), TrimBatch), a \in {"ok", "fault"} :
            ExecuteDelete(del, a)
      BY <1>1, <2>4 DEF ExecuteClear
    <3>2. del \subseteq table /\ del \subseteq Calls  BY DEF Limited, Matching, TypeOK
    <3> QED  BY <2>1, <3>1, <3>2, DeleteDeletes
  <2> QED  BY <1>1, <2>2, <2>3, <2>4 DEF ExecuteClear
<1> QED
  BY <1>1 DEF ClearStep, ClearContinues, ClearReturns, ClearFails, AbstractVars, ingestVars, FoundRows

(* Every step is a step of LogStore or none.                               *)
LEMMA NextMaps ==
  ASSUME TypeOK, Placement, Durability, RowBlame, [Next]_vars
  PROVE  [Abstract!Next]_AbstractVars
<1>1. CASE TimerFlush \/ Close  BY <1>1 DEF TimerFlush, Close, AbstractVars
<1>2. ASSUME NEW k \in Clears, NEW s \in Scopes, ClearScoped(k, s)
      PROVE  UNCHANGED AbstractVars
  BY <1>2 DEF ClearScoped, AbstractVars, ingestVars
<1>3. ASSUME NEW r \in Readers, StatsQueries(r) \/ StatsStep(r)  PROVE UNCHANGED AbstractVars
  BY <1>3 DEF StatsQueries, StatsStep, ExecuteStats, StatsAnswers, AbstractVars, ingestVars
<1>4. CASE UNCHANGED vars  BY <1>4 DEF vars, AbstractVars, ingestVars
<1> QED
  BY <1>1, <1>2, <1>3, <1>4, AddRequests, FlushStepMaps, TrimStepMaps, ClearAllMaps, ClearStepMaps
  DEF Next

(* At first nothing is rejected.                                           *)
LEMMA InitBlame == Init => RowBlame
BY DEF Init, RowBlame, NoFlight

(* The store starts as LogStore does.                                      *)
LEMMA InitMaps == Init => Abstract!Init
BY DEF Init, Abstract!Init

(* The PostgreSQL store keeps the contract of LogStore.                    *)
THEOREM Refinement == Spec => ImplementsLogStore
<1>1. TypeOK /\ Placement /\ [Next]_vars => Placement'  BY NextPlacement
<1>2. TypeOK /\ Durability /\ [Next]_vars => Durability'  BY NextDurability
<1>3. TypeOK /\ RowBlame /\ [Next]_vars => RowBlame'  BY NextBlame
<1>4. TypeOK /\ Placement /\ Durability /\ RowBlame /\ [Next]_vars => [Abstract!Next]_(Abstract!vars)
  BY NextMaps DEF AbstractVars, Abstract!vars
<1> QED
  BY <1>1, <1>2, <1>3, <1>4, InitMaps, InitPlacement, InitDurability, InitBlame, TypeCorrect, PTL
  DEF Spec, ImplementsLogStore, Abstract!Spec
-----------------------------------------------------------------------------
(* What a returned clear had to remove.                                    *)

(* A log that is gone was settled and is not in the table: only calls that *)
(* still wait can enter it, so it never comes back.                        *)
Settled == {c \in Calls : promise[c] \notin {"none", "pending"}}
Gone    == Settled \ table

\* What a clear has to remove, and when it has seen that it is removed.
InScope(s) == {c \in Calls : /\ s.project \in {Unset, ProjectOf[c]}
                             /\ s.before = Unset \/ TimeOf[c] < s.before}
Owed(cl)   == cl.prior \cap InScope(cl.scope)
Removed(cl) == \/ cl.pc = "done"
               \/ cl.pc = "truncate" /\ cl.ans = "ok"
               \/ cl.pc = "delete" /\ cl.ans = "ok" /\ cl.n = 0

Cleaned(cl) == cl.prior \subseteq Settled /\ (Removed(cl) => Owed(cl) \subseteq Gone)
Unaware(rd) == rd.pc = "query" /\ rd.ans = "ok" /\ ~rd.crossed => rd.data \cap Cleared = {}

Finality == /\ \A k \in Clears : Cleaned(clears[k])
            /\ \A r \in Readers : Unaware(reads[r])
            /\ CacheForgetsCleared

(* The contract of LogStore keeps what is gone: an answered call stays     *)
(* answered, and only unanswered calls enter the table.                    *)
LEMMA ContractKeepsGone ==
  ASSUME TypeOK, [Abstract!Next]_AbstractVars, SettledStays
  PROVE  Settled \subseteq Settled' /\ Gone \subseteq Gone'
<1>1. Settled \subseteq Settled'  BY DEF Settled, SettledStays
<1>2. table' \cap Settled \subseteq table
  <2>1. CASE table' \subseteq table  BY <2>1
  <2>2. ASSUME NEW S \in SUBSET Calls, Abstract!Store(S)  PROVE table' \cap Settled \subseteq table
    BY <2>2 DEF Abstract!Store, Abstract!Pending, Settled
  <2>3. CASE Abstract!Next
    BY <2>1, <2>2, <2>3
    DEF Abstract!Next, Abstract!Request, Abstract!Acknowledge, Abstract!Refuse, Abstract!Discard,
        Abstract!Delete
  <2> QED  BY <2>1, <2>3 DEF AbstractVars
<1> QED  BY <1>1, <1>2 DEF Gone

(* A clear that has nothing more to show for itself stays clean.           *)
LEMMA CleanedStays ==
  ASSUME NEW k \in Clears, Cleaned(clears[k]), Settled \subseteq Settled', Gone \subseteq Gone',
         clears'[k].prior = clears[k].prior, clears'[k].scope = clears[k].scope,
         Removed(clears'[k]) => Removed(clears[k])
  PROVE  Cleaned(clears[k])'
<1>1. Owed(clears'[k]) = Owed(clears[k])  BY DEF Owed, InScope
<1>2. /\ clears'[k].prior \subseteq Settled'
      /\ Removed(clears'[k]) => Owed(clears'[k]) \subseteq Gone'
  BY <1>1 DEF Cleaned
<1> QED  BY <1>2 DEF Cleaned, Removed, Owed, InScope, Settled, Gone

(* A clear whose last query found nothing left.                            *)
LEMMA CleanedNow ==
  ASSUME NEW k \in Clears, Cleaned(clears[k]), Settled \subseteq Settled', Gone \subseteq Gone',
         clears'[k].prior = clears[k].prior, clears'[k].scope = clears[k].scope,
         Owed(clears[k]) \cap table' = {}
  PROVE  Cleaned(clears[k])'
<1>1. Owed(clears'[k]) = Owed(clears[k]) /\ Owed(clears[k]) \subseteq clears[k].prior
  BY DEF Owed, InScope
<1>2. Gone' = Settled' \ table'  BY DEF Gone, Settled
<1>3. clears'[k].prior \subseteq Settled' /\ Owed(clears'[k]) \subseteq Gone'
  BY <1>1, <1>2 DEF Cleaned
<1> QED  BY <1>3 DEF Cleaned, Removed, Owed, InScope, Settled, Gone

(* The logs a returned clear had to remove are gone.                       *)
LEMMA ClearedAreGone ==
  ASSUME \A k \in Clears : Cleaned(clears[k])
  PROVE  Cleared \subseteq Gone
<1>1. Cleared = UNION {Owed(clears[k]) : k \in {h \in Clears : clears[h].pc = "done"}}
  <2>1. ASSUME NEW k \in Clears
        PROVE  Owed(clears[k]) =
                 {c \in clears[k].prior : /\ clears[k].scope.project \in {Unset, ProjectOf[c]}
                                          /\ \/ clears[k].scope.before = Unset
                                             \/ TimeOf[c] < clears[k].scope.before}
    <3>1. clears[k].prior \subseteq Calls  BY DEF Cleaned, Settled
    <3> QED  BY <3>1 DEF Owed, InScope
  <2> QED  BY <2>1 DEF Cleared
<1>2. \A k \in Clears : clears[k].pc = "done" => Owed(clears[k]) \subseteq Gone
  BY DEF Cleaned, Removed
<1> QED  BY <1>1, <1>2

(* Without a clear that returns, no log is newly cleared.                  *)
LEMMA ClearedSame ==
  ASSUME \A k \in Clears : clears'[k].pc = "done" =>
           /\ clears[k].pc = "done"
           /\ clears'[k].prior = clears[k].prior /\ clears'[k].scope = clears[k].scope
  PROVE  Cleared' \subseteq Cleared
BY DEF Cleared

(* Answers that are not touched count no cleared log while none is added.  *)
LEMMA AnswersStay ==
  ASSUME Finality, UNCHANGED statsVars, Cleared' \subseteq Cleared
  PROVE  (\A r \in Readers : Unaware(reads[r])') /\ CacheForgetsCleared'
<1>1. \A r \in Readers : Unaware(reads[r])'
  BY DEF Finality, Unaware, statsVars
<1> QED  BY <1>1 DEF Finality, CacheForgetsCleared, statsVars

(* Ingestion and retention leave clears and answers alone.                 *)
LEMMA OthersFinality ==
  ASSUME Finality, Settled \subseteq Settled', Gone \subseteq Gone',
         UNCHANGED clears, UNCHANGED statsVars
  PROVE  Finality'
<1>1. \A k \in Clears : Cleaned(clears[k])'  BY CleanedStays DEF Finality
<1>2. Cleared' \subseteq Cleared  BY ClearedSame
<1> QED  BY <1>1, <1>2, AnswersStay DEF Finality

(* A query reads the table, which holds no cleared log; its answer is      *)
(* cached as it is.                                                        *)
LEMMA StatsFinality ==
  ASSUME TypeOK, Finality, Settled \subseteq Settled', Gone \subseteq Gone',
         NEW r \in Readers, StatsQueries(r) \/ StatsStep(r)
  PROVE  Finality'
<1>1. UNCHANGED clears  BY DEF StatsQueries, StatsStep, ExecuteStats, StatsAnswers
<1>2. \A k \in Clears : Cleaned(clears[k])'  BY <1>1, CleanedStays DEF Finality
<1>3. Cleared' = Cleared  BY <1>1 DEF Cleared
<1>4. reads \in [Readers -> Read]  BY DEF TypeOK
<1>5. CASE StatsQueries(r)
  <2>1. \A q \in Readers : reads'[q] = reads[q] \/ reads'[q].ans # "ok"
    BY <1>4, <1>5 DEF StatsQueries, ReadAt, Issued
  <2>2. \A q \in Readers : Unaware(reads[q])'  BY <1>3, <2>1 DEF Finality, Unaware
  <2>3. CacheForgetsCleared'  BY <1>3, <1>5 DEF StatsQueries, Finality, CacheForgetsCleared
  <2> QED  BY <1>2, <2>2, <2>3 DEF Finality
<1>6. CASE ExecuteStats(r)
  <2>1. table \cap Cleared = {}  BY ClearedAreGone DEF Finality, Gone
  <2>2. reads'[r].data = table \/ reads'[r].ans # "ok"
    BY <1>4, <1>6 DEF ExecuteStats, Read
  <2>3. \A q \in Readers \ {r} : reads'[q] = reads[q]  BY <1>4, <1>6 DEF ExecuteStats
  <2>4. \A q \in Readers : Unaware(reads[q])'
    BY <1>3, <2>1, <2>2, <2>3 DEF Finality, Unaware
  <2>5. CacheForgetsCleared'  BY <1>3, <1>6 DEF ExecuteStats, Finality, CacheForgetsCleared
  <2> QED  BY <1>2, <2>4, <2>5 DEF Finality
<1>7. CASE StatsAnswers(r)
  <2>1. \A q \in Readers : reads'[q] = reads[q] \/ reads'[q].ans # "ok"
    BY <1>4, <1>7 DEF StatsAnswers, NoRead, ReadAt
  <2>2. \A q \in Readers : Unaware(reads[q])'  BY <1>3, <2>1 DEF Finality, Unaware
  <2>3. CacheForgetsCleared'
    <3>1. \A e \in cache' :
            \/ e \in cache
            \/ reads[r].ans = "ok" /\ e.data = reads[r].data /\ e.crossed = reads[r].crossed
      BY <1>7 DEF StatsAnswers
    <3>2. reads[r].pc = "query"  BY <1>7 DEF StatsAnswers
    <3> QED  BY <1>3, <3>1, <3>2 DEF Finality, Unaware, CacheForgetsCleared
  <2> QED  BY <1>2, <2>2, <2>3 DEF Finality
<1> QED  BY <1>5, <1>6, <1>7 DEF StatsStep

(* A clear starts with what is acknowledged, the buffer it takes included. *)
LEMMA ClearStartsFinality ==
  ASSUME TypeOK, Finality, Settled \subseteq Settled', Gone \subseteq Gone',
         NEW k \in Clears, NEW s \in Scopes, ClearScoped(k, s) \/ ClearAll(k, s)
  PROVE  Finality'
<1>1. clears \in [Clears -> Clear]  BY DEF TypeOK
<1>2. PICK pc \in {"delete", "count"}, S \in SUBSET Calls :
        /\ clears' = [clears EXCEPT ![k] = ClearAt(pc, s, Issued, S)]
        /\ S \subseteq Settled'
  <2>1. Acknowledged \subseteq Settled  BY DEF Acknowledged, Settled
  <2>2. CASE ClearScoped(k, s)
    <3>1. Acknowledged \in SUBSET Calls /\ Acknowledged \subseteq Settled'
      BY <2>1 DEF Acknowledged
    <3> QED  BY <2>2, <3>1 DEF ClearScoped
  <2>3. CASE ClearAll(k, s)
    <3>1. Range(buffer) \subseteq Calls  BY DEF TypeOK, Range
    <3>2. \A c \in Range(buffer) : promise'[c] = "resolved"  BY <2>3, <3>1 DEF ClearAll
    <3>3. Range(buffer) \subseteq Settled'  BY <3>1, <3>2 DEF Settled
    <3>4. /\ Acknowledged \cup Range(buffer) \in SUBSET Calls
          /\ Acknowledged \cup Range(buffer) \subseteq Settled'
      BY <2>1, <3>1, <3>3 DEF Acknowledged
    <3> QED  BY <2>3, <3>4 DEF ClearAll
  <2> QED  BY <2>2, <2>3
<1>3. /\ clears'[k] = ClearAt(pc, s, Issued, S)
      /\ \A h \in Clears \ {k} : clears'[h] = clears[h]
  BY <1>1, <1>2
<1>4. ~Removed(clears'[k]) /\ clears'[k].prior = S /\ clears'[k].pc # "done"
  BY <1>3 DEF ClearAt, Removed, Issued
<1>5. Cleaned(clears[k])'  BY <1>2, <1>4 DEF Cleaned, Removed
<1>6. \A h \in Clears : Cleaned(clears[h])'
  <2>1. \A h \in Clears \ {k} : Cleaned(clears[h])'  BY <1>3, CleanedStays DEF Finality
  <2> QED  BY <1>5, <2>1
<1>7. Cleared' \subseteq Cleared  BY <1>3, <1>4, ClearedSame
<1>8. UNCHANGED statsVars  BY DEF ClearScoped, ClearAll
<1> QED  BY <1>6, <1>7, <1>8, AnswersStay DEF Finality

(* A DELETE with LIMIT that deletes nothing found nothing.                 *)
LEMMA NothingFound ==
  ASSUME TypeOK, NEW s, NEW del \in Limited(Matching(s), TrimBatch), Cardinality(del) = 0
  PROVE  Matching(s) = {}
<1>1. Matching(s) \subseteq Calls  BY DEF Matching, TypeOK
<1>2. IsFiniteSet(Matching(s))  BY <1>1, PgStoreAssumption, FS_Subset
<1>3. Cardinality(Matching(s)) \in Nat  BY <1>2, FS_CardinalityType
<1>4. Cardinality(Matching(s)) = 0
  BY <1>3, PgStoreAssumption DEF Limited
<1> QED  BY <1>2, <1>4, FS_EmptySet

(* The queries of a clear: the last DELETE finds none of the logs it owes, *)
(* and a TRUNCATE leaves none.                                             *)
LEMMA ExecuteClearFinality ==
  ASSUME TypeOK, Finality, Settled \subseteq Settled', Gone \subseteq Gone',
         NEW k \in Clears, ExecuteClear(k)
  PROVE  Finality'
<1>1. clears \in [Clears -> Clear] /\ clears[k] \in Clear  BY DEF TypeOK
<1>2. /\ \A h \in Clears \ {k} : clears'[h] = clears[h]
      /\ clears'[k].pc = clears[k].pc /\ clears'[k].prior = clears[k].prior
      /\ clears'[k].scope = clears[k].scope /\ clears[k].pc # "done"
  BY <1>1 DEF ExecuteClear, Clear
<1>3. Cleaned(clears[k])  BY DEF Finality
<1>4. Cleaned(clears[k])'
  <2>1. CASE clears[k].pc = "count"
    <3>1. ~Removed(clears'[k])  BY <1>2, <2>1 DEF Removed
    <3> QED  BY <1>2, <1>3, <3>1, CleanedStays
  <2>2. CASE clears[k].pc = "truncate"
    <3>1. CASE clears'[k].ans # "ok"
      <4>1. ~Removed(clears'[k])  BY <1>2, <2>2, <3>1 DEF Removed
      <4> QED  BY <1>2, <1>3, <4>1, CleanedStays
    <3>2. CASE clears'[k].ans = "ok"
      <4>1. PICK a \in {"ok", "fault"} :
              ExecuteDelete(table, a) /\ clears' = [clears EXCEPT ![k].ans = a]
        BY <2>2 DEF ExecuteClear
      <4>2. a = "ok"  BY <1>1, <3>2, <4>1 DEF Clear
      <4>3. table' = {}  BY <4>1, <4>2 DEF ExecuteDelete
      <4> QED  BY <1>2, <1>3, <4>3, CleanedNow
    <3> QED  BY <3>1, <3>2
  <2>3. CASE clears[k].pc = "delete"
    <3>1. PICK del \in Limited(Matching(clears[k].scope), TrimBatch), a \in {"ok", "fault"} :
            /\ ExecuteDelete(del, a)
            /\ clears' = [clears EXCEPT ![k].ans = a, ![k].n = Cardinality(del)]
      BY <2>3 DEF ExecuteClear
    <3>2. clears'[k].ans = a /\ clears'[k].n = Cardinality(del)
      BY <1>1, <3>1 DEF Clear
    <3>3. CASE a # "ok" \/ Cardinality(del) # 0
      <4>1. ~Removed(clears'[k])  BY <1>2, <2>3, <3>2, <3>3 DEF Removed
      <4> QED  BY <1>2, <1>3, <4>1, CleanedStays
    <3>4. CASE Cardinality(del) = 0
      <4>1. Matching(clears[k].scope) = {}  BY <3>4, NothingFound
      <4>2. Owed(clears[k]) \cap table = {}
        BY <4>1 DEF Matching, Owed, InScope
      <4>3. table' \subseteq table  BY <3>1 DEF ExecuteDelete
      <4>4. Owed(clears[k]) \cap table' = {}  BY <4>2, <4>3
      <4> QED  BY <1>2, <1>3, <4>4, CleanedNow
    <3> QED  BY <3>3, <3>4
  <2> QED  BY <2>1, <2>2, <2>3 DEF ExecuteClear
<1>5. \A h \in Clears : Cleaned(clears[h])'
  <2>1. \A h \in Clears \ {k} : Cleaned(clears[h])'  BY <1>2, CleanedStays DEF Finality
  <2> QED  BY <1>4, <2>1
<1>6. Cleared' \subseteq Cleared  BY <1>2, ClearedSame
<1>7. UNCHANGED statsVars  BY DEF ExecuteClear
<1> QED  BY <1>5, <1>6, <1>7, AnswersStay DEF Finality

(* A clear that goes on or fails promises nothing.                         *)
LEMMA ClearGoesOnFinality ==
  ASSUME TypeOK, Finality, Settled \subseteq Settled', Gone \subseteq Gone',
         NEW k \in Clears, ClearContinues(k) \/ ClearFails(k)
  PROVE  Finality'
<1>1. clears \in [Clears -> Clear] /\ clears[k] \in Clear  BY DEF TypeOK
<1>2. /\ \A h \in Clears \ {k} : clears'[h] = clears[h]
      /\ clears'[k].prior = clears[k].prior /\ clears'[k].scope = clears[k].scope
  BY <1>1 DEF ClearContinues, ClearFails, Clear
<1>3. clears'[k].pc # "done" /\ clears'[k].ans # "ok"
  BY <1>1 DEF ClearContinues, ClearFails, Clear, Issued
<1>4. ~Removed(clears'[k])  BY <1>3 DEF Removed
<1>5. \A h \in Clears : Cleaned(clears[h])'
  <2>1. Cleaned(clears[k])'  BY <1>2, <1>4, CleanedStays DEF Finality
  <2>2. \A h \in Clears \ {k} : Cleaned(clears[h])'  BY <1>2, CleanedStays DEF Finality
  <2> QED  BY <2>1, <2>2
<1>6. Cleared' \subseteq Cleared  BY <1>2, <1>3, ClearedSame
<1>7. UNCHANGED statsVars  BY DEF ClearContinues, ClearFails
<1> QED  BY <1>5, <1>6, <1>7, AnswersStay DEF Finality

(* A clear returns after it saw its logs removed, and forgets the answers. *)
LEMMA ClearReturnsFinality ==
  ASSUME TypeOK, Finality, Settled \subseteq Settled', Gone \subseteq Gone',
         NEW k \in Clears, ClearReturns(k)
  PROVE  Finality'
<1>1. clears \in [Clears -> Clear] /\ clears[k] \in Clear /\ reads \in [Readers -> Read]
  BY DEF TypeOK
<1>2. /\ \A h \in Clears \ {k} : clears'[h] = clears[h]
      /\ clears'[k].prior = clears[k].prior /\ clears'[k].scope = clears[k].scope
  BY <1>1 DEF ClearReturns, Clear
<1>3. Removed(clears[k])
  BY <1>1 DEF ClearReturns, FoundRows, Removed, Clear
<1>4. \A h \in Clears : Cleaned(clears[h])'
  <2>1. Cleaned(clears[k])'  BY <1>2, <1>3, CleanedStays DEF Finality
  <2>2. \A h \in Clears \ {k} : Cleaned(clears[h])'  BY <1>2, CleanedStays DEF Finality
  <2> QED  BY <2>1, <2>2
<1>5. \A r \in Readers : reads'[r].pc = "query" => reads'[r].crossed
  BY <1>1 DEF ClearReturns, InvalidateCaches, Read
<1>6. \A r \in Readers : Unaware(reads[r])'  BY <1>5 DEF Unaware
<1>7. CacheForgetsCleared'  BY DEF ClearReturns, InvalidateCaches, CacheForgetsCleared
<1> QED  BY <1>4, <1>6, <1>7 DEF Finality

(* Every step keeps what a returned clear had to remove out of the store.  *)
LEMMA NextFinality ==
  ASSUME TypeOK, Placement, Durability, RowBlame, Finality, [Next]_vars
  PROVE  Finality'
<1>1. Settled \subseteq Settled' /\ Gone \subseteq Gone'
  BY NextMaps, NextPlacement, ContractKeepsGone
<1>2. ASSUME NEW c \in Calls, AddBuffered(c) \/ AddFull(c)
      PROVE  UNCHANGED clears /\ UNCHANGED statsVars
  BY <1>2 DEF AddBuffered, AddFull
<1>3. CASE TimerFlush \/ Close
  <2>1. UNCHANGED clears /\ UNCHANGED statsVars  BY <1>3 DEF TimerFlush, Close
  <2> QED  BY <1>1, <2>1, OthersFinality
<1>4. ASSUME NEW f \in Flights, FlushStep(f)
      PROVE  UNCHANGED clears /\ UNCHANGED statsVars
  BY <1>4 DEF FlushStep, ExecuteFlush, BatchWritten, BatchFailed, RowAnswered
<1>5. ASSUME NEW p \in Projects, TrimStep(p)
      PROVE  UNCHANGED clears /\ UNCHANGED statsVars
  BY <1>5 DEF TrimStep, ExecuteTrim, TrimCounted, TrimDeleted, TrimFailed
<1>6. CASE UNCHANGED vars
  <2>1. UNCHANGED clears /\ UNCHANGED statsVars  BY <1>6 DEF vars
  <2> QED  BY <1>1, <2>1, OthersFinality
<1>7. ASSUME NEW k \in Clears, ClearStep(k)  PROVE Finality'
  BY <1>1, <1>7, ExecuteClearFinality, ClearGoesOnFinality, ClearReturnsFinality DEF ClearStep
<1> QED
  BY <1>1, <1>2, <1>3, <1>4, <1>5, <1>6, <1>7, OthersFinality, StatsFinality, ClearStartsFinality
  DEF Next

(* At first no clear has begun and nothing is cached.                      *)
LEMMA InitFinality == Init => Finality
BY DEF Init, Finality, Cleaned, Removed, Unaware, CacheForgetsCleared, NoClear, ClearAt, NoRead,
       ReadAt

(* A returned clear is final: no log in its scope that was acknowledged    *)
(* before it started is in the table again, nor counted in an answer that  *)
(* was asked for after a clear had invalidated the caches.                 *)
THEOREM AlwaysClearIsFinal == Spec => []ClearIsFinal
<1>1. TypeOK /\ Placement /\ [Next]_vars => Placement'  BY NextPlacement
<1>2. TypeOK /\ Durability /\ [Next]_vars => Durability'  BY NextDurability
<1>3. TypeOK /\ RowBlame /\ [Next]_vars => RowBlame'  BY NextBlame
<1>4. TypeOK /\ Placement /\ Durability /\ RowBlame /\ Finality /\ [Next]_vars => Finality'
  BY NextFinality
<1>5. Finality => ClearIsFinal
  BY ClearedAreGone DEF Finality, ClearIsFinal, ClearedStayGone, Gone
<1> QED
  BY <1>1, <1>2, <1>3, <1>4, <1>5, InitPlacement, InitDurability, InitBlame, InitFinality,
     TypeCorrect, PTL
  DEF Spec
=============================================================================
