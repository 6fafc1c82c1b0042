--------------------------- MODULE TransportProofs ---------------------------
(***************************************************************************)
(* Proofs about Transport, for every value of its limits and delays.  Inv  *)
(* is inductive: besides the invariants the runs check it says that a      *)
(* socket that is not open yet has an empty queue (so the flush on open    *)
(* starts from nothing), that an open socket leaves nothing in the buffer  *)
(* unless its flush was cut short (so a direct send overtakes nothing),    *)
(* that close() and a rejection both closed the transport, and that a      *)
(* closed transport has no socket.                                         *)
(***************************************************************************)
EXTENDS Transport, SequenceTheorems, TLAPS

Fresh == ws \in {"none", "connecting"} => queue = << >>
Flushed == ws = "open" => buffer = << >> \/ cutShort
GaveUp == (ended \/ rejected => closed) /\ (closed => ws = "none")
AtMost(s, n) == \A i \in 1 .. Len(s) : s[i] <= n
Inv == /\ TypeOK /\ Accounted /\ MemoryBounded /\ OneRecovery
       /\ Fresh /\ GaveUp
Order == Flushed /\ AtMost(handed, sent) /\ AtMost(buffer, sent) /\ InOrder

\* Taking the first n messages from the buffer, n within its length.
LEMMA Split ==
  ASSUME NEW s \in Seq(Nat), NEW n \in 0 .. Len(s)
  PROVE  /\ SubSeq(s, 1, n) \in Seq(Nat) /\ Len(SubSeq(s, 1, n)) = n
         /\ SubSeq(s, n + 1, Len(s)) \in Seq(Nat)
         /\ Len(SubSeq(s, n + 1, Len(s))) = Len(s) - n
         /\ SubSeq(s, 1, n) \o SubSeq(s, n + 1, Len(s)) = s
<1>0. Len(s) \in Nat /\ \A i \in 1 .. Len(s) : s[i] \in Nat
  BY ElementOfSeq, LenProperties
<1>1. SubSeq(s, 1, n) \in Seq(Nat) /\ Len(SubSeq(s, 1, n)) = n
  <2>1. \A i \in 1 .. n : s[i] \in Nat
    BY <1>0
  <2>2. QED BY <1>0, <2>1, SubSeqProperties
<1>2. SubSeq(s, n + 1, Len(s)) \in Seq(Nat) /\ Len(SubSeq(s, n + 1, Len(s))) = Len(s) - n
  <2>1. \A i \in n + 1 .. Len(s) : s[i] \in Nat
    BY <1>0
  <2>2. /\ SubSeq(s, n + 1, Len(s)) \in Seq(Nat)
        /\ Len(SubSeq(s, n + 1, Len(s))) = IF n + 1 <= Len(s) THEN Len(s) - (n + 1) + 1 ELSE 0
    BY <1>0, <2>1, SubSeqProperties
  <2>3. QED BY <1>0, <2>2
<1>3. SubSeq(s, 1, n) \o SubSeq(s, n + 1, Len(s)) = s
  <2>1. SubSeq(s, 1, n) \o SubSeq(s, n + 1, Len(s)) = SubSeq(s, 1, Len(s))
    <3>1. 1 \in 1 .. Len(s) + 1 /\ n \in 1 - 1 .. Len(s) /\ Len(s) \in n .. Len(s)
      BY <1>0
    <3>2. QED BY <3>1, ConcatAdjacentSubSeq
  <2>2. QED BY <2>1, SubSeqFull
<1>4. QED BY <1>1, <1>2, <1>3

\* Appending two parts of a buffer one after the other, or the buffer at once.
LEMMA Regroup ==
  ASSUME NEW s \in Seq(Nat), NEW t \in Seq(Nat), NEW u \in Seq(Nat)
  PROVE  /\ s \o t \in Seq(Nat) /\ Len(s \o t) = Len(s) + Len(t)
         /\ << >> \o t = t
         /\ (s \o t) \o u = s \o (t \o u)
<1>1. s \o t \in Seq(Nat) /\ Len(s \o t) = Len(s) + Len(t)
  BY ConcatProperties
<1>2. << >> \o t = t
  BY ConcatEmptySeq
<1>3. (s \o t) \o u = s \o (t \o u)
  BY ConcatAssociative
<1>4. QED BY <1>1, <1>2, <1>3

\* What flush() does to a buffer when the queue is empty.
LEMMA FlushSplits ==
  ASSUME TypeOK, MemoryBounded, queue = << >>, Flush
  PROVE  /\ handed' \in Seq(Nat) /\ buffer' \in Seq(Nat) /\ queue' \in Seq(Nat)
         /\ Len(handed') + Len(buffer') = Len(handed) + Len(buffer)
         /\ Len(buffer') <= Len(buffer)
         /\ Len(queue') <= MaxQueued + 1
         /\ handed' \o buffer' = handed \o buffer
         /\ buffer' = << >> \/ cutShort'
<1> DEFINE n == Room(queue)
           out == SubSeq(buffer, 1, n)
           rest == SubSeq(buffer, n + 1, Len(buffer))
<1>1. n \in 0 .. Len(buffer) /\ n <= MaxQueued + 1
  BY TransportAssumption, LenProperties DEF Room, Lesser, TypeOK
<1>2. /\ out \in Seq(Nat) /\ Len(out) = n
      /\ rest \in Seq(Nat) /\ Len(rest) = Len(buffer) - n
      /\ out \o rest = buffer
  BY <1>1, Split DEF TypeOK
<1>3. /\ handed' = handed \o out /\ queue' = queue \o out
      /\ buffer' = rest /\ cutShort' = (cutShort \/ n < Len(buffer))
  BY DEF Flush
<1> HIDE DEF n, out, rest
<1>4. handed \in Seq(Nat) /\ Len(handed) \in Nat /\ Len(buffer) \in Nat
  BY LenProperties DEF TypeOK
<1>5. /\ handed \o out \in Seq(Nat) /\ Len(handed \o out) = Len(handed) + Len(out)
      /\ << >> \o out = out
      /\ (handed \o out) \o rest = handed \o (out \o rest)
  <2>1. handed \in Seq(Nat) /\ out \in Seq(Nat) /\ rest \in Seq(Nat)
    BY <1>2, <1>4
  <2>2. handed \o out \in Seq(Nat) /\ Len(handed \o out) = Len(handed) + Len(out)
    BY <2>1, ConcatProperties
  <2>3. << >> \o out = out
    BY <2>1, ConcatEmptySeq
  <2>4. \A s, t, u \in Seq(Nat) : (s \o t) \o u = s \o (t \o u)
    BY Regroup
  <2>5. (handed \o out) \o rest = handed \o (out \o rest)
    BY Zenon, <2>1, <2>4
  <2>6. QED BY <2>2, <2>3, <2>5
<1>7. rest = << >> \/ n < Len(buffer)
  BY <1>1, <1>2, <1>4, EmptySeq
<1>8. handed' \o buffer' = handed \o buffer
  BY <1>2, <1>3, <1>5
<1>9. queue' = out /\ Len(handed') = Len(handed) + n
  BY <1>2, <1>3, <1>5
<1>10. handed' \in Seq(Nat) /\ buffer' \in Seq(Nat) /\ queue' \in Seq(Nat)
  BY <1>2, <1>3, <1>5, <1>9
<1>11. Len(buffer') = Len(buffer) - n /\ Len(queue') = n
  BY <1>2, <1>3, <1>9
<1>12. buffer' = << >> \/ cutShort'
  BY <1>3, <1>7
<1>13. QED
  BY <1>1, <1>4, <1>8, <1>9, <1>10, <1>11, <1>12

\* What KeepForLater does to the buffer.
LEMMA KeepBounds ==
  ASSUME TypeOK, MemoryBounded, NEW m \in Nat, KeepForLater(m)
  PROVE  /\ buffer' \in Seq(Nat) /\ dropped' \in Nat
         /\ Len(buffer') <= MaxBuffer
         /\ Len(buffer') + dropped' = Len(buffer) + dropped + 1
<1>1. CASE Len(buffer) >= MaxBuffer
  <2>1. buffer # << >> /\ Len(buffer) \in Nat
    BY <1>1, TransportAssumption, EmptySeq, LenProperties DEF TypeOK
  <2>2. Tail(buffer) \in Seq(Nat) /\ Len(Tail(buffer)) = Len(buffer) - 1
    BY <2>1, HeadTailProperties DEF TypeOK
  <2>3. QED
    BY <1>1, <2>1, <2>2, TransportAssumption
    DEF KeepForLater, Shifted, Overflow, TypeOK, MemoryBounded
<1>2. CASE ~ (Len(buffer) >= MaxBuffer)
  BY <1>2, TransportAssumption, LenProperties
  DEF KeepForLater, Shifted, Overflow, TypeOK, MemoryBounded
<1>3. QED BY <1>1, <1>2

\* The initial states satisfy the invariant.
LEMMA InvInit == Init => Inv
<1> SUFFICES ASSUME Init PROVE Inv
  OBVIOUS
<1> USE TransportAssumption
<1>1. << >> \in Seq(Nat) /\ Len(<< >>) = 0
  BY EmptySeq
<1>2. TypeOK
  <2>1. ws \in {"none", "connecting"} /\ timer \in BOOLEAN
    BY DEF Init
  <2>2. FirstDelay \in FirstDelay .. MaxDelay
    OBVIOUS
  <2>3. delay \in FirstDelay .. MaxDelay
    BY <2>2 DEF Init
  <2>4. QED BY <1>1, <2>1, <2>3 DEF Init, TypeOK
<1>3. Accounted /\ MemoryBounded
  BY <1>1 DEF Init, Accounted, MemoryBounded
<1>4. OneRecovery /\ Fresh /\ GaveUp
  BY DEF Init, OneRecovery, Fresh, GaveUp
<1>5. QED BY <1>2, <1>3, <1>4 DEF Inv

\* Every step keeps the invariant.
LEMMA InvStep == Inv /\ [Next]_vars => Inv'
<1> SUFFICES ASSUME Inv, [Next]_vars PROVE Inv'
  OBVIOUS
<1> USE TransportAssumption DEF Inv
<1>a. << >> \in Seq(Nat) /\ Len(<< >>) = 0
  BY EmptySeq
<1>0. /\ queue \in Seq(Nat) /\ buffer \in Seq(Nat) /\ handed \in Seq(Nat)
      /\ Len(queue) \in Nat /\ Len(buffer) \in Nat /\ Len(handed) \in Nat
  BY LenProperties DEF TypeOK
<1>1. CASE TimerFires
  <2>1. delay' \in FirstDelay .. MaxDelay
    BY <1>1 DEF TimerFires, NextDelay, Lesser, TypeOK
  <2>2. /\ queue' \in Seq(Nat) /\ Len(queue') \in Nat /\ Len(queue') <= MaxQueued + 1
        /\ ws \in {"none", "connecting"} => queue' = << >>
    <3>1. queue' = << >> \/ queue' = queue
      BY <1>1 DEF TimerFires, Connect, socketVars
    <3>2. ws \in {"none", "connecting"} => queue' = << >>
      BY <3>1 DEF Fresh
    <3>3. CASE queue' = << >>
      BY <1>a, <3>2, <3>3
    <3>4. CASE queue' = queue
      BY <1>0, <3>2, <3>4 DEF MemoryBounded
    <3>5. QED BY <3>1, <3>3, <3>4
  <2>3. TypeOK'
    BY <1>1, <2>1, <2>2
    DEF TimerFires, Connect, ScheduleReconnect, socketVars, bufferVars, historyVars, TypeOK
  <2>4. Accounted' /\ MemoryBounded'
    BY <1>1, <2>2 DEF TimerFires, bufferVars, historyVars, Accounted, MemoryBounded
  <2>5. OneRecovery' /\ Fresh' /\ GaveUp'
    BY <1>1
    DEF TimerFires, Connect, ScheduleReconnect, socketVars, historyVars, OneRecovery, Fresh, GaveUp
  <2>6. QED BY <2>3, <2>4, <2>5
<1>2. CASE Open
  <2>1. queue = << >> /\ Flush
    BY <1>2 DEF Open, Fresh
  <2>2. /\ handed' \in Seq(Nat) /\ buffer' \in Seq(Nat) /\ queue' \in Seq(Nat)
        /\ Len(handed') + Len(buffer') = Len(handed) + Len(buffer)
        /\ Len(buffer') <= Len(buffer) /\ Len(queue') <= MaxQueued + 1
    BY <2>1, FlushSplits
  <2>3. TypeOK'
    <3>1. cutShort' \in BOOLEAN
      BY <1>2 DEF Open, Flush, TypeOK
    <3>2. QED BY <1>2, <2>2, <3>1 DEF Open, historyVars, TypeOK
  <2>4. Accounted' /\ MemoryBounded'
    <3>1. Len(handed') \in Nat /\ Len(buffer') \in Nat /\ Len(queue') \in Nat
      BY <2>2, LenProperties
    <3>2. Accounted'
      BY <1>0, <1>2, <2>2, <3>1 DEF Open, historyVars, Accounted
    <3>3. MemoryBounded'
      BY <1>0, <2>2, <3>1 DEF MemoryBounded
    <3>4. QED BY <3>2, <3>3
  <2>5. OneRecovery' /\ Fresh' /\ GaveUp'
    BY <1>2 DEF Open, historyVars, OneRecovery, Fresh, GaveUp
  <2>6. QED BY <2>3, <2>4, <2>5
<1>3. CASE PeerCloses
  BY <1>3
  DEF PeerCloses, retryVars, bufferVars, historyVars, TypeOK, Accounted, MemoryBounded, OneRecovery,
      Fresh, GaveUp
<1>4. CASE SocketClosed
  <2>1. TypeOK'
    BY <1>4, <1>a DEF SocketClosed, ScheduleReconnect, bufferVars, historyVars, TypeOK
  <2>2. Accounted' /\ MemoryBounded'
    BY <1>4, <1>a, <1>0 DEF SocketClosed, bufferVars, historyVars, Accounted, MemoryBounded
  <2>3. OneRecovery' /\ Fresh' /\ GaveUp'
    BY <1>4
    DEF SocketClosed, ScheduleReconnect, historyVars, TypeOK, OneRecovery, Fresh, GaveUp
  <2>4. QED BY <2>1, <2>2, <2>3
<1>5. CASE AuthRejected
  BY <1>5, EmptySeq
  DEF AuthRejected, retryVars, bufferVars, TypeOK, Accounted, MemoryBounded, OneRecovery, Fresh, GaveUp
<1>6. CASE Send
  <2>1. CASE ws = "open" /\ BackedUp
    <3>1. /\ dropped' = dropped + 1 /\ sent' = sent + 1
          /\ UNCHANGED <<queue, handed, buffer, ws, retryVars, closed, cutShort, ended, rejected>>
      BY <1>6, <2>1 DEF Send
    <3>2. TypeOK'
      BY <3>1 DEF retryVars, TypeOK
    <3>3. Accounted' /\ MemoryBounded'
      <4>1. /\ Len(handed') = Len(handed) /\ Len(buffer') = Len(buffer)
            /\ dropped \in Nat /\ sent \in Nat
        BY <3>1 DEF TypeOK
      <4>2. Len(handed') + Len(buffer') + dropped' = Len(handed) + Len(buffer) + dropped + 1
        BY <1>0, <3>1, <4>1
      <4>3. Accounted'
        BY <3>1, <4>2 DEF Accounted
      <4>4. MemoryBounded'
        BY <3>1 DEF MemoryBounded
      <4>5. QED BY <4>3, <4>4
    <3>4. OneRecovery' /\ Fresh' /\ GaveUp'
      BY <3>1 DEF retryVars, OneRecovery, Fresh, GaveUp
    <3>5. QED BY <3>2, <3>3, <3>4
  <2>2. CASE ws = "open" /\ ~BackedUp
    <3>1. /\ queue' = Append(queue, sent + 1) /\ handed' = Append(handed, sent + 1)
          /\ sent' = sent + 1 /\ sent + 1 \in Nat /\ Len(queue) <= MaxQueued
          /\ UNCHANGED <<buffer, dropped, ws, retryVars, closed, cutShort, ended, rejected>>
      BY <1>6, <2>2, <1>0 DEF Send, BackedUp, TypeOK
    <3>2. /\ queue' \in Seq(Nat) /\ Len(queue') = Len(queue) + 1
          /\ handed' \in Seq(Nat) /\ Len(handed') = Len(handed) + 1
      BY <1>0, <3>1
    <3>3. TypeOK'
      BY <3>1, <3>2 DEF retryVars, TypeOK
    <3>4. Accounted' /\ MemoryBounded'
      <4>1. Accounted'
        <5>1. /\ sent' = sent + 1 /\ dropped' = dropped /\ ended' = ended
              /\ Len(buffer') = Len(buffer) /\ Len(handed') = Len(handed) + 1
              /\ sent \in Nat /\ dropped \in Nat
          BY <3>1, <3>2 DEF TypeOK
        <5>2. ~ended' => Len(handed) + Len(buffer) + dropped = sent
          BY <5>1 DEF Accounted
        <5>3. ~ended' => Len(handed') + Len(buffer') + dropped' = sent'
          <6>1. Len(handed') + Len(buffer') + dropped' = Len(handed) + Len(buffer) + dropped + 1
            BY <1>0, <5>1
          <6>2. QED BY <5>1, <5>2, <6>1
        <5>4. QED BY <5>3 DEF Accounted
      <4>2. MemoryBounded'
        BY <1>0, <3>1, <3>2 DEF MemoryBounded
      <4>3. QED BY <4>1, <4>2
    <3>5. OneRecovery' /\ Fresh' /\ GaveUp'
      BY <2>2, <3>1 DEF retryVars, OneRecovery, Fresh, GaveUp
    <3>6. QED BY <3>3, <3>4, <3>5
  <2>3. CASE ws # "open"
    <3>1. KeepForLater(sent + 1) /\ sent + 1 \in Nat
      BY <1>6, <2>3 DEF Send, TypeOK
    <3>2. /\ buffer' \in Seq(Nat) /\ dropped' \in Nat /\ Len(buffer') <= MaxBuffer
          /\ Len(buffer') + dropped' = Len(buffer) + dropped + 1
      BY <3>1, KeepBounds
    <3>3. Len(buffer') \in Nat
      BY <3>2, LenProperties
    <3>4. /\ sent' = sent + 1
          /\ UNCHANGED <<queue, handed, ws, retryVars, closed, cutShort, ended, rejected>>
      BY <1>6, <2>3 DEF Send
    <3>5. TypeOK'
      BY <3>2, <3>4 DEF retryVars, TypeOK
    <3>6. Accounted'
      <4>1. /\ ended' = ended /\ handed' = handed /\ sent' = sent + 1
            /\ sent \in Nat /\ dropped \in Nat
        BY <3>4 DEF TypeOK
      <4>2. ~ended => Len(handed) + Len(buffer) + dropped = sent
        BY DEF Accounted
      <4>3. Len(handed') = Len(handed) /\ Len(handed) \in Nat /\ Len(buffer) \in Nat
        BY <1>0, <4>1
      <4>4. dropped' \in Nat /\ Len(buffer') + dropped' = Len(buffer) + dropped + 1
        BY <3>2
      <4>5. Len(handed) + Len(buffer) + dropped = sent
              => Len(handed) + Len(buffer') + dropped' = sent + 1
        BY <3>3, <4>1, <4>3, <4>4
      <4>6. ~ended' => Len(handed') + Len(buffer') + dropped' = sent'
        BY <4>1, <4>2, <4>3, <4>5
      <4>7. QED BY <4>6 DEF Accounted
    <3>7. MemoryBounded'
      BY <3>2, <3>4 DEF MemoryBounded
    <3>8. OneRecovery' /\ Fresh' /\ GaveUp'
      BY <3>4 DEF retryVars, OneRecovery, Fresh, GaveUp
    <3>9. QED BY <3>5, <3>6, <3>7, <3>8
  <2>4. QED BY <2>1, <2>2, <2>3
<1>7. CASE Deliver
  <2>1. Tail(queue) \in Seq(Nat) /\ Len(Tail(queue)) = Len(queue) - 1
    BY <1>7, <1>0, HeadTailProperties DEF Deliver
  <2>2. QED
    BY <1>7, <1>0, <2>1
    DEF Deliver, retryVars, bufferVars, historyVars, TypeOK, Accounted, MemoryBounded, OneRecovery,
        Fresh, GaveUp
<1>8. CASE Close
  <2>1. TypeOK'
    BY <1>8, <1>a DEF Close, TypeOK
  <2>2. Accounted' /\ MemoryBounded'
    BY <1>8, <1>a DEF Close, Accounted, MemoryBounded
  <2>3. OneRecovery' /\ Fresh' /\ GaveUp'
    BY <1>8 DEF Close, OneRecovery, Fresh, GaveUp
  <2>4. QED BY <2>1, <2>2, <2>3
<1>9. CASE UNCHANGED vars
  BY <1>9
  DEF vars, socketVars, retryVars, bufferVars, historyVars, TypeOK, Accounted, MemoryBounded,
      OneRecovery, Fresh, GaveUp
<1>10. QED
  BY <1>1, <1>2, <1>3, <1>4, <1>5, <1>6, <1>7, <1>8, <1>9 DEF Next

-----------------------------------------------------------------------------
(* Order.                                                                  *)

\* A new largest message at the end keeps a sequence increasing.
LEMMA IncreasingAppend ==
  ASSUME NEW s \in Seq(Nat), NEW n \in Nat, AtMost(s, n), Increasing(s)
  PROVE  Increasing(Append(s, n + 1))
<1>1. /\ Len(s) \in Nat /\ Len(Append(s, n + 1)) = Len(s) + 1
      /\ \A i \in 1 .. Len(s) : Append(s, n + 1)[i] = s[i] /\ s[i] \in Nat
      /\ Append(s, n + 1)[Len(s) + 1] = n + 1
  BY ElementOfSeq, LenProperties
<1>2. ASSUME NEW i \in 1 .. Len(s) + 1, NEW j \in 1 .. Len(s) + 1, i < j
      PROVE  Append(s, n + 1)[i] < Append(s, n + 1)[j]
  <2>1. i \in 1 .. Len(s) /\ s[i] <= n /\ s[i] \in Nat /\ Append(s, n + 1)[i] = s[i]
    BY <1>1, <1>2 DEF AtMost
  <2>2. CASE j = Len(s) + 1
    BY <1>1, <2>1, <2>2
  <2>3. CASE j # Len(s) + 1
    <3>1. j \in 1 .. Len(s) /\ Append(s, n + 1)[j] = s[j]
      BY <1>1, <2>3
    <3>2. s[i] < s[j]
      BY <1>2, <2>1, <3>1 DEF Increasing
    <3>3. QED BY <2>1, <3>1, <3>2
  <2>4. QED BY <2>2, <2>3
<1>3. QED BY <1>1, <1>2 DEF Increasing

\* Leaving out the first of the later messages keeps a sequence increasing.
LEMMA IncreasingTail ==
  ASSUME NEW s \in Seq(Nat), NEW t \in Seq(Nat), t # << >>, Increasing(s \o t)
  PROVE  Increasing(s \o Tail(t))
<1> DEFINE u == s \o t
           v == s \o Tail(t)
<1>1. /\ Len(s) \in Nat /\ Len(t) \in Nat /\ Tail(t) \in Seq(Nat)
      /\ Len(Tail(t)) = Len(t) - 1
      /\ \A i \in 1 .. Len(Tail(t)) : Tail(t)[i] = t[i + 1]
  BY HeadTailProperties, LenProperties
<1>2. /\ Len(u) = Len(s) + Len(t)
      /\ \A i \in 1 .. Len(s) + Len(t) : u[i] = IF i <= Len(s) THEN s[i] ELSE t[i - Len(s)]
  BY ConcatProperties
<1>3. /\ Len(v) = Len(s) + Len(Tail(t))
      /\ \A i \in 1 .. Len(s) + Len(Tail(t)) :
           v[i] = IF i <= Len(s) THEN s[i] ELSE Tail(t)[i - Len(s)]
  BY <1>1, ConcatProperties
<1> HIDE DEF u, v
<1>4. ASSUME NEW i \in 1 .. Len(v)
      PROVE  v[i] = IF i <= Len(s) THEN u[i] ELSE u[i + 1]
  <2>1. CASE i <= Len(s)
    <3>1. i \in 1 .. Len(s) + Len(t) /\ i \in 1 .. Len(s) + Len(Tail(t))
      BY <1>1, <1>3
    <3>2. v[i] = s[i]
      BY <1>3, <2>1, <3>1
    <3>3. u[i] = s[i]
      BY <1>2, <2>1, <3>1
    <3>4. QED BY <2>1, <3>2, <3>3
  <2>2. CASE ~ (i <= Len(s))
    <3>1. i - Len(s) \in 1 .. Len(Tail(t)) /\ i + 1 \in 1 .. Len(s) + Len(t) /\ ~ (i + 1 <= Len(s))
      BY <1>1, <1>3, <2>2
    <3>2. v[i] = t[i - Len(s) + 1]
      BY <1>1, <1>3, <2>2, <3>1
    <3>3. u[i + 1] = t[i + 1 - Len(s)]
      BY <1>2, <3>1
    <3>4. i - Len(s) + 1 = i + 1 - Len(s)
      BY <1>1, <1>3
    <3>5. QED BY <2>2, <3>2, <3>3, <3>4
  <2>3. QED BY <2>1, <2>2
<1>5. ASSUME NEW i \in 1 .. Len(v), NEW j \in 1 .. Len(v), i < j
      PROVE  v[i] < v[j]
  <2> DEFINE Old(k) == IF k <= Len(s) THEN k ELSE k + 1
  <2>1. /\ Old(i) \in 1 .. Len(u) /\ Old(j) \in 1 .. Len(u) /\ Old(i) < Old(j)
    BY <1>1, <1>2, <1>3, <1>5
  <2>2. v[i] = u[Old(i)] /\ v[j] = u[Old(j)]
    BY <1>4
  <2>3. u[Old(i)] < u[Old(j)]
    <3>1. Increasing(u)
      BY DEF u
    <3>2. QED BY <2>1, <3>1 DEF Increasing
  <2>4. QED BY <2>2, <2>3
<1>6. QED BY <1>5 DEF v, Increasing

\* The first part of an increasing sequence is increasing.
LEMMA IncreasingPrefix ==
  ASSUME NEW s \in Seq(Nat), NEW t \in Seq(Nat), Increasing(s \o t)
  PROVE  Increasing(s)
<1>1. /\ Len(s) \in Nat /\ Len(t) \in Nat
      /\ Len(s \o t) = Len(s) + Len(t)
      /\ \A i \in 1 .. Len(s) + Len(t) : (s \o t)[i] = IF i <= Len(s) THEN s[i] ELSE t[i - Len(s)]
  BY ConcatProperties, LenProperties
<1>2. ASSUME NEW i \in 1 .. Len(s), NEW j \in 1 .. Len(s), i < j
      PROVE  s[i] < s[j]
  <2>1. i \in 1 .. Len(s \o t) /\ j \in 1 .. Len(s \o t)
    BY <1>1
  <2>2. (s \o t)[i] < (s \o t)[j]
    BY <1>2, <2>1 DEF Increasing
  <2>3. (s \o t)[i] = s[i] /\ (s \o t)[j] = s[j]
    BY <1>1
  <2>4. QED BY <2>2, <2>3
<1>3. QED BY <1>2 DEF Increasing

\* Both parts are bounded if and only if the whole is.
LEMMA AtMostConcat ==
  ASSUME NEW s \in Seq(Nat), NEW t \in Seq(Nat), NEW n \in Nat, AtMost(s, n), AtMost(t, n)
  PROVE  AtMost(s \o t, n)
<1>1. /\ Len(s) \in Nat /\ Len(t) \in Nat
      /\ Len(s \o t) = Len(s) + Len(t)
      /\ \A i \in 1 .. Len(s) + Len(t) : (s \o t)[i] = IF i <= Len(s) THEN s[i] ELSE t[i - Len(s)]
  BY ConcatProperties, LenProperties
<1>2. QED BY <1>1 DEF AtMost

\* The bound of a whole holds for its parts, and grows.
LEMMA AtMostParts ==
  ASSUME NEW s \in Seq(Nat), NEW t \in Seq(Nat), NEW n \in Nat, AtMost(s \o t, n)
  PROVE  AtMost(s, n) /\ AtMost(t, n)
<1>1. /\ Len(s) \in Nat /\ Len(t) \in Nat
      /\ Len(s \o t) = Len(s) + Len(t)
      /\ \A i \in 1 .. Len(s) + Len(t) : (s \o t)[i] = IF i <= Len(s) THEN s[i] ELSE t[i - Len(s)]
  BY ConcatProperties, LenProperties
<1>2. ASSUME NEW i \in 1 .. Len(s) PROVE s[i] <= n
  <2>1. (s \o t)[i] = s[i] /\ i \in 1 .. Len(s \o t)
    BY <1>1
  <2>2. QED BY <2>1 DEF AtMost
<1>3. ASSUME NEW i \in 1 .. Len(t) PROVE t[i] <= n
  <2>1. Len(s) + i \in 1 .. Len(s) + Len(t) /\ ~ (Len(s) + i <= Len(s)) /\ Len(s) + i - Len(s) = i
    BY <1>1
  <2>2. (s \o t)[Len(s) + i] = t[i] /\ Len(s) + i \in 1 .. Len(s \o t)
    BY <1>1, <2>1
  <2>3. QED BY <2>2 DEF AtMost
<1>4. QED BY <1>2, <1>3 DEF AtMost

\* A sequence bounded by a number is bounded by the next.
LEMMA AtMostNext ==
  ASSUME NEW s \in Seq(Nat), NEW n \in Nat, AtMost(s, n)
  PROVE  AtMost(s, n + 1)
<1>1. \A i \in 1 .. Len(s) : s[i] \in Nat
  BY ElementOfSeq
<1>2. QED BY <1>1 DEF AtMost

\* The next number may be appended.
LEMMA AtMostAppend ==
  ASSUME NEW s \in Seq(Nat), NEW n \in Nat, AtMost(s, n)
  PROVE  AtMost(Append(s, n + 1), n + 1)
<1>1. /\ Len(s) \in Nat /\ Len(Append(s, n + 1)) = Len(s) + 1
      /\ \A i \in 1 .. Len(s) : Append(s, n + 1)[i] = s[i] /\ s[i] \in Nat
      /\ Append(s, n + 1)[Len(s) + 1] = n + 1
  BY ElementOfSeq, LenProperties
<1>2. QED BY <1>1 DEF AtMost

\* Appending to the second part is appending to the whole.
LEMMA ConcatAppend ==
  ASSUME NEW s \in Seq(Nat), NEW t \in Seq(Nat), NEW m \in Nat
  PROVE  s \o Append(t, m) = Append(s \o t, m)
OBVIOUS

\* The initial states satisfy Order.
LEMMA OrderInit == Init => Order
<1> SUFFICES ASSUME Init PROVE Order
  OBVIOUS
<1>1. handed = << >> /\ buffer = << >> /\ ws # "open"
  BY DEF Init
<1>2. << >> \o << >> = << >> /\ Len(<< >>) = 0
  BY EmptySeq, ConcatEmptySeq
<1>3. QED BY <1>1, <1>2 DEF Order, Flushed, AtMost, InOrder, Increasing

\* Every step keeps Order.
LEMMA OrderStep == Inv /\ Order /\ [Next]_vars => Order'
<1> SUFFICES ASSUME Inv, Order, [Next]_vars PROVE Order'
  OBVIOUS
<1>0. /\ TypeOK /\ MemoryBounded /\ Fresh
      /\ buffer \in Seq(Nat) /\ handed \in Seq(Nat) /\ sent \in Nat
      /\ handed \o buffer \in Seq(Nat)
  BY ConcatProperties DEF Inv, TypeOK
<1>1. CASE UNCHANGED <<bufferVars, sent>> /\ (ws' = "open" => ws = "open")
  BY <1>1 DEF bufferVars, Order, Flushed, AtMost, InOrder
<1>2. CASE Open
  <2>1. queue = << >> /\ Flush /\ UNCHANGED sent
    BY <1>0, <1>2 DEF Open, Fresh, historyVars
  <2>2. /\ handed' \in Seq(Nat) /\ buffer' \in Seq(Nat)
        /\ handed' \o buffer' = handed \o buffer
        /\ buffer' = << >> \/ cutShort'
    BY <1>0, <2>1, FlushSplits
  <2>3. cutShort => cutShort'
    BY <2>1 DEF Flush
  <2>4. AtMost(handed \o buffer, sent)
    BY <1>0, AtMostConcat DEF Order
  <2>5. AtMost(handed', sent') /\ AtMost(buffer', sent')
    BY <1>0, <2>1, <2>2, <2>4, AtMostParts
  <2>6. Flushed' /\ InOrder'
    BY <2>2, <2>3 DEF Order, Flushed, InOrder
  <2>7. QED BY <2>5, <2>6 DEF Order
<1>3. CASE Send /\ ws = "open" /\ BackedUp
  <2>1. UNCHANGED <<ws, handed, buffer, cutShort>> /\ sent' = sent + 1
    BY <1>3 DEF Send
  <2>2. AtMost(handed, sent + 1) /\ AtMost(buffer, sent + 1)
    BY <1>0, AtMostNext DEF Order
  <2>3. QED BY <2>1, <2>2 DEF Order, Flushed, InOrder
<1>4. CASE Send /\ ws = "open" /\ ~BackedUp
  <2>1. /\ handed' = Append(handed, sent + 1) /\ buffer' = buffer /\ cutShort' = cutShort
        /\ sent' = sent + 1 /\ ws' = ws
    BY <1>4 DEF Send
  <2>2. AtMost(handed, sent) /\ AtMost(buffer, sent + 1) /\ AtMost(handed, sent + 1)
    BY <1>0, AtMostNext DEF Order
  <2>3. AtMost(Append(handed, sent + 1), sent + 1)
    BY <1>0, <2>2, AtMostAppend
  <2>4. Flushed'
    BY <2>1 DEF Order, Flushed
  <2>5. InOrder'
    <3>1. CASE cutShort
      BY <2>1, <3>1 DEF InOrder
    <3>2. CASE ~cutShort
      <4>1. buffer = << >> /\ Increasing(handed \o buffer)
        BY <1>4, <3>2 DEF Order, Flushed, InOrder
      <4>2. handed \o << >> = handed
        BY <1>0, ConcatEmptySeq
      <4>3. Increasing(Append(handed, sent + 1))
        BY <1>0, <2>2, <4>1, <4>2, IncreasingAppend
      <4>4. Append(handed, sent + 1) \o << >> = Append(handed, sent + 1)
        <5>1. Append(handed, sent + 1) \in Seq(Nat)
          BY <1>0
        <5>2. QED BY <5>1, ConcatEmptySeq
      <4>5. QED BY <2>1, <4>1, <4>3, <4>4 DEF InOrder
    <3>3. QED BY <3>1, <3>2
  <2>6. QED BY <2>1, <2>2, <2>3, <2>4, <2>5 DEF Order
<1>5. CASE Send /\ ws # "open"
  <2> DEFINE kept == Shifted
  <2>1. /\ buffer' = Append(kept, sent + 1) /\ handed' = handed /\ cutShort' = cutShort
        /\ sent' = sent + 1 /\ ws' = ws
    BY <1>5 DEF Send, KeepForLater
  <2>2. /\ kept \in Seq(Nat) /\ AtMost(kept, sent)
        /\ Increasing(handed \o buffer) => Increasing(handed \o kept)
    <3>1. CASE Len(buffer) >= MaxBuffer
      <4>1. buffer # << >> /\ kept = Tail(buffer)
        BY <1>0, <3>1, EmptySeq, TransportAssumption DEF Shifted
      <4>2. /\ Tail(buffer) \in Seq(Nat) /\ Len(Tail(buffer)) = Len(buffer) - 1
            /\ \A i \in 1 .. Len(Tail(buffer)) : Tail(buffer)[i] = buffer[i + 1]
            /\ Len(buffer) \in Nat
        BY <1>0, <4>1, HeadTailProperties, LenProperties
      <4>3. AtMost(Tail(buffer), sent)
        BY <4>2 DEF Order, AtMost
      <4>4. Increasing(handed \o buffer) => Increasing(handed \o Tail(buffer))
        BY <1>0, <4>1, IncreasingTail
      <4>5. QED BY <4>1, <4>2, <4>3, <4>4
    <3>2. CASE ~ (Len(buffer) >= MaxBuffer)
      BY <1>0, <3>2 DEF Shifted, Order
    <3>3. QED BY <3>1, <3>2
  <2> HIDE DEF kept
  <2>3. AtMost(Append(kept, sent + 1), sent + 1)
    BY <1>0, <2>2, AtMostNext, AtMostAppend
  <2>4. AtMost(handed, sent) /\ AtMost(handed, sent + 1)
    BY <1>0, AtMostNext DEF Order
  <2>5. Flushed'
    BY <1>5, <2>1 DEF Flushed
  <2>6. InOrder'
    <3>1. CASE cutShort
      BY <2>1, <3>1 DEF InOrder
    <3>2. CASE ~cutShort
      <4>1. Increasing(handed \o kept)
        BY <2>2, <3>2 DEF Order, InOrder
      <4>2. handed \o kept \in Seq(Nat) /\ AtMost(handed \o kept, sent)
        BY <1>0, <2>2, <2>4, ConcatProperties, AtMostConcat
      <4>3. Increasing(Append(handed \o kept, sent + 1))
        BY <1>0, <4>1, <4>2, IncreasingAppend
      <4>4. handed \o Append(kept, sent + 1) = Append(handed \o kept, sent + 1)
        BY <1>0, <2>2, ConcatAppend
      <4>5. QED BY <2>1, <4>3, <4>4 DEF InOrder
    <3>3. QED BY <3>1, <3>2
  <2>7. QED BY <2>1, <2>3, <2>4, <2>5, <2>6 DEF Order
<1>6. CASE Close
  <2>1. /\ buffer' = << >> /\ handed' = handed /\ cutShort' = cutShort /\ sent' = sent
        /\ ws' = "none"
    BY <1>6 DEF Close
  <2>2. handed \o << >> = handed /\ Len(<< >>) = 0
    BY <1>0, ConcatEmptySeq, EmptySeq
  <2>3. Increasing(handed \o buffer) => Increasing(handed)
    BY <1>0, IncreasingPrefix
  <2>4. QED BY <2>1, <2>2, <2>3 DEF Order, Flushed, AtMost, InOrder
<1>7. TimerFires \/ PeerCloses \/ SocketClosed \/ AuthRejected \/ Deliver \/ UNCHANGED vars
        => UNCHANGED <<bufferVars, sent>> /\ (ws' = "open" => ws = "open")
  BY DEF TimerFires, Connect, PeerCloses, SocketClosed, AuthRejected, Deliver, vars, socketVars,
         bufferVars, historyVars
<1>8. QED
  BY <1>1, <1>2, <1>3, <1>4, <1>5, <1>6, <1>7 DEF Next

-----------------------------------------------------------------------------
(* The results.                                                            *)

\* Every reachable state satisfies Inv and Order.
LEMMA InvAlways == Spec => [](Inv /\ Order)
<1>1. Init => Inv /\ Order
  BY InvInit, OrderInit
<1>2. (Inv /\ Order) /\ [Next]_vars => (Inv /\ Order)'
  BY InvStep, OrderStep
<1>3. QED BY <1>1, <1>2, PTL DEF Spec

\* The state is well typed, the delays stay between the first and the longest.
THEOREM TypeCorrect == Spec => []TypeOK
<1>1. Inv /\ Order => TypeOK
  BY DEF Inv
<1>2. QED BY InvAlways, <1>1, PTL

\* Until close() every message sent is handed over, buffered or counted.
THEOREM AlwaysAccounted == Spec => []Accounted
<1>1. Inv /\ Order => Accounted
  BY DEF Inv
<1>2. QED BY InvAlways, <1>1, PTL

\* The buffer and the socket's queue stay within their limits.
THEOREM AlwaysBounded == Spec => []MemoryBounded
<1>1. Inv /\ Order => MemoryBounded
  BY DEF Inv
<1>2. QED BY InvAlways, <1>1, PTL

\* There is one socket, or one timer, or the transport gave up.
THEOREM AlwaysOneRecovery == Spec => []OneRecovery
<1>1. Inv /\ Order => OneRecovery
  BY DEF Inv
<1>2. QED BY InvAlways, <1>1, PTL

\* Messages are handed over in order unless a flush was cut short.
THEOREM AlwaysInOrder == Spec => []InOrder
<1>1. Inv /\ Order => InOrder
  BY DEF Order
<1>2. QED BY InvAlways, <1>1, PTL

\* After a rejected key or after close() no socket is created any more.
LEMMA ClosedStaysClosed ==
  Inv /\ [Next]_vars => (ended \/ rejected => ws' # "connecting")
<1> SUFFICES ASSUME Inv, [Next]_vars, ended \/ rejected PROVE ws' # "connecting"
  OBVIOUS
<1>1. closed /\ ~timer /\ ws = "none"
  BY DEF Inv, GaveUp, OneRecovery
<1>2. QED
  BY <1>1
  DEF Next, TimerFires, Open, PeerCloses, SocketClosed, AuthRejected, Send, Deliver, Close, vars,
      socketVars

\* After close() and after a rejected key no socket is created any more.
THEOREM NoHammering == Spec => ClosedForGood
<1>1. (Inv /\ Order) /\ [Next]_vars => [ended \/ rejected => ws' # "connecting"]_vars
  BY ClosedStaysClosed
<1>2. QED BY InvAlways, <1>1, PTL DEF Spec, ClosedForGood

\* What link and its next value are.
LEMMA LinkValue ==
  ASSUME TypeOK
  PROVE  /\ closed => link = "gone"
         /\ ~closed /\ ws = "open" => link = "up"
         /\ ~closed /\ ws # "open" => link = "down"
<1>1. CASE closed
  BY <1>1, Zenon DEF link
<1>2. CASE ~closed /\ ws = "open"
  BY <1>2 DEF link
<1>3. CASE ~closed /\ ws # "open"
  BY <1>3 DEF link
<1>4. QED BY <1>1, <1>2, <1>3 DEF TypeOK

\* The initial states are those of a link.
LEMMA LinkInit == Init => Abstract!Init
<1> SUFFICES ASSUME Init PROVE Abstract!Init
  OBVIOUS
<1>1. ~closed /\ ws # "open"
  BY DEF Init
<1>2. link = "down"
  BY <1>1 DEF link
<1>3. QED BY <1>2 DEF Abstract!Init

\* Every step of the transport keeps its link, or is one of the link's own.
LEMMA LinkStep == Inv /\ TypeOK' /\ [Next]_vars => [Abstract!Next]_link
<1> SUFFICES ASSUME Inv, TypeOK', [Next]_vars PROVE [Abstract!Next]_link
  OBVIOUS
<1>0. TypeOK /\ GaveUp /\ closed \in BOOLEAN /\ closed' \in BOOLEAN
  BY DEF Inv, TypeOK
<1>1. /\ closed => link = "gone"
      /\ ~closed /\ ws = "open" => link = "up"
      /\ ~closed /\ ws # "open" => link = "down"
  BY <1>0, LinkValue
<1>2. /\ closed' => link' = "gone"
      /\ ~closed' /\ ws' = "open" => link' = "up"
      /\ ~closed' /\ ws' # "open" => link' = "down"
  <2>1. CASE closed'
    BY <2>1, Zenon DEF link
  <2>2. CASE ~closed' /\ ws' = "open"
    BY <2>2 DEF link
  <2>3. CASE ~closed' /\ ws' # "open"
    BY <2>3 DEF link
  <2>4. QED BY <1>0, <2>1, <2>2, <2>3
<1>3. CASE TimerFires
  <2>1. /\ timer /\ closed' = closed
        /\ ws' = ws \/ ws' = "connecting"
    BY <1>3 DEF TimerFires, Connect, socketVars
  <2>2. ws # "open"
    BY <2>1 DEF Inv, OneRecovery
  <2>3. link' = link
    BY <1>0, <1>1, <1>2, <2>1, <2>2
  <2>4. QED BY <2>3
<1>4. CASE Open
  <2>1. ws = "connecting" /\ ws' = "open" /\ closed' = closed
    BY <1>4 DEF Open
  <2>2. ~closed
    BY <1>0, <2>1 DEF GaveUp
  <2>3. link = "down" /\ link' = "up"
    BY <1>1, <1>2, <2>1, <2>2
  <2>4. QED BY <2>3 DEF Abstract!Next, Abstract!Establish
<1>5. CASE PeerCloses
  <2>1. ws = "open" /\ ws' = "closing" /\ closed' = closed
    BY <1>5 DEF PeerCloses
  <2>2. ~closed
    BY <1>0, <2>1 DEF GaveUp
  <2>3. link = "up" /\ link' = "down"
    BY <1>1, <1>2, <2>1, <2>2
  <2>4. QED BY <2>3 DEF Abstract!Next, Abstract!Lose
<1>6. CASE SocketClosed
  <2>1. ws \in {"connecting", "closing"} /\ ws' = "none" /\ closed' = closed
    BY <1>6 DEF SocketClosed
  <2>2. link' = link
    BY <1>0, <1>1, <1>2, <2>1
  <2>3. QED BY <2>2
<1>7. CASE AuthRejected
  <2>1. ws = "closing" /\ closed'
    BY <1>7 DEF AuthRejected
  <2>2. ~closed
    BY <1>0, <2>1 DEF GaveUp
  <2>3. link = "down" /\ link' = "gone"
    BY <1>1, <1>2, <2>1, <2>2
  <2>4. QED BY <2>3 DEF Abstract!Next, Abstract!LetGo
<1>8. CASE Send
  <2>1. UNCHANGED <<ws, closed>>
    BY <1>8 DEF Send
  <2>2. link' = link
    BY <1>0, <1>1, <1>2, <2>1
  <2>3. QED BY <2>2
<1>9. CASE Deliver
  <2>1. UNCHANGED <<ws, closed>>
    BY <1>9 DEF Deliver
  <2>2. link' = link
    BY <1>0, <1>1, <1>2, <2>1
  <2>3. QED BY <2>2
<1>10. CASE Close
  <2>1. closed'
    BY <1>10 DEF Close
  <2>2. link' = "gone" /\ link \in {"gone", "up", "down"}
    BY <1>0, <1>1, <1>2, <2>1
  <2>3. QED BY <2>2 DEF Abstract!Next, Abstract!LetGo
<1>11. CASE UNCHANGED vars
  <2>1. UNCHANGED <<ws, closed>>
    BY <1>11 DEF vars, socketVars
  <2>2. link' = link
    BY <1>0, <1>1, <1>2, <2>1
  <2>3. QED BY <2>2
<1>12. QED
  BY <1>3, <1>4, <1>5, <1>6, <1>7, <1>8, <1>9, <1>10, <1>11 DEF Next

\* The transport implements a link that is wanted once, up to its liveness: a link
\* that is gone stays gone, and one that is up is lost before it is down again.
THEOREM LinkSafety == Spec => Abstract!Spec
<1>1. Inv' => TypeOK'
  BY DEF Inv
<1>2. (Inv /\ Order) /\ (Inv /\ Order)' /\ [Next]_vars => [Abstract!Next]_link
  BY <1>1, LinkStep
<1>3. QED BY InvAlways, LinkInit, <1>2, PTL DEF Spec, Abstract!Spec
=============================================================================
