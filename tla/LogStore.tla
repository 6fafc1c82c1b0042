------------------------------ MODULE LogStore -------------------------------
(***************************************************************************)
(* What the log store promises to the routes of the server, without its    *)
(* buffer, flushes, retries, counters and caches.  add() is a request that *)
(* is answered once: with success when the key of the log is or was stored *)
(* or when the log was discarded by a clear of everything, or with an      *)
(* error.  Only a log whose add() is unanswered may enter the table.       *)
(***************************************************************************)
EXTENDS Naturals

CONSTANTS
  Calls, RowId, Rejections,
  Bad           (* calls whose log is malformed                              *)

VARIABLES promise, table, removed, dropped

vars == <<promise, table, removed, dropped>>

Pending == {c \in Calls : promise[c] = "pending"}
KeysOf(rows) == {RowId[r] : r \in rows}
Answer(S, v) == promise' = [c \in Calls |-> IF c \in S THEN v ELSE promise[c]]

Init ==
  /\ promise = [c \in Calls |-> "none"]
  /\ table = {} /\ removed = {} /\ dropped = {}

\* add() is called.
Request(c) ==
  /\ promise[c] = "none"
  /\ Answer({c}, "pending")
  /\ UNCHANGED <<table, removed, dropped>>

\* Rows of unanswered calls are stored, under keys the table does not have.
Store(S) ==
  /\ S \subseteq Pending
  /\ KeysOf(S) \cap KeysOf(table) = {}
  /\ \A a, b \in S : RowId[a] = RowId[b] => a = b
  /\ table' = table \cup S
  /\ UNCHANGED <<promise, removed, dropped>>

\* Unanswered calls learn that their logs were stored.
Acknowledge(S) ==
  /\ S \subseteq Pending /\ KeysOf(S) \subseteq KeysOf(table) \cup removed
  /\ Answer(S, "resolved")
  /\ UNCHANGED <<table, removed, dropped>>

\* An unanswered call learns that its log was refused, as malformed only when it is: a
\* log is not blamed for another that was written with it.
Refuse(c, e) ==
  /\ c \in Pending
  /\ e = "bad" => c \in Bad
  /\ Answer({c}, e)
  /\ UNCHANGED <<table, removed, dropped>>

\* A clear of everything discards logs that were not written yet.
Discard(S) ==
  /\ S \subseteq Pending
  /\ Answer(S, "resolved")
  /\ dropped' = dropped \cup S
  /\ UNCHANGED <<table, removed>>

\* A clear or the retention deletes rows.
Delete(S) ==
  /\ S \subseteq table
  /\ table' = table \ S
  /\ removed' = removed \cup KeysOf(S)
  /\ UNCHANGED <<promise, dropped>>

Next ==
  \/ \E c \in Calls : Request(c)
  \/ \E c \in Calls, e \in Rejections : Refuse(c, e)
  \/ \E S \in SUBSET Calls : Store(S) \/ Acknowledge(S) \/ Discard(S) \/ Delete(S)

Spec == Init /\ [][Next]_vars
=============================================================================
