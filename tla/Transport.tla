------------------------------ MODULE Transport ------------------------------
(***************************************************************************)
(* The SDK's connection to the server (packages/sdk/src/transport.ts): one *)
(* WebSocket at a time, a buffer for messages sent while it is not open, a *)
(* queue inside the socket for messages the peer has not read yet, and a   *)
(* reconnect timer whose delay doubles.                                    *)
(*                                                                         *)
(* Messages are numbered in the order they are sent; a size is one, so     *)
(* that bufferedAmount is the length of the queue.  The socket is external *)
(* code: its events arrive one at a time, in any order the readyState      *)
(* allows.  Events of a socket that close() let go of change nothing (its  *)
(* handler finds closed = true) and are left out.                          *)
(***************************************************************************)
EXTENDS Integers, Sequences

CONSTANTS
  MaxBuffer,      (* MAX_BUFFER: messages kept while the socket is not open  *)
  MaxQueued,      (* MAX_BUFFERED_BYTES: the queue above which we drop       *)
  FirstDelay, MaxDelay,   (* reconnect delays: the first, MAX_RECONNECT_DELAY *)
  MaxSent         (* bound: messages the host application sends              *)

ASSUME TransportAssumption ==
  /\ MaxBuffer \in Nat \ {0} /\ MaxQueued \in Nat /\ MaxSent \in Nat
  /\ FirstDelay \in Nat \ {0} /\ MaxDelay \in Nat /\ FirstDelay <= MaxDelay

VARIABLES
  ws,         (* the socket: none, connecting, open or closing               *)
  queue,      (* messages in the open socket that the peer has not read      *)
  timer,      (* whether the reconnect timer is armed                        *)
  delay,      (* reconnectDelay: the delay of the next timer                 *)
  closed,     (* no more connections: close() was called or the key rejected *)
  buffer,     (* messages waiting for the socket to open, oldest first       *)
  dropped,    (* droppedCount                                                *)
  sent,       (* history: messages sent by the host                          *)
  handed,     (* history: messages handed to a socket, in that order         *)
  ended,      (* history: close() was called                                 *)
  rejected,   (* history: the server refused the API key                     *)
  cutShort    (* history: a flush stopped because the socket was backed up   *)

socketVars  == <<ws, queue>>
retryVars   == <<timer, delay>>
bufferVars  == <<buffer, dropped, handed, cutShort>>
historyVars == <<sent, ended, rejected>>
vars == <<socketVars, retryVars, closed, bufferVars, historyVars>>

Lesser(a, b) == IF a <= b THEN a ELSE b

-----------------------------------------------------------------------------
(* Connecting.                                                             *)

\* scheduleReconnect(): nothing when closed or when a timer is already armed.
ScheduleReconnect(armed) == timer' = (armed \/ ~closed)

\* connect(), with the timer not armed: a socket that is connecting, or, when
\* its constructor throws, a new timer.
Connect ==
  \/ /\ ~closed
     /\ ws' = "connecting" /\ queue' = << >>
     /\ timer' = FALSE
  \/ /\ ~closed
     /\ ScheduleReconnect(FALSE)
     /\ UNCHANGED socketVars
  \/ /\ closed
     /\ timer' = FALSE
     /\ UNCHANGED socketVars

\* createWsTransport() calls connect().
Init ==
  /\ \/ ws = "connecting" /\ timer = FALSE
     \/ ws = "none" /\ timer = TRUE
  /\ queue = << >>
  /\ delay = FirstDelay
  /\ closed = FALSE
  /\ buffer = << >> /\ dropped = 0
  /\ sent = 0 /\ handed = << >> /\ cutShort = FALSE
  /\ ended = FALSE /\ rejected = FALSE

\* Mutant of NextDelay: the delay is not capped.
Doubled(d) == 2 * d

NextDelay(d) == Lesser(2 * d, MaxDelay)

\* The reconnect timer fires: connect first, then double the delay.
TimerFires ==
  /\ timer
  /\ Connect
  /\ delay' = NextDelay(delay)
  /\ UNCHANGED <<closed, bufferVars, historyVars>>

\* The messages flush() hands over before bufferedAmount exceeds the limit.
Room(q) == Lesser(Len(buffer), MaxQueued + 1 - Len(q))

\* flush() of the socket that has just opened.
Flush ==
  LET n == Room(queue)
      out == SubSeq(buffer, 1, n) IN
  /\ queue' = queue \o out
  /\ handed' = handed \o out
  /\ buffer' = SubSeq(buffer, n + 1, Len(buffer))
  /\ cutShort' = (cutShort \/ n < Len(buffer))

\* The socket opens.
Open ==
  /\ ws = "connecting"
  /\ ws' = "open"
  /\ delay' = FirstDelay
  /\ Flush
  /\ UNCHANGED <<timer, closed, dropped, historyVars>>

\* The peer starts to close, or the connection breaks: readyState is CLOSING
\* until the close event.
PeerCloses ==
  /\ ws = "open"
  /\ ws' = "closing"
  /\ UNCHANGED <<queue, retryVars, closed, bufferVars, historyVars>>

\* Mutant of SocketClosed: nothing is scheduled.
ForgetReconnect ==
  /\ ws \in {"connecting", "closing"}
  /\ ws' = "none" /\ queue' = << >>
  /\ UNCHANGED <<retryVars, closed, bufferVars, historyVars>>

\* The close event, after an open socket or a failed attempt: reconnect later.
SocketClosed ==
  /\ ws \in {"connecting", "closing"}
  /\ ws' = "none" /\ queue' = << >>
  /\ ScheduleReconnect(timer)
  /\ UNCHANGED <<delay, closed, bufferVars, historyVars>>

\* The close event with code 4001: the credentials are wrong, give up.
AuthRejected ==
  /\ ws = "closing"
  /\ ws' = "none" /\ queue' = << >>
  /\ closed' = TRUE
  /\ rejected' = TRUE
  /\ UNCHANGED <<retryVars, bufferVars, sent, ended>>

-----------------------------------------------------------------------------
(* Sending.                                                                *)

BackedUp == Len(queue) > MaxQueued

\* The oldest buffered message makes room for a new one.
Shifted == IF Len(buffer) >= MaxBuffer THEN Tail(buffer) ELSE buffer

Overflow == IF Len(buffer) >= MaxBuffer THEN 1 ELSE 0

\* Mutants of KeepForLater: the shifted message is not counted; the new one is
\* put at the wrong end.
KeepSilently(m) == buffer' = Append(Shifted, m) /\ UNCHANGED dropped
KeepInFront(m) == buffer' = <<m>> \o Shifted /\ dropped' = dropped + Overflow

KeepForLater(m) == buffer' = Append(Shifted, m) /\ dropped' = dropped + Overflow

\* send(): hand over when open, drop when backed up, buffer otherwise.
Send ==
  /\ sent < MaxSent
  /\ sent' = sent + 1
  /\ \/ /\ ws = "open" /\ BackedUp
        /\ dropped' = dropped + 1
        /\ UNCHANGED <<queue, handed, buffer>>
     \/ /\ ws = "open" /\ ~BackedUp
        /\ queue' = Append(queue, sent + 1)
        /\ handed' = Append(handed, sent + 1)
        /\ UNCHANGED <<buffer, dropped>>
     \/ /\ ws # "open"
        /\ KeepForLater(sent + 1)
        /\ UNCHANGED <<queue, handed>>
  /\ UNCHANGED <<ws, retryVars, closed, cutShort, ended, rejected>>

\* The peer reads a message.
Deliver ==
  /\ ws = "open" /\ queue # << >>
  /\ queue' = Tail(queue)
  /\ UNCHANGED <<ws, retryVars, closed, bufferVars, historyVars>>

\* Mutant of Close: the reconnect timer is left armed.
CloseKeepsTimer ==
  /\ closed' = TRUE /\ ended' = TRUE
  /\ buffer' = << >>
  /\ ws' = "none" /\ queue' = << >>
  /\ UNCHANGED <<retryVars, dropped, handed, cutShort, sent, rejected>>

\* close(): the timer is cleared, the buffer emptied, the socket let go of.
Close ==
  /\ closed' = TRUE /\ ended' = TRUE
  /\ timer' = FALSE
  /\ buffer' = << >>
  /\ ws' = "none" /\ queue' = << >>
  /\ UNCHANGED <<delay, dropped, handed, cutShort, sent, rejected>>

Next ==
  \/ TimerFires \/ Open \/ PeerCloses \/ SocketClosed \/ AuthRejected
  \/ Send \/ Deliver \/ Close

Spec == Init /\ [][Next]_vars

\* The timer fires and a closing socket gets its close event.  The server is up
\* some time: of attempts made again and again one succeeds, and none hangs in
\* its handshake.  Nobody has to send, read, reject or close.
Fairness ==
  /\ WF_vars(TimerFires /\ ws' = "connecting")
  /\ WF_vars(ws = "closing" /\ SocketClosed)
  /\ SF_vars(Open)

FairSpec == Spec /\ Fairness

-----------------------------------------------------------------------------
(* Properties.                                                             *)

TypeOK ==
  /\ ws \in {"none", "connecting", "open", "closing"}
  /\ queue \in Seq(Nat) /\ buffer \in Seq(Nat) /\ handed \in Seq(Nat)
  /\ timer \in BOOLEAN /\ closed \in BOOLEAN /\ ended \in BOOLEAN
  /\ rejected \in BOOLEAN /\ cutShort \in BOOLEAN
  /\ delay \in FirstDelay .. MaxDelay
  /\ dropped \in Nat /\ sent \in Nat

\* Every message sent is handed to a socket once, waits in the buffer once, or
\* is counted by droppedCount, until close() empties the buffer: "Messages
\* dropped because the socket was backed up or the buffer was full".
Accounted == ~ended => Len(handed) + Len(buffer) + dropped = sent

\* The transport keeps a bounded number of messages in the host's memory: the
\* queue passes its limit by one message at most, also when a long buffer is
\* flushed into a new socket.
MemoryBounded == Len(buffer) <= MaxBuffer /\ Len(queue) <= MaxQueued + 1

\* There is always exactly one way forward: a socket, or the timer of the next
\* attempt, or neither because the transport gave up.  Two connections or two
\* timers at once, and a transport that is silently stuck, are excluded; and so is one
\* that tries again after close() or after its key was refused ("Reconnecting forever
\* would hammer the server").
OneRecovery ==
  /\ timer => ws = "none" /\ ~closed
  /\ ws = "none" => timer \/ closed
  /\ ended \/ rejected => ws = "none" /\ ~timer

\* Messages reach a socket in the order they were sent, unless a flush has been
\* cut short by a backed-up socket: its rest stays behind and later messages
\* overtake it.
Increasing(s) == \A i, j \in 1 .. Len(s) : i < j => s[i] < s[j]
InOrder == cutShort \/ Increasing(handed \o buffer)

\* Once close() was called or the key was refused no socket is created any more,
\* whatever timer or event was under way (a theorem).
ClosedForGood == [][ended \/ rejected => ws' # "connecting"]_vars

\* The link of the host application: gone when the transport gave up.
link == IF closed THEN "gone" ELSE IF ws = "open" THEN "up" ELSE "down"

Abstract == INSTANCE Link WITH Renewable <- FALSE

\* The transport implements a link that is wanted once: one that is lost, or whose
\* attempt or constructor failed, comes up again until close() is called or the key
\* is refused, and from then on it is gone.
ImplementsLink == Abstract!FairSpec
=============================================================================
