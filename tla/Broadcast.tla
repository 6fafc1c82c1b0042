------------------------------- MODULE Broadcast -------------------------------
(***************************************************************************)
(* The dashboards connected to the server: their admission (routes/ws.ts), *)
(* the set of clients with its heartbeat and the fan-out of events         *)
(* (ws/index.ts), and the periodic check of their tokens (plugins/auth.ts).*)
(* All paths are under packages/server/src.                                *)
(*                                                                         *)
(* Node runs one callback at a time; the two SELECTs of a token are awaited*)
(* and other callbacks run meanwhile.  A query is executed by the database *)
(* in one step and continued by Node in a later one.  clients and          *)
(* authClients are always changed together, so one set stands for both.    *)
(* Message sizes are one, so bufferedAmount is the length of a queue.      *)
(***************************************************************************)
EXTENDS Integers, FiniteSets

CONSTANTS
  Sockets,     (* dashboard connections, each made at most once              *)
  MaxQueued,   (* MAX_BUFFERED_BYTES: the queue above which we disconnect    *)
  Faults,      (* whether a query may fail, and send() or ping() throw       *)
  MaxSessions, (* bound: sessions that are started                           *)
  MaxEvents    (* bound: events that are broadcast                           *)

ASSUME BroadcastAssumption ==
  /\ IsFiniteSet(Sockets) /\ Faults \in BOOLEAN
  /\ MaxQueued \in Nat /\ MaxSessions \in Nat /\ MaxEvents \in Nat

VARIABLES
  token,     (* users.token: the session that is valid, 0 for NULL           *)
  sessions,  (* sessions started so far; each has its number as token        *)
  state,     (* readyState of each connection                                *)
  peer,      (* whether the browser behind it still answers                  *)
  code,      (* the code the server closed it with, 0 for none               *)
  tokenOf,   (* the ?token= it came with                                     *)
  admission, (* the route's handler: awaiting its SELECT, holding its answer *)
  clients,   (* clients, and authClients with tokenOf                        *)
  alive,     (* isAlive                                                      *)
  listens,   (* whether addClient() has put its close handler on the socket  *)
  heartbeat, (* whether the heartbeat interval is set                        *)
  check,     (* the periodic token check                                     *)
  down,      (* the server closes: no connections, no checks                 *)
  sent,      (* history: events broadcast                                    *)
  queue,     (* events in the socket that the browser has not read           *)
  joined,    (* history: events broadcast before it became a client          *)
  got,       (* history: events the browser has read                         *)
  thrown     (* history: sockets of which send() or ping() threw             *)

sessionVars == <<token, sessions>>
socketVars  == <<state, peer, code>>
routeVars   == <<tokenOf, admission>>
clientVars  == <<clients, alive, listens, heartbeat>>
eventVars   == <<sent, queue, joined, got, thrown>>
vars == <<sessionVars, socketVars, routeVars, clientVars, check, down, eventVars>>

AuthFailure == 4001                    (* WS_AUTH_FAILURE                    *)
NoAnswer == -1
Failed   == -2                         (* the query was rejected             *)
Idle     == [pc |-> "idle", answer |-> NoAnswer]
Asking   == [pc |-> "query", answer |-> NoAnswer]

Init ==
  /\ token = 0 /\ sessions = 0
  /\ state = [s \in Sockets |-> "none"]
  /\ peer = [s \in Sockets |-> FALSE]
  /\ code = [s \in Sockets |-> 0]
  /\ tokenOf = [s \in Sockets |-> 0]
  /\ admission = [s \in Sockets |-> Idle]
  /\ clients = {} /\ heartbeat = FALSE
  /\ alive = [s \in Sockets |-> FALSE]
  /\ listens = [s \in Sockets |-> FALSE]
  /\ check = Idle /\ down = FALSE
  /\ sent = 0
  /\ queue = [s \in Sockets |-> 0]
  /\ joined = [s \in Sockets |-> 0]
  /\ got = [s \in Sockets |-> 0]
  /\ thrown = {}

-----------------------------------------------------------------------------
(* Sessions: the UPDATEs of the login and logout routes.                   *)

StartSession ==
  /\ sessions < MaxSessions
  /\ sessions' = sessions + 1
  /\ token' = sessions + 1
  /\ UNCHANGED <<socketVars, routeVars, clientVars, check, down, eventVars>>

EndSession ==
  /\ token # 0
  /\ token' = 0
  /\ UNCHANGED <<sessions, socketVars, routeVars, clientVars, check, down, eventVars>>

-----------------------------------------------------------------------------
(* Admission.                                                              *)

\* A browser connects with a token it was given; its signature verifies, so the
\* handler issues its SELECT.
Connect(s) ==
  /\ ~down /\ state[s] = "none"
  /\ \E t \in 1 .. sessions : tokenOf' = [tokenOf EXCEPT ![s] = t]
  /\ state' = [state EXCEPT ![s] = "open"]
  /\ peer' = [peer EXCEPT ![s] = TRUE]
  /\ admission' = [admission EXCEPT ![s] = Asking]
  /\ UNCHANGED <<sessionVars, code, clientVars, check, down, eventVars>>

\* What the database answers to SELECT token FROM users, or that it fails.
DbAnswers == {token} \cup (IF Faults THEN {Failed} ELSE {})

AdmissionQueried(s) ==
  /\ admission[s] = Asking
  /\ \E a \in DbAnswers : admission' = [admission EXCEPT ![s].answer = a]
  /\ UNCHANGED <<sessionVars, socketVars, tokenOf, clientVars, check, down, eventVars>>

\* addClient(), called for a socket that may have closed while its token was
\* looked up.
AddClient(s) ==
  /\ clients' = clients \cup {s}
  /\ alive' = [alive EXCEPT ![s] = TRUE]
  /\ listens' = [listens EXCEPT ![s] = TRUE]
  /\ heartbeat' = TRUE
  /\ joined' = [joined EXCEPT ![s] = sent]

\* Mutant of Refuse: another code.
RefuseOtherwise(S) ==
  LET live == {s \in S : state[s] = "open"} IN
  /\ state' = [s \in Sockets |-> IF s \in live THEN "closing" ELSE state[s]]
  /\ code' = [s \in Sockets |-> IF s \in live THEN 1008 ELSE code[s]]

\* socket.close(4001): nothing happens to a socket that is closed or closing.
Refuse(S) ==
  LET live == {s \in S : state[s] = "open"} IN
  /\ state' = [s \in Sockets |-> IF s \in live THEN "closing" ELSE state[s]]
  /\ code' = [s \in Sockets |-> IF s \in live THEN AuthFailure ELSE code[s]]

\* The handler continues: admitted, or refused, also when the query failed.
AdmissionEnds(s) ==
  /\ admission[s].answer # NoAnswer
  /\ admission' = [admission EXCEPT ![s] = Idle]
  /\ \/ /\ admission[s].answer = tokenOf[s]
        /\ AddClient(s)
        /\ UNCHANGED socketVars
     \/ /\ admission[s].answer # tokenOf[s]
        /\ Refuse({s})
        /\ UNCHANGED <<peer, clientVars, joined>>
  /\ UNCHANGED <<sessionVars, tokenOf, check, down, sent, queue, got, thrown>>

-----------------------------------------------------------------------------
(* The clients.                                                            *)

\* Mutant of Remaining: the heartbeat is never stopped.
NeverStops(R) == clients' = clients \ R /\ UNCHANGED heartbeat

\* removeClient() of every socket in R, which stops the heartbeat with the last
\* client.
Remaining(R) ==
  /\ clients' = clients \ R
  /\ heartbeat' = (heartbeat /\ (R = {} \/ clients \ R # {}))

\* Mutant of Terminated: the socket is let go of and left open.
LetGo(R) == state

\* terminate(): the close event follows.
Terminated(R) == [s \in Sockets |-> IF s \in R /\ state[s] = "open" THEN "closing" ELSE state[s]]

\* The browser closes the connection, or it breaks.
PeerCloses(s) ==
  /\ state[s] = "open"
  /\ state' = [state EXCEPT ![s] = "closing"]
  /\ UNCHANGED <<sessionVars, peer, code, routeVars, clientVars, check, down, eventVars>>

\* The browser is gone without a word: closed laptop, dead NAT entry.
PeerVanishes(s) ==
  /\ state[s] = "open" /\ peer[s]
  /\ peer' = [peer EXCEPT ![s] = FALSE]
  /\ UNCHANGED <<sessionVars, state, code, routeVars, clientVars, check, down, eventVars>>

\* The close event, which addClient()'s handler does not see before it is there.
\* What was queued is gone, and the histories of the connection end.
SocketClosed(s) ==
  /\ state[s] = "closing"
  /\ state' = [state EXCEPT ![s] = "closed"]
  /\ Remaining(IF listens[s] THEN {s} ELSE {})
  /\ queue' = [queue EXCEPT ![s] = 0]
  /\ joined' = [joined EXCEPT ![s] = 0]
  /\ got' = [got EXCEPT ![s] = 0]
  /\ thrown' = thrown \ {s}
  /\ UNCHANGED <<sessionVars, peer, code, routeVars, alive, listens, check, down, sent>>

Pong(s) ==
  /\ s \in clients /\ state[s] = "open" /\ peer[s] /\ ~alive[s]
  /\ alive' = [alive EXCEPT ![s] = TRUE]
  /\ UNCHANGED <<sessionVars, socketVars, routeVars, clients, listens, heartbeat>>
  /\ UNCHANGED <<check, down, eventVars>>

\* Which of the sockets that are written to throw.
Throwing(S) == IF Faults THEN SUBSET S ELSE {{}}

\* The heartbeat: whoever has not answered the last ping goes, the rest is pinged; a
\* client whose ping() throws is removed, and its socket left as it is.
Heartbeat ==
  /\ heartbeat
  /\ LET dead == {s \in clients : ~alive[s]} IN
     \E broken \in Throwing(clients \ dead) :
       /\ Remaining(dead \cup broken)
       /\ state' = Terminated(dead)
       /\ alive' = [s \in Sockets |-> alive[s] /\ s \notin clients]
       /\ thrown' = thrown \cup broken
  /\ UNCHANGED <<sessionVars, peer, code, routeVars, listens, check, down, sent, queue, joined, got>>

Backed == {s \in clients : state[s] = "open" /\ queue[s] > MaxQueued}

Receivers == {s \in clients : state[s] = "open"} \ Backed

\* Mutant of Event: a slow client is skipped.
SkipSlow ==
  /\ sent < MaxEvents
  /\ sent' = sent + 1
  /\ queue' = [s \in Sockets |-> IF s \in Receivers THEN queue[s] + 1 ELSE queue[s]]
  /\ Remaining({s \in clients : state[s] # "open"})
  /\ UNCHANGED <<sessionVars, socketVars, routeVars, alive, listens, check, down>>
  /\ UNCHANGED <<joined, got, thrown>>

\* broadcast(): sockets that are not open are dropped, slow consumers terminated,
\* the others get the event; a client whose send() throws is removed, and its socket
\* left as it is.
Event ==
  /\ sent < MaxEvents
  /\ sent' = sent + 1
  /\ \E broken \in Throwing(Receivers) :
       /\ queue' = [s \in Sockets |->
            IF s \in Receivers \ broken THEN queue[s] + 1 ELSE queue[s]]
       /\ Remaining(clients \ (Receivers \ broken))
       /\ thrown' = thrown \cup broken
  /\ state' = Terminated(Backed)
  /\ UNCHANGED <<sessionVars, peer, code, routeVars, alive, listens, check, down, joined, got>>

\* The browser reads an event.
Read(s) ==
  /\ state[s] = "open" /\ peer[s] /\ queue[s] > 0
  /\ queue' = [queue EXCEPT ![s] = @ - 1]
  /\ got' = [got EXCEPT ![s] = @ + 1]
  /\ UNCHANGED <<sessionVars, socketVars, routeVars, clientVars, check, down, sent, joined, thrown>>

-----------------------------------------------------------------------------
(* The periodic token check.                                               *)

CheckStarts ==
  /\ ~down /\ check.pc = "idle" /\ clients # {}
  /\ check' = Asking
  /\ UNCHANGED <<sessionVars, socketVars, routeVars, clientVars, down, eventVars>>

CheckQueried ==
  /\ check = Asking
  /\ \E a \in DbAnswers : check' = [check EXCEPT !.answer = a]
  /\ UNCHANGED <<sessionVars, socketVars, routeVars, clientVars, down, eventVars>>

\* Mutant of Outdated: the check closes nobody.
Nobody(answer) == {}

\* The clients, as they are when the answer arrives, whose token it does not hold.
Outdated(answer) == {s \in clients : tokenOf[s] # answer}

CheckEnds ==
  /\ check.answer # NoAnswer
  /\ check' = Idle
  /\ IF check.answer = Failed THEN UNCHANGED <<state, code>> ELSE Refuse(Outdated(check.answer))
  /\ UNCHANGED <<sessionVars, peer, routeVars, clientVars, down, eventVars>>

-----------------------------------------------------------------------------
\* The server closes: the connections first, then BroadcastManager.close().
Shutdown ==
  /\ ~down /\ down' = TRUE
  /\ clients' = {} /\ heartbeat' = FALSE
  /\ state' = Terminated(Sockets)
  /\ UNCHANGED <<sessionVars, peer, code, routeVars, alive, listens, check, eventVars>>

Next ==
  \/ StartSession \/ EndSession
  \/ \E s \in Sockets :
       \/ Connect(s) \/ AdmissionQueried(s) \/ AdmissionEnds(s)
       \/ PeerCloses(s) \/ PeerVanishes(s) \/ SocketClosed(s) \/ Pong(s) \/ Read(s)
  \/ Heartbeat \/ Event
  \/ CheckStarts \/ CheckQueried \/ CheckEnds
  \/ Shutdown

Spec == Init /\ [][Next]_vars

\* Intervals fire, awaited answers are continued, closing handshakes end (ws has a
\* timeout for them), and of the checks made again and again some get an answer.
Fairness ==
  /\ WF_vars(Heartbeat)
  /\ WF_vars(CheckStarts) /\ WF_vars(CheckEnds)
  /\ SF_vars(CheckQueried /\ check'.answer # Failed)
  /\ \A s \in Sockets : WF_vars(SocketClosed(s))

FairSpec == Spec /\ Fairness

-----------------------------------------------------------------------------
(* Properties.                                                             *)

Answer == {NoAnswer, Failed} \cup Nat
Query  == [pc : {"idle", "query"}, answer : Answer]
TypeOK ==
  /\ token \in Nat /\ sessions \in Nat /\ sent \in Nat
  /\ state \in [Sockets -> {"none", "open", "closing", "closed"}]
  /\ peer \in [Sockets -> BOOLEAN] /\ code \in [Sockets -> {0, AuthFailure}]
  /\ tokenOf \in [Sockets -> Nat]
  /\ admission \in [Sockets -> Query] /\ check \in Query
  /\ clients \in SUBSET Sockets /\ heartbeat \in BOOLEAN /\ down \in BOOLEAN
  /\ alive \in [Sockets -> BOOLEAN] /\ listens \in [Sockets -> BOOLEAN]
  /\ queue \in [Sockets -> Nat] /\ joined \in [Sockets -> Nat] /\ got \in [Sockets -> Nat]
  /\ thrown \in SUBSET Sockets

\* The heartbeat runs exactly while there are clients, however they come and go:
\* without it dead sockets leak, with it forgotten it pings nobody for ever.
HeartbeatCovers == heartbeat <=> clients # {}

\* No dashboard is left connected and forgotten: a socket that is open and was
\* admitted is a client, unless send() or ping() threw, after which the code removes
\* it and does not close it.  The browser of an orphan shows "Connected", gets nothing
\* and never reconnects; no heartbeat and no token check reaches it.
NoOrphan ==
  \A s \in Sockets : listens[s] /\ state[s] = "open" => s \in clients \cup thrown

\* A dashboard that stays connected misses no event: a client that cannot keep
\* up is disconnected, never skipped.
Gapless ==
  \A s \in clients : state[s] = "open" => joined[s] + got[s] + queue[s] = sent

\* "Slow consumer: its outbound queue lives in this process's heap": a queue
\* passes its limit by one event at most.
MemoryBounded == \A s \in Sockets : queue[s] <= MaxQueued + 1

\* A client leaves whose peer is gone, that closed before it became a client
\* ("without it the socket never fires 'close' and leaks"), or whose session was
\* ended or replaced.
GoneLeave ==
  \A s \in Sockets :
    s \in clients /\ (state[s] = "closed" \/ ~peer[s] \/ tokenOf[s] # token)
      ~> s \notin clients
=============================================================================
