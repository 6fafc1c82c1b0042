------------------------------ MODULE DashSocket ------------------------------
(***************************************************************************)
(* The WebSocket of a dashboard: WebSocketService of                       *)
(* packages/client/src/services/websocket.ts, created and disposed by the  *)
(* effect of hooks/use-websocket.ts as App.tsx shows the dashboard or the  *)
(* sign-in page, told to reconnect when the tab becomes visible, and ended *)
(* by the server with code 4001 when its token is not the stored one.      *)
(*                                                                         *)
(* The browser runs one callback at a time.  A change of the auth store    *)
(* re-renders in the microtask that follows the callback, and runs the     *)
(* effects, so Rendered() belongs to the step that makes the change.  A    *)
(* socket is external code: it opens only while it is connecting, passes   *)
(* messages on only while it is open, and close() leaves it in CLOSING     *)
(* until its close event.                                                  *)
(***************************************************************************)
EXTENDS Integers, FiniteSets

CONSTANTS
  MaxMounts,   (* bound: services, one for each time the dashboard is shown  *)
  MaxSockets,  (* bound: sockets whose close event has not come              *)
  Base, Limit  (* RECONNECT_BASE, RECONNECT_MAX                              *)

ASSUME DashSocketAssumption ==
  /\ MaxMounts \in Nat \ {0} /\ MaxSockets \in Nat \ {0}
  /\ Base \in Nat \ {0} /\ Limit \in Nat /\ Base <= Limit

VARIABLES
  auth,     (* whether the server asks for tokens: not in its test mode      *)
  page,     (* App: "loading", then authEnabled is false ("direct") or true  *)
  token,    (* whether the browser holds a token                             *)
  good,     (* whether that token is the stored one and has not expired      *)
  service,  (* the instances of WebSocketService                             *)
  socket,   (* their sockets                                                 *)
  connected (* useConnectionStore.connected                                  *)

pageVars == <<auth, page, token, good>>
vars == <<pageVars, service, socket, connected>>

Services == 1 .. MaxMounts
Sockets  == 1 .. MaxSockets
None     == 0                           (* null, and no service              *)

Service == [state : {"none", "live", "disposed"}, ws : Sockets \cup {None},
            timer : BOOLEAN, delay : Base .. Limit, refused : BOOLEAN]
Socket  == [state : {"free", "connecting", "open", "closing"}, of : Services \cup {None},
            attached : BOOLEAN, valid : BOOLEAN, code4001 : BOOLEAN]

NoService == [state |-> "none", ws |-> None, timer |-> FALSE, delay |-> Base,
              refused |-> FALSE]
NoSocket  == [state |-> "free", of |-> None, attached |-> FALSE, valid |-> FALSE,
              code4001 |-> FALSE]

Init ==
  /\ auth \in BOOLEAN /\ page = "loading"
  /\ token \in BOOLEAN /\ good \in {FALSE, token}
  /\ service = [v \in Services |-> NoService]
  /\ socket = [s \in Sockets |-> NoSocket]
  /\ connected = FALSE

-----------------------------------------------------------------------------
(* The methods, as functions from the services and sockets to those after  *)
(* the call.                                                               *)

State == [services |-> service, sockets |-> socket]
Becomes(st) == service' = st.services /\ socket' = st.sockets

Free == {s \in Sockets : socket[s].state = "free"}
Any(S) == CHOOSE x \in S : TRUE

\* connect(): a new socket with the browser's token in its URL.
Connect(st, v, holds, isGood) ==
  LET s == Any(Free) IN
  IF st.services[v].state = "disposed" THEN st
  ELSE [services |-> [st.services EXCEPT ![v].ws = s, ![v].refused = FALSE],
        sockets  |-> [st.sockets EXCEPT ![s] = [NoSocket EXCEPT
          !.state = "connecting", !.of = v, !.attached = TRUE, !.valid = holds /\ isGood]]]

\* close() of a socket, if there is one.
Shut(sockets, s) ==
  IF s = None THEN sockets ELSE [sockets EXCEPT ![s].state = "closing"]

\* Mutant of Reconnected: the old socket keeps its handlers.
ReconnectedAttached(st, v) ==
  LET old == st.services[v].ws IN
  Connect([services |-> [st.services EXCEPT ![v].timer = FALSE, ![v].delay = Base, ![v].ws = None],
           sockets  |-> Shut(st.sockets, old)], v, token, good)

\* reconnect(): the timer is cleared, the old socket detached and closed.
Reconnected(st, v) ==
  LET old == st.services[v].ws
      left == IF old = None THEN st.sockets ELSE [st.sockets EXCEPT ![old].attached = FALSE]
  IN Connect([services |-> [st.services EXCEPT ![v].timer = FALSE, ![v].delay = Base, ![v].ws = None],
              sockets  |-> Shut(left, old)], v, token, good)

\* dispose().
Disposed(st, v) ==
  [services |-> [st.services EXCEPT ![v].state = "disposed", ![v].timer = FALSE],
   sockets  |-> Shut(st.sockets, st.services[v].ws)]

Live(st) == {v \in Services : st.services[v].state = "live"}

\* App shows the dashboard when the server asks for no token or there is one.
ShowsDashboard(p, holds) == p = "direct" \/ (p = "auth" /\ holds)

\* What the effects of useWebSocket() make of a page that is rendered again.
Rendered(st, p, holds, isGood) ==
  LET next == {v \in Services : st.services[v].state = "none"} IN
  IF ShowsDashboard(p, holds) /\ Live(st) = {}
  THEN LET v == Any(next)
       IN Connect([st EXCEPT !.services[v].state = "live"], v, holds, isGood)
  ELSE IF ~ShowsDashboard(p, holds) /\ Live(st) # {}
  THEN Disposed(st, Any(Live(st)))
  ELSE st

\* The bounds: a service and a socket are left for what may be shown next.
Room == Free # {} /\ \E v \in Services : service[v].state = "none"

-----------------------------------------------------------------------------
(* The page and the session.                                               *)

\* The answer to GET /api/auth/status, which fails for want of the route in test
\* mode, and also when the server or the network does.
StatusArrives ==
  /\ page = "loading" /\ Room
  /\ page' \in IF auth THEN {"auth", "direct"} ELSE {"direct"}
  /\ Becomes(Rendered(State, page', token, good))
  /\ UNCHANGED <<auth, token, good, connected>>

\* A session starts, from the sign-in page here or in another tab of the browser.
\* The token of an open socket is not the stored one any more.
SignIn ==
  /\ auth /\ page # "loading" /\ Room
  /\ token' = TRUE /\ good' = TRUE
  /\ LET old == [State EXCEPT !.sockets = [s \in Sockets |-> [socket[s] EXCEPT !.valid = FALSE]]]
     IN Becomes(Rendered(old, page, TRUE, TRUE))
  /\ UNCHANGED <<auth, page, connected>>

\* The session ends elsewhere, or expires.
SessionEnds ==
  /\ good
  /\ good' = FALSE
  /\ socket' = [s \in Sockets |-> [socket[s] EXCEPT !.valid = FALSE]]
  /\ UNCHANGED <<auth, page, token, service, connected>>

\* logout(), by the user, by a 401 or in another tab of the browser.
SignOut ==
  /\ token /\ page # "loading"
  /\ token' = FALSE /\ good' = FALSE
  /\ Becomes(Rendered(State, page, FALSE, FALSE))
  /\ UNCHANGED <<auth, page, connected>>

\* isConnected().
IsOpen(v) == service[v].ws # None /\ socket[service[v].ws].state = "open"

\* handleVisibility() of a tab that becomes visible: reconnect unless connected.
Visible ==
  /\ Free # {}
  /\ \E v \in Live(State) :
       /\ ~IsOpen(v)
       /\ Becomes(Reconnected(State, v))
  /\ UNCHANGED <<pageVars, connected>>

-----------------------------------------------------------------------------
(* Events of the sockets and the timer.                                    *)

\* Every owner of an open or connecting socket that is not closed is live: the
\* test of disposed in onopen finds nothing to do.
Opens(s) ==
  /\ socket[s].state = "connecting"
  /\ socket' = [socket EXCEPT ![s].state = "open"]
  /\ service' = [service EXCEPT ![socket[s].of].delay = Base]
  /\ connected' = TRUE
  /\ UNCHANGED pageVars

\* The server closes with 4001: no token, one that is not good, or any when its own
\* query fails.
Refuses(s) ==
  /\ auth /\ socket[s].state = "open"
  /\ socket' = [socket EXCEPT ![s].state = "closing", ![s].code4001 = TRUE]
  /\ UNCHANGED <<pageVars, service, connected>>

\* The server restarts or gives the client up, or the network fails.
Breaks(s) ==
  /\ socket[s].state = "open"
  /\ socket' = [socket EXCEPT ![s].state = "closing"]
  /\ UNCHANGED <<pageVars, service, connected>>

\* The close event of a socket nobody listens to, or whose service is disposed.
CloseUnheard(s) ==
  /\ socket[s].state = "closing"
  /\ ~socket[s].attached \/ service[socket[s].of].state = "disposed"
  /\ socket' = [socket EXCEPT ![s] = NoSocket]
  /\ service' = IF socket[s].attached THEN [service EXCEPT ![socket[s].of].ws = None] ELSE service
  /\ UNCHANGED <<pageVars, connected>>

Heard(s) ==
  socket[s].state # "free" /\ socket[s].attached /\ service[socket[s].of].state = "live"

\* Mutant of Closes: nothing is scheduled.
ClosesForGood(s) ==
  /\ Heard(s) /\ ~socket[s].code4001
  /\ socket[s].state \in {"connecting", "closing"}
  /\ socket' = [socket EXCEPT ![s] = NoSocket]
  /\ service' = [service EXCEPT ![socket[s].of].ws = None]
  /\ connected' = FALSE
  /\ UNCHANGED pageVars

\* The close event, of a lost connection or a failed attempt: try again later.
Closes(s) ==
  /\ Heard(s) /\ ~socket[s].code4001
  /\ socket[s].state \in {"connecting", "closing"}
  /\ socket' = [socket EXCEPT ![s] = NoSocket]
  /\ service' = [service EXCEPT ![socket[s].of].ws = None, ![socket[s].of].timer = TRUE]
  /\ connected' = FALSE
  /\ UNCHANGED pageVars

\* Mutant of Rejected: 4001 is a close like others.
RejectedRetries(s) ==
  /\ Heard(s) /\ socket[s].code4001
  /\ socket' = [socket EXCEPT ![s] = NoSocket]
  /\ service' = [service EXCEPT ![socket[s].of].ws = None, ![socket[s].of].timer = TRUE]
  /\ connected' = FALSE
  /\ UNCHANGED pageVars

\* The close event with code 4001: logout(), and no timer.
Rejected(s) ==
  LET v == socket[s].of
      shut == [services |-> [service EXCEPT ![v].ws = None, ![v].refused = TRUE],
               sockets  |-> [socket EXCEPT ![s] = NoSocket]]
  IN
  /\ Heard(s) /\ socket[s].code4001
  /\ connected' = FALSE
  /\ token' = FALSE /\ good' = FALSE
  /\ Becomes(Rendered(shut, page, FALSE, FALSE))
  /\ UNCHANGED <<auth, page>>

\* Mutant of NextDelay: without the limit.
NextDelayFree(d) == 2 * d

NextDelay(d) == IF 2 * d < Limit THEN 2 * d ELSE Limit

\* The timer fires: connect, then double the delay.
TimerFires(v) ==
  /\ service[v].timer /\ Free # {}
  /\ LET st == Connect([State EXCEPT !.services[v].timer = FALSE], v, token, good)
     IN Becomes([st EXCEPT !.services[v].delay = NextDelay(@)])
  /\ UNCHANGED <<pageVars, connected>>

-----------------------------------------------------------------------------
Next ==
  \/ StatusArrives \/ SignIn \/ SessionEnds \/ SignOut \/ Visible
  \/ \E s \in Sockets :
       Opens(s) \/ Refuses(s) \/ Breaks(s) \/ CloseUnheard(s) \/ Closes(s) \/ Rejected(s)
  \/ \E v \in Services : TimerFires(v)

Spec == Init /\ [][Next]_vars

\* The timer fires and every socket that closes gets its close event, also when the
\* user looks at the tab again and again.  The server is up some time: of attempts
\* made again and again one succeeds.  It refuses a bad token: at once, or within
\* its periodic check.  Nobody has to sign in or out.
Fairness ==
  /\ SF_vars(\E v \in Services : TimerFires(v))
  /\ WF_vars(\E s \in Sockets : CloseUnheard(s))
  /\ SF_vars(\E s \in Sockets : socket[s].state = "closing" /\ Closes(s))
  /\ SF_vars(\E s \in Sockets : Rejected(s))
  /\ SF_vars(\E s \in Sockets : Opens(s))
  /\ SF_vars(\E s \in Sockets : ~socket[s].valid /\ Refuses(s))

FairSpec == Spec /\ Fairness

-----------------------------------------------------------------------------
(* Properties.                                                             *)

TypeOK ==
  /\ auth \in BOOLEAN /\ page \in {"loading", "direct", "auth"}
  /\ token \in BOOLEAN /\ good \in BOOLEAN /\ (good => token)
  /\ service \in [Services -> Service] /\ socket \in [Sockets -> Socket]
  /\ connected \in BOOLEAN

Ways(w) == {k \in {"ws", "timer", "refused"} :
              CASE k = "ws" -> w.ws # None [] k = "timer" -> w.timer [] k = "refused" -> w.refused}

\* The dashboard that is shown has exactly one way forward: a socket, a timer, or a
\* refusal it has answered with logout().  No other socket is or becomes open, whose
\* messages would be shown twice or on behalf of a former session, and no other
\* timer is armed.
OneWay ==
  /\ \A v \in Services : service[v].state = "live" => Cardinality(Ways(service[v])) = 1
  /\ \A v \in Services : service[v].timer => service[v].state = "live"
  /\ \A s \in Sockets :
       socket[s].state \in {"connecting", "open"} =>
         service[socket[s].of].state = "live" /\ service[socket[s].of].ws = s

\* The header says "connected" when the dashboard's socket is open, and does not
\* say so while the next attempt waits or after a refusal: no event of a replaced
\* socket or of a former dashboard is taken for one of this.
BadgeIsTrue ==
  \A v \in Live(State) :
    /\ IsOpen(v) => connected
    /\ service[v].timer \/ service[v].refused => ~connected

\* One dashboard, one socket, and a header that tells of it.
OneTrueSocket == OneWay /\ BadgeIsTrue

\* The link of the dashboard: down while it has none that is open, gone when it is
\* not shown or was refused.
link ==
  IF \E v \in Live(State) : IsOpen(v) THEN "up"
  ELSE IF \E v \in Live(State) : ~service[v].refused THEN "down" ELSE "gone"

Abstract == INSTANCE Link WITH Renewable <- TRUE

\* The service implements a link: one that is lost comes up again, or the dashboard
\* is left or refused.
ImplementsLink == Abstract!FairSpec

\* A tab whose session has ended does not show its dashboard for ever, nor try for
\* ever with a token that is refused: "Auth failure - logout, don't reconnect".
BadTokenLeaves == page = "auth" /\ token /\ ~good ~> page = "auth" /\ (good \/ ~token)
=============================================================================
