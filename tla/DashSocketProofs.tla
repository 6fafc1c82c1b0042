-------------------------- MODULE DashSocketProofs --------------------------
(***************************************************************************)
(* Proofs about DashSocket, for every number of services and sockets and   *)
(* every delay.  Inv is inductive: besides the checked properties it says  *)
(* that a service and its socket point at each other, that a socket has an *)
(* owner which was shown, that an open or connecting socket is the one of  *)
(* a live service, that only one service is live, and that a page that     *)
(* needs no token has one.  Most of it is a predicate of the services sv   *)
(* and the sockets sk, so that each method has a lemma of its own.         *)
(***************************************************************************)
EXTENDS DashSocket, FiniteSetTheorems, TLAPS

Typed(sv, sk) == sv \in [Services -> Service] /\ sk \in [Sockets -> Socket]

\* A service's socket is its own, still listened to, and not gone.
Holds(sv, sk) ==
  \A v \in Services : sv[v].ws # None =>
    /\ sk[sv[v].ws].state # "free" /\ sk[sv[v].ws].of = v /\ sk[sv[v].ws].attached

\* A socket has an owner, which knows it as long as it listens to it.
Owned(sv, sk) ==
  \A s \in Sockets : sk[s].state # "free" =>
    /\ sk[s].of \in Services /\ sv[sk[s].of].state # "none"
    /\ sk[s].attached => sv[sk[s].of].ws = s

\* A socket that is or becomes open is that of a live service.
Used(sv, sk) ==
  \A s \in Sockets : sk[s].state \in {"connecting", "open"} =>
    sk[s].attached /\ sv[sk[s].of].state = "live"

\* A service that is not live has no timer, and no socket before it is shown.
Idle(sv) ==
  \A v \in Services :
    /\ sv[v].state # "live" => ~sv[v].timer
    /\ sv[v].state = "none" => sv[v].ws = None

\* Only one service is live.
Single(sv) == \A u, v \in Services : sv[u].state = "live" /\ sv[v].state = "live" => u = v

\* Exactly one way forward.
One(w) ==
  \/ w.ws # None /\ ~w.timer /\ ~w.refused
  \/ w.ws = None /\ w.timer /\ ~w.refused
  \/ w.ws = None /\ ~w.timer /\ w.refused

Forward(sv) == \A v \in Services : sv[v].state = "live" => One(sv[v])

\* The header, given what it says, c.
Badge(sv, sk, c) ==
  \A v \in Services : sv[v].state = "live" =>
    /\ sv[v].ws # None /\ sk[sv[v].ws].state = "open" => c
    /\ sv[v].timer \/ sv[v].refused => ~c

\* All of these, whatever way forward a service has; and with exactly one.
Linked(sv, sk) == Typed(sv, sk) /\ Holds(sv, sk) /\ Owned(sv, sk) /\
                  Used(sv, sk) /\ Idle(sv) /\ Single(sv)
Sound(sv, sk) == Linked(sv, sk) /\ Forward(sv)

\* A page that needs no token shows a dashboard.
Shown(p, sv) == p = "direct" => \E v \in Services : sv[v].state = "live"

Inv == /\ TypeOK /\ Sound(service, socket) /\ Badge(service, socket, connected)
       /\ Shown(page, service)

-----------------------------------------------------------------------------
(* The methods.                                                            *)

\* What connect() finds: a live service without a socket or a timer, and room.
Ready(sv, sk, v) ==
  /\ Linked(sv, sk) /\ v \in Services /\ sv[v].state = "live" /\ sv[v].ws = None /\ ~sv[v].timer
  /\ Any(Free) \in Sockets /\ sk[Any(Free)].state = "free"

\* connect() of a live service without a socket or a timer makes it sound, whatever
\* the header says: the new socket is the only way forward, and not open.
LEMMA ConnectSound ==
  ASSUME NEW sv, NEW sk, NEW v \in Services, Ready(sv, sk, v),
         NEW h, NEW g, NEW st, st = Connect([services |-> sv, sockets |-> sk], v, h, g)
  PROVE  /\ Sound(st.services, st.sockets)
         /\ \A c \in BOOLEAN : Badge(st.services, st.sockets, c)
         /\ st.services[v].state = "live"
<1>1. PICK s \in Sockets : s = Any(Free)
  BY DEF Ready
<1> DEFINE sw == [sv EXCEPT ![v].ws = s, ![v].refused = FALSE]
           new == [NoSocket EXCEPT !.state = "connecting", !.of = v, !.attached = TRUE, !.valid = h /\ g]
           sl == [sk EXCEPT ![s] = new]
<1>2. /\ Typed(sv, sk) /\ Holds(sv, sk) /\ Owned(sv, sk) /\ Used(sv, sk) /\ Idle(sv) /\ Single(sv)
      /\ sv[v].state = "live" /\ sv[v].ws = None /\ ~sv[v].timer /\ sk[s].state = "free"
  BY <1>1 DEF Ready, Linked
<1>3. st = [services |-> sw, sockets |-> sl]
  BY <1>2, <1>1 DEF Connect
<1>4. st.services = sw /\ st.sockets = sl
  <2> HIDE DEF sw, sl, new
  <2>1. QED BY <1>3
<1>5. sw \in [Services -> Service]
  <2>1. sw = [sv EXCEPT ![v] = [@ EXCEPT !.ws = s, !.refused = FALSE]]
    BY <1>2 DEF Typed
  <2>2. [sv[v] EXCEPT !.ws = s, !.refused = FALSE] \in Service
    BY <1>2 DEF Typed, Service
  <2>3. QED BY <1>2, <2>1, <2>2 DEF Typed
<1>6. new \in Socket
  <2>1. (h /\ g) \in BOOLEAN
    OBVIOUS
  <2>2. QED BY <2>1 DEF NoSocket, Socket
<1>7. sl \in [Sockets -> Socket]
  BY <1>2, <1>6 DEF Typed
<1>8. \A u \in Services \ {v} : sw[u] = sv[u]
  BY <1>2 DEF Typed
<1>9. /\ sw[v].state = "live" /\ sw[v].ws = s /\ sw[v].timer = sv[v].timer /\ sw[v].refused = FALSE
  BY <1>2 DEF Typed, Service
<1>10. \A t \in Sockets \ {s} : sl[t] = sk[t]
  BY <1>2 DEF Typed
<1>11. sl[s].state = "connecting" /\ sl[s].of = v /\ sl[s].attached
  BY <1>2 DEF Typed, NoSocket
<1>12. \A u \in Services : sw[u].state = sv[u].state /\ sw[u].timer = sv[u].timer
  BY <1>2, <1>8, <1>9
<1>13. s # None
  BY DEF Sockets, None
<1> HIDE DEF sw, sl, new
<1>14. Typed(sw, sl)
  BY <1>5, <1>7 DEF Typed
<1>15. Holds(sw, sl)
  <2>1. ASSUME NEW u \in Services, sw[u].ws # None
        PROVE  sl[sw[u].ws].state # "free" /\ sl[sw[u].ws].of = u /\ sl[sw[u].ws].attached
    <3>1. CASE u = v
      BY <3>1, <1>9, <1>11
    <3>2. CASE u # v
      <4>1. sw[u].ws = sv[u].ws
        BY <3>2, <1>8
      <4>2. sv[u].ws \in Sockets
        BY <4>1, <2>1, <1>2 DEF Typed, Service
      <4>3. sk[sv[u].ws].state # "free" /\ sk[sv[u].ws].of = u /\ sk[sv[u].ws].attached
        BY <4>1, <2>1, <1>2 DEF Holds
      <4>4. sv[u].ws # s
        BY <1>2, <4>3
      <4>5. QED BY <4>1, <4>2, <4>3, <4>4, <1>10
    <3>3. QED BY <3>1, <3>2
  <2>2. QED BY <2>1 DEF Holds
<1>16. Owned(sw, sl)
  <2>1. ASSUME NEW t \in Sockets, sl[t].state # "free"
        PROVE  sl[t].of \in Services /\ sw[sl[t].of].state # "none" /\ (sl[t].attached => sw[sl[t].of].ws = t)
    <3>1. CASE t = s
      BY <3>1, <1>9, <1>11
    <3>2. CASE t # s
      <4>1. sl[t] = sk[t]
        BY <3>2, <1>10
      <4>2. sk[t].of \in Services /\ sv[sk[t].of].state # "none" /\ (sk[t].attached => sv[sk[t].of].ws = t)
        BY <4>1, <2>1, <1>2 DEF Owned
      <4>3. sk[t].of = v => ~sk[t].attached
        BY <1>2, <4>2, t \in 1 .. MaxSockets DEF None, Sockets
      <4>4. QED BY <4>1, <4>2, <4>3, <1>8, <1>12
    <3>3. QED BY <3>1, <3>2
  <2>2. QED BY <2>1 DEF Owned
<1>17. Used(sw, sl)
  <2>1. ASSUME NEW t \in Sockets, sl[t].state \in {"connecting", "open"}
        PROVE  sl[t].attached /\ sw[sl[t].of].state = "live"
    <3>1. CASE t = s
      BY <3>1, <1>9, <1>11
    <3>2. CASE t # s
      <4>1. sl[t] = sk[t]
        BY <3>2, <1>10
      <4>2. sk[t].attached /\ sv[sk[t].of].state = "live" /\ sk[t].of \in Services
        BY <4>1, <2>1, <1>2 DEF Owned, Used
      <4>3. QED BY <4>1, <4>2, <1>12
    <3>3. QED BY <3>1, <3>2
  <2>2. QED BY <2>1 DEF Used
<1>18. Idle(sw)
  BY <1>2, <1>8, <1>9, <1>12 DEF Idle
<1>19. Single(sw)
  BY <1>2, <1>12 DEF Single
<1>20. \A u \in Services : sw[u].state = "live" => u = v
  BY <1>2, <1>12 DEF Single
<1>21. Forward(sw)
  BY <1>2, <1>9, <1>13, <1>20 DEF Forward, One
<1>22. \A c \in BOOLEAN : Badge(sw, sl, c)
  BY <1>2, <1>9, <1>11, <1>20 DEF Badge
<1>23. QED BY <1>4, <1>8, <1>9, <1>14, <1>15, <1>16, <1>17, <1>18, <1>19, <1>21, <1>22 DEF Sound, Linked

\* close() changes the state of one socket, if there is one.
LEMMA ShutShuts ==
  ASSUME NEW sk \in [Sockets -> Socket], NEW s \in Sockets \cup {None}
  PROVE  /\ Shut(sk, s) \in [Sockets -> Socket]
         /\ \A t \in Sockets :
              /\ Shut(sk, s)[t].of = sk[t].of /\ Shut(sk, s)[t].attached = sk[t].attached
              /\ Shut(sk, s)[t].state \in {sk[t].state, "closing"}
              /\ t = s => Shut(sk, s)[t].state = "closing"
              /\ t # s => Shut(sk, s)[t] = sk[t]
<1>0. \A t \in Sockets : t # None
  BY DEF Sockets, None
<1>1. CASE s = None
  BY <1>0, <1>1 DEF Shut
<1>2. CASE s # None
  <2>1. Shut(sk, s) = [sk EXCEPT ![s] = [@ EXCEPT !.state = "closing"]]
    BY <1>2 DEF Shut
  <2>2. [sk[s] EXCEPT !.state = "closing"] \in Socket
    BY <1>2 DEF Socket
  <2>3. QED BY <1>2, <2>1, <2>2 DEF Socket
<1>3. QED BY <1>1, <1>2

\* dispose() of the live service leaves none that is live.
LEMMA DisposedSound ==
  ASSUME NEW sv, NEW sk, Linked(sv, sk), NEW v \in Services, sv[v].state = "live",
         NEW st, st = Disposed([services |-> sv, sockets |-> sk], v)
  PROVE  /\ Sound(st.services, st.sockets)
         /\ \A c \in BOOLEAN : Badge(st.services, st.sockets, c)
<1> DEFINE sw == [sv EXCEPT ![v].state = "disposed", ![v].timer = FALSE]
           sl == Shut(sk, sv[v].ws)
<1>0. Typed(sv, sk) /\ Holds(sv, sk) /\ Owned(sv, sk) /\ Used(sv, sk) /\ Idle(sv) /\ Single(sv)
  BY DEF Linked
<1>1. st = [services |-> sw, sockets |-> sl]
  BY DEF Disposed
<1>2. st.services = sw /\ st.sockets = sl
  <2> HIDE DEF sw, sl
  <2>1. QED BY <1>1
<1>3. sw \in [Services -> Service]
  <2>1. sw = [sv EXCEPT ![v] = [@ EXCEPT !.state = "disposed", !.timer = FALSE]]
    BY <1>0 DEF Typed
  <2>2. [sv[v] EXCEPT !.state = "disposed", !.timer = FALSE] \in Service
    BY <1>0 DEF Typed, Service
  <2>3. QED BY <1>0, <2>1, <2>2 DEF Typed
<1>4. \A u \in Services \ {v} : sw[u] = sv[u]
  BY <1>0 DEF Typed
<1>5. sw[v].state = "disposed" /\ sw[v].ws = sv[v].ws /\ sw[v].timer = FALSE
  BY <1>0 DEF Typed, Service
<1>6. \A u \in Services : sw[u].ws = sv[u].ws
  BY <1>4, <1>5
<1> HIDE DEF sw
<1>7. /\ sl \in [Sockets -> Socket]
      /\ \A t \in Sockets :
           /\ sl[t].of = sk[t].of /\ sl[t].attached = sk[t].attached
           /\ sl[t].state \in {sk[t].state, "closing"}
           /\ t = sv[v].ws => sl[t].state = "closing"
           /\ t # sv[v].ws => sl[t] = sk[t]
  BY <1>0, ShutShuts DEF Typed, Service
<1> HIDE DEF sl
<1>8. Typed(sw, sl)
  BY <1>3, <1>7 DEF Typed
<1>9. Holds(sw, sl)
  <2>1. ASSUME NEW u \in Services, sw[u].ws # None
        PROVE  sl[sw[u].ws].state # "free" /\ sl[sw[u].ws].of = u /\ sl[sw[u].ws].attached
    <3>1. sv[u].ws = sw[u].ws /\ sv[u].ws \in Sockets
      BY <2>1, <1>0, <1>6 DEF Typed, Service
    <3>2. sk[sv[u].ws].state # "free" /\ sk[sv[u].ws].of = u /\ sk[sv[u].ws].attached
      BY <3>1, <2>1, <1>0 DEF Holds
    <3>3. QED BY <3>1, <3>2, <1>7
  <2>2. QED BY <2>1 DEF Holds
<1>10. Owned(sw, sl)
  <2>1. ASSUME NEW t \in Sockets, sl[t].state # "free"
        PROVE  sl[t].of \in Services /\ sw[sl[t].of].state # "none" /\ (sl[t].attached => sw[sl[t].of].ws = t)
    <3>1. sk[t].state # "free"
      <4>1. CASE t = sv[v].ws
        <5>1. t # None
          BY DEF Sockets, None
        <5>2. QED BY <4>1, <5>1, <1>0 DEF Holds
      <4>2. CASE t # sv[v].ws
        BY <4>2, <1>7, <2>1
      <4>3. QED BY <4>1, <4>2
    <3>2. sk[t].of \in Services /\ sv[sk[t].of].state # "none" /\ (sk[t].attached => sv[sk[t].of].ws = t)
      BY <3>1, <1>0 DEF Owned
    <3>3. sw[sk[t].of].state # "none"
      BY <3>2, <1>4, <1>5
    <3>4. QED BY <3>2, <3>3, <1>6, <1>7
  <2>2. QED BY <2>1 DEF Owned
<1>11. Used(sw, sl)
  <2>1. ASSUME NEW t \in Sockets, sl[t].state \in {"connecting", "open"}
        PROVE  sl[t].attached /\ sw[sl[t].of].state = "live"
    <3>1. t # sv[v].ws /\ sl[t] = sk[t]
      BY <2>1, <1>7
    <3>2. sk[t].attached /\ sv[sk[t].of].state = "live" /\ sk[t].of \in Services /\ sv[sk[t].of].ws = t
      BY <3>1, <2>1, <1>0 DEF Owned, Used
    <3>3. QED BY <3>1, <3>2, <1>4
  <2>2. QED BY <2>1 DEF Used
<1>12. Idle(sw)
  BY <1>0, <1>4, <1>5 DEF Idle
<1>13. \A u \in Services : sw[u].state # "live"
  BY <1>0, <1>4, <1>5 DEF Single
<1>14. Single(sw) /\ Forward(sw) /\ \A c \in BOOLEAN : Badge(sw, sl, c)
  BY <1>13 DEF Single, Forward, Badge
<1>15. QED BY <1>2, <1>8, <1>9, <1>10, <1>11, <1>12, <1>14 DEF Sound, Linked

\* reconnect() of the live service: the old socket is not listened to any more.
LEMMA ReconnectedSound ==
  ASSUME NEW sv, NEW sk, Linked(sv, sk), NEW v \in Services, sv[v].state = "live",
         Any(Free) \in Sockets, sk[Any(Free)].state = "free",
         NEW st, st = Reconnected([services |-> sv, sockets |-> sk], v)
  PROVE  /\ Sound(st.services, st.sockets)
         /\ \A c \in BOOLEAN : Badge(st.services, st.sockets, c)
         /\ st.services[v].state = "live"
<1> DEFINE old == sv[v].ws
           left == IF old = None THEN sk ELSE [sk EXCEPT ![old].attached = FALSE]
           sw == [sv EXCEPT ![v].timer = FALSE, ![v].delay = Base, ![v].ws = None]
           sl == Shut(left, old)
<1>0. Typed(sv, sk) /\ Holds(sv, sk) /\ Owned(sv, sk) /\ Used(sv, sk) /\ Idle(sv) /\ Single(sv)
  BY DEF Linked
<1>1. st = Connect([services |-> sw, sockets |-> sl], v, token, good)
  BY DEF Reconnected
<1>2. sw \in [Services -> Service]
  <2>1. sw = [sv EXCEPT ![v] = [@ EXCEPT !.timer = FALSE, !.delay = Base, !.ws = None]]
    BY <1>0 DEF Typed
  <2>2. Base \in Base .. Limit
    BY DashSocketAssumption
  <2>3. [sv[v] EXCEPT !.timer = FALSE, !.delay = Base, !.ws = None] \in Service
    BY <1>0, <2>2 DEF Typed, Service
  <2>4. QED BY <1>0, <2>1, <2>3 DEF Typed
<1>3. \A u \in Services \ {v} : sw[u] = sv[u]
  BY <1>0 DEF Typed
<1>4. sw[v].state = "live" /\ sw[v].ws = None /\ sw[v].timer = FALSE
  BY <1>0 DEF Typed, Service
<1>5. \A u \in Services : sw[u].state = sv[u].state
  BY <1>3, <1>4
<1>6. old \in Sockets \cup {None} /\ \A t \in Sockets : t # None
  BY <1>0 DEF Typed, Service, Sockets, None
<1>7. /\ left \in [Sockets -> Socket]
      /\ \A t \in Sockets :
           /\ left[t].of = sk[t].of /\ left[t].state = sk[t].state
           /\ t = old => ~left[t].attached
           /\ t # old => left[t] = sk[t]
  <2>1. CASE old = None
    BY <2>1, <1>0, <1>6 DEF Typed
  <2>2. CASE old # None
    <3>1. left = [sk EXCEPT ![old] = [@ EXCEPT !.attached = FALSE]]
      BY <2>2
    <3>2. [sk[old] EXCEPT !.attached = FALSE] \in Socket
      BY <2>2, <1>0, <1>6 DEF Typed, Socket
    <3>3. QED BY <2>2, <3>1, <3>2, <1>0, <1>6 DEF Typed, Socket
  <2>3. QED BY <2>1, <2>2
<1> HIDE DEF sw, left
<1>8. /\ sl \in [Sockets -> Socket]
      /\ \A t \in Sockets :
           /\ sl[t].of = sk[t].of
           /\ t = old => sl[t].state = "closing" /\ ~sl[t].attached
           /\ t # old => sl[t] = sk[t]
  <2> HIDE DEF old
  <2>1. QED BY <1>6, <1>7, ShutShuts
<1> HIDE DEF sl
<1>9. Typed(sw, sl)
  BY <1>2, <1>8 DEF Typed
<1>10. Holds(sw, sl)
  <2>1. ASSUME NEW u \in Services, sw[u].ws # None
        PROVE  sl[sw[u].ws].state # "free" /\ sl[sw[u].ws].of = u /\ sl[sw[u].ws].attached
    <3>1. u # v /\ sw[u] = sv[u] /\ sv[u].ws \in Sockets
      BY <2>1, <1>0, <1>3, <1>4 DEF Typed, Service
    <3>2. sk[sv[u].ws].state # "free" /\ sk[sv[u].ws].of = u /\ sk[sv[u].ws].attached
      BY <3>1, <2>1, <1>0 DEF Holds
    <3>3. sv[u].ws # old
      BY <3>1, <3>2, <2>1, <1>0 DEF Holds
    <3>4. QED BY <3>1, <3>2, <3>3, <1>8
  <2>2. QED BY <2>1 DEF Holds
<1>11. Owned(sw, sl)
  <2>1. ASSUME NEW t \in Sockets, sl[t].state # "free"
        PROVE  sl[t].of \in Services /\ sw[sl[t].of].state # "none" /\ (sl[t].attached => sw[sl[t].of].ws = t)
    <3>1. sk[t].state # "free"
      BY <2>1, <1>0, <1>6, <1>8 DEF Holds
    <3>2. sk[t].of \in Services /\ sv[sk[t].of].state # "none" /\ (sk[t].attached => sv[sk[t].of].ws = t)
      BY <3>1, <1>0 DEF Owned
    <3>3. CASE t = old
      BY <3>3, <3>2, <1>5, <1>8
    <3>4. CASE t # old
      <4>1. sl[t] = sk[t]
        BY <3>4, <1>8
      <4>2. sk[t].attached => sk[t].of # v
        BY <3>2, <3>4
      <4>3. QED BY <3>2, <4>1, <4>2, <1>3, <1>5
    <3>5. QED BY <3>3, <3>4
  <2>2. QED BY <2>1 DEF Owned
<1>12. Used(sw, sl)
  <2>1. ASSUME NEW t \in Sockets, sl[t].state \in {"connecting", "open"}
        PROVE  sl[t].attached /\ sw[sl[t].of].state = "live"
    <3>1. sl[t] = sk[t]
      BY <2>1, <1>8
    <3>2. sk[t].attached /\ sv[sk[t].of].state = "live" /\ sk[t].of \in Services
      BY <3>1, <2>1, <1>0 DEF Owned, Used
    <3>3. QED BY <3>1, <3>2, <1>5
  <2>2. QED BY <2>1 DEF Used
<1>13. Idle(sw)
  BY <1>0, <1>3, <1>4, <1>5 DEF Idle
<1>14. Single(sw)
  BY <1>0, <1>5 DEF Single
<1>15. Linked(sw, sl)
  BY <1>9, <1>10, <1>11, <1>12, <1>13, <1>14 DEF Linked
<1>16. sl[Any(Free)].state = "free"
  BY <1>0, <1>6, <1>8 DEF Holds
<1>17. ~sw[v].timer
  BY <1>4
<1>18. Ready(sw, sl, v)
  BY <1>4, <1>15, <1>16, <1>17 DEF Ready
<1>19. QED BY <1>1, <1>18, ConnectSound

\* The effects after a render: a service that is shown connects, one that is not
\* shown any more is disposed.
LEMMA RenderedSound ==
  ASSUME NEW sv, NEW sk, Sound(sv, sk), NEW c \in BOOLEAN, Badge(sv, sk, c),
         NEW p, NEW h, NEW g,
         ASSUME ShowsDashboard(p, h), \A v \in Services : sv[v].state # "live"
         PROVE  /\ \E v \in Services : sv[v].state = "none"
                /\ Any(Free) \in Sockets /\ sk[Any(Free)].state = "free",
         NEW st, st = Rendered([services |-> sv, sockets |-> sk], p, h, g)
  PROVE  /\ Sound(st.services, st.sockets) /\ Badge(st.services, st.sockets, c)
         /\ Shown(p, st.services)
<1> DEFINE now == [services |-> sv, sockets |-> sk]
           next == {v \in Services : sv[v].state = "none"}
           live == {v \in Services : sv[v].state = "live"}
<1>0. Linked(sv, sk) /\ Typed(sv, sk) /\ Holds(sv, sk) /\ Owned(sv, sk) /\ Used(sv, sk) /\ Idle(sv) /\ Single(sv)
  BY DEF Sound, Linked
<1>1. now.services = sv /\ now.sockets = sk /\ Live(now) = live
  BY DEF Live
<1>2. CASE ShowsDashboard(p, h) /\ live = {}
  <2> DEFINE v == Any(next)
             sw == [sv EXCEPT ![v].state = "live"]
  <2>1. v \in Services /\ sv[v].state = "none"
    BY <1>2 DEF Any
  <2>2. [now EXCEPT !.services[v].state = "live"] = [services |-> sw, sockets |-> sk]
    OBVIOUS
  <2>3. st = Connect([services |-> sw, sockets |-> sk], v, h, g)
    BY <1>1, <1>2, <2>2 DEF Rendered
  <2>4. sw \in [Services -> Service]
    <3>1. sw = [sv EXCEPT ![v] = [@ EXCEPT !.state = "live"]]
      OBVIOUS
    <3>2. [sv[v] EXCEPT !.state = "live"] \in Service
      BY <1>0, <2>1 DEF Typed, Service
    <3>3. QED BY <1>0, <2>1, <3>1, <3>2 DEF Typed
  <2>5. \A u \in Services \ {v} : sw[u] = sv[u]
    BY <1>0, <2>1 DEF Typed
  <2>6. sw[v].state = "live" /\ sw[v].ws = sv[v].ws /\ sw[v].timer = sv[v].timer
    BY <1>0, <2>1 DEF Typed, Service
  <2>7. sv[v].ws = None /\ ~sv[v].timer
    BY <1>0, <2>1 DEF Idle
  <2> HIDE DEF sw
  <2>8. \A u \in Services : sw[u].ws = sv[u].ws
    BY <2>5, <2>6
  <2>9. Typed(sw, sk)
    BY <1>0, <2>4 DEF Typed
  <2>10. Holds(sw, sk)
    BY <1>0, <2>8 DEF Holds
  <2>11. Owned(sw, sk)
    <3>1. \A u \in Services : sv[u].state # "none" => sw[u].state # "none"
      BY <2>5, <2>6
    <3>2. QED BY <1>0, <2>8, <3>1 DEF Owned
  <2>12. Used(sw, sk)
    BY <1>0, <1>2 DEF Used, Owned
  <2>13. Idle(sw)
    BY <1>0, <2>5, <2>6 DEF Idle
  <2>14. Single(sw)
    BY <1>2, <2>5 DEF Single
  <2>15. Linked(sw, sk)
    BY <2>9, <2>10, <2>11, <2>12, <2>13, <2>14 DEF Linked
  <2>16. Any(Free) \in Sockets /\ sk[Any(Free)].state = "free"
    BY <1>2
  <2>17. sw[v].state = "live" /\ sw[v].ws = None /\ ~sw[v].timer
    BY <2>6, <2>7
  <2>18. st.services[v].state = "live" /\ Sound(st.services, st.sockets) /\ \A d \in BOOLEAN : Badge(st.services, st.sockets, d)
    <3> HIDE DEF v, now, next, live
    <3>1. Ready(sw, sk, v)
      BY <2>1, <2>15, <2>16, <2>17 DEF Ready
    <3>2. QED BY <2>1, <2>3, <3>1, ConnectSound
  <2>19. QED BY <2>1, <2>18 DEF Shown
<1>3. CASE ~ShowsDashboard(p, h) /\ live # {}
  <2> DEFINE v == Any(live)
  <2>1. v \in Services /\ sv[v].state = "live"
    BY <1>3 DEF Any
  <2>2. st = Disposed(now, v)
    BY <1>1, <1>3 DEF Rendered
  <2>3. QED BY <1>0, <1>3, <2>1, <2>2, DisposedSound DEF Shown, ShowsDashboard
<1>4. CASE ~(ShowsDashboard(p, h) /\ live = {}) /\ ~(~ShowsDashboard(p, h) /\ live # {})
  <2>1. st = now
    BY <1>1, <1>4 DEF Rendered
  <2>2. Shown(p, sv)
    BY <1>4 DEF Shown, ShowsDashboard
  <2>3. QED BY <1>1, <2>1, <2>2
<1>5. QED BY <1>2, <1>3, <1>4

-----------------------------------------------------------------------------
(* The events.                                                             *)

\* Changes that neither make nor free a socket, nor take a service or a socket from
\* the other.
LEMMA KeptSound ==
  ASSUME NEW sv, NEW sk, NEW sw, NEW sl, Sound(sv, sk), Typed(sw, sl),
         \A v \in Services : /\ sw[v].state = sv[v].state /\ sw[v].ws = sv[v].ws
                            /\ sw[v].timer = sv[v].timer /\ sw[v].refused = sv[v].refused,
         \A t \in Sockets :
           /\ sl[t].of = sk[t].of /\ sl[t].attached = sk[t].attached
           /\ sl[t].state = "free" <=> sk[t].state = "free"
           /\ sl[t].state \in {"connecting", "open"} => sk[t].state \in {"connecting", "open"}
  PROVE  Sound(sw, sl)
<1>0. /\ Typed(sv, sk) /\ Holds(sv, sk) /\ Owned(sv, sk) /\ Used(sv, sk) /\ Idle(sv) /\ Single(sv)
      /\ Forward(sv)
  BY DEF Sound, Linked
<1>1. Holds(sw, sl)
  <2>1. ASSUME NEW u \in Services, sw[u].ws # None
        PROVE  sl[sw[u].ws].state # "free" /\ sl[sw[u].ws].of = u /\ sl[sw[u].ws].attached
    <3>1. sw[u].ws = sv[u].ws /\ sv[u].ws \in Sockets
      BY <2>1, <1>0 DEF Typed, Service
    <3>2. sk[sv[u].ws].state # "free" /\ sk[sv[u].ws].of = u /\ sk[sv[u].ws].attached
      BY <3>1, <2>1, <1>0 DEF Holds
    <3>3. QED BY <3>1, <3>2
  <2>2. QED BY <2>1 DEF Holds
<1>2. Owned(sw, sl)
  BY <1>0 DEF Owned
<1>3. Used(sw, sl)
  <2>1. ASSUME NEW t \in Sockets, sl[t].state \in {"connecting", "open"}
        PROVE  sl[t].attached /\ sw[sl[t].of].state = "live"
    <3>1. sk[t].attached /\ sv[sk[t].of].state = "live" /\ sk[t].of \in Services
      BY <2>1, <1>0 DEF Owned, Used
    <3>2. QED BY <3>1
  <2>2. QED BY <2>1 DEF Used
<1>4. Idle(sw)
  BY <1>0 DEF Idle
<1>5. Single(sw)
  BY <1>0 DEF Single
<1>6. Forward(sw)
  BY <1>0 DEF Forward, One
<1>7. QED BY <1>1, <1>2, <1>3, <1>4, <1>5, <1>6 DEF Sound, Linked

\* Such changes that open no socket leave the header right.
LEMMA KeptBadge ==
  ASSUME NEW sv, NEW sk, NEW sw, NEW sl, NEW c, Typed(sv, sk), Badge(sv, sk, c),
         \A v \in Services : /\ sw[v].state = sv[v].state /\ sw[v].ws = sv[v].ws
                            /\ sw[v].timer = sv[v].timer /\ sw[v].refused = sv[v].refused,
         \A t \in Sockets : sl[t].state = "open" => sk[t].state = "open"
  PROVE  Badge(sw, sl, c)
<1>1. \A v \in Services : sv[v].ws # None => sv[v].ws \in Sockets
  BY DEF Typed, Service
<1>2. QED BY <1>1 DEF Badge

\* The close event of the socket s of the service v, which goes on in one way or is not
\* live.
Closed(sv, sk, sw, sl, s, v) ==
  /\ sv[v].ws = s /\ sl[s] = NoSocket
  /\ \A t \in Sockets \ {s} : sl[t] = sk[t]
  /\ \A u \in Services \ {v} : sw[u] = sv[u]
  /\ sw[v].state = sv[v].state /\ sw[v].ws = None
  /\ sw[v].state = "live" => One(sw[v])
  /\ sw[v].state # "live" => ~sw[v].timer

\* Such an event leaves the services and sockets sound, and the header of the live one
\* down.
LEMMA ClosedSound ==
  ASSUME NEW sv, NEW sk, NEW sw, NEW sl, Sound(sv, sk), Typed(sw, sl),
         NEW s \in Sockets, NEW v \in Services, Closed(sv, sk, sw, sl, s, v)
  PROVE  /\ Sound(sw, sl)
         /\ sv[v].state = "live" => Badge(sw, sl, FALSE)
<1> USE DEF Closed
<1>0. /\ Typed(sv, sk) /\ Holds(sv, sk) /\ Owned(sv, sk) /\ Used(sv, sk) /\ Idle(sv) /\ Single(sv)
      /\ Forward(sv)
  BY DEF Sound, Linked
<1>1. s # None /\ sl[s].state = "free"
  BY DEF Sockets, None, NoSocket
<1>2. sk[s].state # "free" /\ sk[s].of = v /\ sk[s].attached
  BY <1>0, <1>1 DEF Holds
<1>3. \A u \in Services : sw[u].state = sv[u].state
  OBVIOUS
<1>4. ASSUME NEW u \in Services, sw[u].ws # None
      PROVE  /\ u # v /\ sw[u] = sv[u] /\ sw[u].ws \in Sockets \ {s} /\ sl[sw[u].ws] = sk[sv[u].ws]
             /\ sk[sv[u].ws].state # "free" /\ sk[sv[u].ws].of = u /\ sk[sv[u].ws].attached
  <2>1. u # v /\ sw[u] = sv[u]
    BY <1>4
  <2>2. sv[u].ws \in Sockets
    BY <1>0, <1>4, <2>1 DEF Typed, Service
  <2>3. sk[sv[u].ws].state # "free" /\ sk[sv[u].ws].of = u /\ sk[sv[u].ws].attached
    BY <1>0, <1>4, <2>1 DEF Holds
  <2>4. sv[u].ws # s
    BY <1>2, <2>1, <2>3
  <2>5. QED BY <2>1, <2>2, <2>3, <2>4
<1>5. Holds(sw, sl)
  BY <1>4 DEF Holds
<1>6. Owned(sw, sl)
  <2>1. ASSUME NEW t \in Sockets, sl[t].state # "free"
        PROVE  sl[t].of \in Services /\ sw[sl[t].of].state # "none" /\ (sl[t].attached => sw[sl[t].of].ws = t)
    <3>1. t # s /\ sl[t] = sk[t]
      BY <1>1, <2>1
    <3>2. sk[t].of \in Services /\ sv[sk[t].of].state # "none" /\ (sk[t].attached => sv[sk[t].of].ws = t)
      BY <1>0, <2>1, <3>1 DEF Owned
    <3>3. sk[t].attached => sk[t].of # v
      BY <3>1, <3>2
    <3>4. QED BY <1>3, <3>1, <3>2, <3>3
  <2>2. QED BY <2>1 DEF Owned
<1>7. Used(sw, sl)
  <2>1. ASSUME NEW t \in Sockets, sl[t].state \in {"connecting", "open"}
        PROVE  sl[t].attached /\ sw[sl[t].of].state = "live"
    <3>1. sl[t] = sk[t]
      BY <1>1, <2>1
    <3>2. sk[t].attached /\ sv[sk[t].of].state = "live" /\ sk[t].of \in Services
      BY <1>0, <2>1, <3>1 DEF Owned, Used
    <3>3. QED BY <1>3, <3>1, <3>2
  <2>2. QED BY <2>1 DEF Used
<1>8. Idle(sw)
  BY <1>0, <1>3 DEF Idle
<1>9. Single(sw)
  BY <1>0, <1>3 DEF Single
<1>10. Forward(sw)
  BY <1>0, <1>3 DEF Forward
<1>11. Sound(sw, sl)
  BY <1>5, <1>6, <1>7, <1>8, <1>9, <1>10 DEF Sound, Linked
<1>12. ASSUME sv[v].state = "live" PROVE Badge(sw, sl, FALSE)
  BY <1>0, <1>3, <1>12 DEF Badge, Single
<1>13. QED BY <1>11, <1>12

\* The socket of a service that is not live does not matter to the header.
LEMMA ClosedBadge ==
  ASSUME NEW sv, NEW sk, NEW sw, NEW sl, Sound(sv, sk),
         NEW s \in Sockets, NEW v \in Services, Closed(sv, sk, sw, sl, s, v),
         sv[v].state # "live", NEW c, Badge(sv, sk, c)
  PROVE  Badge(sw, sl, c)
<1>1. Typed(sv, sk) /\ Holds(sv, sk)
  BY DEF Sound, Linked
<1>2. s # None /\ sk[s].of = v
  BY <1>1 DEF Sockets, None, Holds, Closed
<1>3. ASSUME NEW u \in Services, sw[u].state = "live"
      PROVE  u # v /\ sw[u] = sv[u]
  BY <1>3 DEF Closed
<1>4. ASSUME NEW u \in Services, sw[u].state = "live", sw[u].ws # None
      PROVE  sl[sw[u].ws] = sk[sv[u].ws]
  <2>1. sw[u] = sv[u] /\ sv[u].ws \in Sockets /\ sk[sv[u].ws].of = u /\ u # v
    BY <1>1, <1>3, <1>4 DEF Typed, Holds, Service
  <2>2. QED BY <1>2, <2>1 DEF Closed
<1>5. QED BY <1>3, <1>4 DEF Badge

\* The close event of a socket that its service does not listen to.
LEMMA UnheardSound ==
  ASSUME NEW sv, NEW sk, NEW sl, Sound(sv, sk), Typed(sv, sl),
         NEW s \in Sockets, ~sk[s].attached,
         sl[s] = NoSocket, \A t \in Sockets \ {s} : sl[t] = sk[t]
  PROVE  Sound(sv, sl) /\ \A c \in BOOLEAN : Badge(sv, sk, c) => Badge(sv, sl, c)
<1>0. /\ Typed(sv, sk) /\ Holds(sv, sk) /\ Owned(sv, sk) /\ Used(sv, sk) /\ Idle(sv) /\ Single(sv)
      /\ Forward(sv)
  BY DEF Sound, Linked
<1>1. sl[s].state = "free"
  BY DEF NoSocket
<1>2. ASSUME NEW u \in Services, sv[u].ws # None
      PROVE  /\ sl[sv[u].ws] = sk[sv[u].ws]
             /\ sk[sv[u].ws].state # "free" /\ sk[sv[u].ws].of = u /\ sk[sv[u].ws].attached
  <2>1. sk[sv[u].ws].state # "free" /\ sk[sv[u].ws].of = u /\ sk[sv[u].ws].attached
    BY <1>0, <1>2 DEF Holds
  <2>2. sv[u].ws \in Sockets \ {s}
    BY <1>0, <1>2, <2>1 DEF Typed, Service
  <2>3. QED BY <2>1, <2>2
<1>3. Holds(sv, sl)
  BY <1>2 DEF Holds
<1>4. Owned(sv, sl)
  BY <1>0, <1>1 DEF Owned
<1>5. Used(sv, sl)
  BY <1>0, <1>1 DEF Used
<1>6. Sound(sv, sl)
  BY <1>0, <1>3, <1>4, <1>5 DEF Sound, Linked
<1>7. \A c \in BOOLEAN : Badge(sv, sk, c) => Badge(sv, sl, c)
  BY <1>2 DEF Badge
<1>8. QED BY <1>6, <1>7

-----------------------------------------------------------------------------
(* The steps.                                                              *)

\* The parts of Inv, and the record that the methods take.
LEMMA InvParts ==
  ASSUME Inv
  PROVE  /\ TypeOK /\ Sound(service, socket) /\ Badge(service, socket, connected)
         /\ Linked(service, socket) /\ Typed(service, socket)
         /\ State = [services |-> service, sockets |-> socket]
         /\ Live(State) = {v \in Services : service[v].state = "live"}
BY DEF Inv, Sound, Linked, State, Live

\* A free socket is there to be taken.
LEMMA FreeSocket ==
  ASSUME Free # {}
  PROVE  Any(Free) \in Sockets /\ socket[Any(Free)].state = "free"
<1>1. Any(Free) \in Free
  BY DEF Any
<1>2. QED BY <1>1 DEF Free

\* What a step leaves of the session and the page, and the rest of the invariant.
LEMMA Assembled ==
  ASSUME auth' \in BOOLEAN, page' \in {"loading", "direct", "auth"},
         token' \in BOOLEAN, good' \in BOOLEAN, good' => token', connected' \in BOOLEAN,
         Sound(service', socket'), Badge(service', socket', connected'), Shown(page', service')
  PROVE  Inv'
BY DEF Inv, TypeOK, Sound, Linked, Typed, Holds, Owned, Used, Idle, Single, Forward, Badge, One, Shown,
       Services, Sockets

\* Nothing is shown at first.
LEMMA InitInv == Init => Inv
<1> SUFFICES ASSUME Init PROVE Inv
  OBVIOUS
<1> USE DEF Init
<1>1. NoService \in Service
  <2>1. Base \in Base .. Limit
    BY DashSocketAssumption
  <2>2. QED BY <2>1 DEF NoService, Service
<1>2. NoSocket \in Socket
  BY DEF NoSocket, Socket
<1>3. /\ \A v \in Services : service[v].state = "none" /\ service[v].ws = None /\ ~service[v].timer
      /\ \A s \in Sockets : socket[s].state = "free"
  BY DEF NoService, NoSocket
<1>4. Typed(service, socket)
  BY <1>1, <1>2 DEF Typed
<1>5. good \in BOOLEAN /\ (good => token)
  <2>1. CASE good = FALSE
    BY <2>1
  <2>2. CASE good = token
    BY <2>2
  <2>3. QED BY <2>1, <2>2
<1>6. TypeOK
  BY <1>4, <1>5 DEF Typed, TypeOK
<1>7. Shown(page, service)
  BY DEF Shown
<1>8. Holds(service, socket) /\ Owned(service, socket) /\ Used(service, socket)
  BY <1>3 DEF Holds, Owned, Used
<1>9. Idle(service) /\ Single(service) /\ Forward(service) /\ Badge(service, socket, connected)
  BY <1>3 DEF Idle, Single, Forward, Badge
<1>10. QED BY <1>4, <1>6, <1>7, <1>8, <1>9 DEF Inv, Sound, Linked

\* The page is known, and shows the dashboard or not.
LEMMA StatusArrivesInv == Inv /\ StatusArrives => Inv'
<1> SUFFICES ASSUME Inv, StatusArrives PROVE Inv'
  OBVIOUS
<1>1. Sound(service', socket') /\ Badge(service', socket', connected) /\ Shown(page', service')
  <2>1. \E v \in Services : service[v].state = "none"
    BY DEF StatusArrives, Room
  <2>2. Any(Free) \in Sockets /\ socket[Any(Free)].state = "free"
    BY FreeSocket DEF StatusArrives, Room
  <2>3. connected \in BOOLEAN
    BY DEF Inv, TypeOK
  <2>4. PICK st : st = Rendered([services |-> service, sockets |-> socket], page', token, good)
    OBVIOUS
  <2>5. service' = st.services /\ socket' = st.sockets
    BY <2>4 DEF StatusArrives, Becomes, State
  <2>6. /\ Sound(st.services, st.sockets) /\ Badge(st.services, st.sockets, connected)
        /\ Shown(page', st.services)
    BY <2>1, <2>2, <2>3, <2>4, InvParts, RenderedSound
  <2>7. QED BY <2>5, <2>6
<1>2. /\ auth' = auth /\ token' = token /\ good' = good /\ connected' = connected
      /\ page' \in {"auth", "direct"}
  BY DEF StatusArrives
<1>3. QED BY <1>1, <1>2, Assembled DEF Inv, TypeOK

\* The tokens of the sockets do not matter here.
LEMMA InvalidSound ==
  ASSUME Inv, NEW sl, sl = [s \in Sockets |-> [socket[s] EXCEPT !.valid = FALSE]]
  PROVE  Sound(service, sl) /\ Badge(service, sl, connected) /\ \A s \in Sockets : sl[s].state = socket[s].state
<1>1. Sound(service, socket) /\ Badge(service, socket, connected) /\ Typed(service, socket)
  BY InvParts
<1>2. \A s \in Sockets :
        /\ sl[s] \in Socket /\ sl[s].state = socket[s].state
        /\ sl[s].of = socket[s].of /\ sl[s].attached = socket[s].attached
  BY <1>1 DEF Typed, Socket
<1>3. Typed(service, sl)
  BY <1>1, <1>2 DEF Typed
<1>4. Sound(service, sl)
  BY <1>1, <1>2, <1>3, KeptSound
<1>5. Badge(service, sl, connected)
  BY <1>1, <1>2, KeptBadge
<1>6. QED BY <1>2, <1>4, <1>5

\* A session starts: a page that needed it shows a new dashboard.
LEMMA SignInInv == Inv /\ SignIn => Inv'
<1> SUFFICES ASSUME Inv, SignIn PROVE Inv'
  OBVIOUS
<1>1. PICK sl : sl = [s \in Sockets |-> [socket[s] EXCEPT !.valid = FALSE]]
  OBVIOUS
<1>2. Sound(service, sl) /\ Badge(service, sl, connected) /\ \A s \in Sockets : sl[s].state = socket[s].state
  BY <1>1, InvalidSound
<1>3. PICK st : st = Rendered([services |-> service, sockets |-> sl], page, TRUE, TRUE)
  OBVIOUS
<1>4. [State EXCEPT !.sockets = sl] = [services |-> service, sockets |-> sl]
  BY DEF State
<1>5. service' = st.services /\ socket' = st.sockets
  BY <1>1, <1>3, <1>4 DEF SignIn, Becomes
<1>6. /\ Sound(st.services, st.sockets) /\ Badge(st.services, st.sockets, connected)
      /\ Shown(page, st.services)
  <2>1. \E v \in Services : service[v].state = "none"
    BY DEF SignIn, Room
  <2>2. Any(Free) \in Sockets /\ sl[Any(Free)].state = "free"
    BY <1>2, FreeSocket DEF SignIn, Room
  <2>3. connected \in BOOLEAN
    BY DEF Inv, TypeOK
  <2>4. QED BY <1>2, <1>3, <2>1, <2>2, <2>3, RenderedSound
<1>7. auth' = auth /\ page' = page /\ token' = TRUE /\ good' = TRUE /\ connected' = connected
  BY DEF SignIn
<1>8. Shown(page', service')
  BY <1>5, <1>6, <1>7
<1>9. QED BY <1>5, <1>6, <1>7, <1>8, Assembled DEF Inv, TypeOK

\* A session that ends elsewhere changes nothing here yet.
LEMMA SessionEndsInv == Inv /\ SessionEnds => Inv'
<1> SUFFICES ASSUME Inv, SessionEnds PROVE Inv'
  OBVIOUS
<1>1. /\ auth' = auth /\ page' = page /\ token' = token /\ good' = FALSE /\ connected' = connected
      /\ service' = service /\ socket' = [s \in Sockets |-> [socket[s] EXCEPT !.valid = FALSE]]
  BY DEF SessionEnds
<1>2. Sound(service', socket') /\ Badge(service', socket', connected) /\ Shown(page', service')
  BY <1>1, InvalidSound DEF Inv
<1>3. QED BY <1>1, <1>2, Assembled DEF Inv, TypeOK

\* A page that needs the session disposes of its dashboard.
LEMMA SignOutInv == Inv /\ SignOut => Inv'
<1> SUFFICES ASSUME Inv, SignOut PROVE Inv'
  OBVIOUS
<1>1. PICK st : st = Rendered([services |-> service, sockets |-> socket], page, FALSE, FALSE)
  OBVIOUS
<1>2. service' = st.services /\ socket' = st.sockets
  BY <1>1 DEF SignOut, Becomes, State
<1>3. /\ Sound(st.services, st.sockets) /\ Badge(st.services, st.sockets, connected)
      /\ Shown(page, st.services)
  <2>1. connected \in BOOLEAN
    BY DEF Inv, TypeOK
  <2>2. ASSUME ShowsDashboard(page, FALSE), \A v \in Services : service[v].state # "live" PROVE FALSE
    BY <2>2 DEF Inv, Shown, ShowsDashboard
  <2>3. QED BY <1>1, <2>1, <2>2, InvParts, RenderedSound
<1>4. auth' = auth /\ page' = page /\ token' = FALSE /\ good' = FALSE /\ connected' = connected
  BY DEF SignOut
<1>5. Shown(page', service')
  BY <1>2, <1>3, <1>4
<1>6. QED BY <1>2, <1>3, <1>4, <1>5, Assembled DEF Inv, TypeOK

\* The tab is visible again: reconnect().
LEMMA VisibleInv == Inv /\ Visible => Inv'
<1> SUFFICES ASSUME Inv, Visible PROVE Inv'
  OBVIOUS
<1>1. PICK v \in Services : /\ service[v].state = "live"
                           /\ Becomes(Reconnected(State, v))
  BY InvParts DEF Visible
<1>2. PICK st : st = Reconnected([services |-> service, sockets |-> socket], v)
  OBVIOUS
<1>3. service' = st.services /\ socket' = st.sockets
  BY <1>1, <1>2 DEF Becomes, State
<1>4. Any(Free) \in Sockets /\ socket[Any(Free)].state = "free"
  BY FreeSocket DEF Visible
<1>5. /\ Sound(st.services, st.sockets) /\ \A c \in BOOLEAN : Badge(st.services, st.sockets, c)
      /\ st.services[v].state = "live"
  BY <1>1, <1>2, <1>4, InvParts, ReconnectedSound
<1>6. auth' = auth /\ page' = page /\ token' = token /\ good' = good /\ connected' = connected
  BY DEF Visible, pageVars
<1>7. connected \in BOOLEAN
  BY DEF Inv, TypeOK
<1>8. Badge(st.services, st.sockets, connected)
  BY <1>5, <1>7
<1>9. Shown(page', service')
  BY <1>3, <1>5 DEF Shown
<1>10. QED BY <1>3, <1>5, <1>6, <1>8, <1>9, Assembled DEF Inv, TypeOK

\* A socket that is not free has an owner; one that opens or is open is the one of a
\* live service.
LEMMA Owner ==
  ASSUME Inv, NEW s \in Sockets, socket[s].state # "free"
  PROVE  /\ socket[s].of \in Services
         /\ socket[s].attached => service[socket[s].of].ws = s
         /\ socket[s].state \in {"connecting", "open"} =>
              socket[s].attached /\ service[socket[s].of].state = "live"
<1>1. Owned(service, socket) /\ Used(service, socket)
  BY InvParts DEF Linked
<1>2. QED BY <1>1 DEF Owned, Used

\* A socket that changes its state, by a refusal or not.
To(s, new) == [socket EXCEPT ![s].state = new]
Refused(s) == [socket EXCEPT ![s].state = "closing", ![s].code4001 = TRUE]

\* The socket and those that stay as they are.
LEMMA Moved ==
  ASSUME Inv, NEW s \in Sockets, NEW new \in {"open", "closing"},
         NEW sl, sl = To(s, new) \/ (sl = Refused(s) /\ new = "closing")
  PROVE  /\ sl \in [Sockets -> Socket] /\ sl[s].state = new
         /\ sl[s].of = socket[s].of /\ sl[s].attached = socket[s].attached
         /\ \A t \in Sockets \ {s} : sl[t] = socket[t]
<1>1. Typed(service, socket)
  BY InvParts
<1>2. CASE sl = To(s, new)
  <2>1. sl = [socket EXCEPT ![s] = [@ EXCEPT !.state = new]]
    BY <1>2 DEF To
  <2>2. [socket[s] EXCEPT !.state = new] \in Socket
    BY <1>1 DEF Typed, Socket
  <2>3. QED BY <1>1, <2>1, <2>2 DEF Typed, Socket
<1>3. CASE sl = Refused(s) /\ new = "closing"
  <2>1. sl = [socket EXCEPT ![s] = [@ EXCEPT !.state = new, !.code4001 = TRUE]]
    BY <1>1, <1>3 DEF Typed, Refused
  <2>2. [socket[s] EXCEPT !.state = new, !.code4001 = TRUE] \in Socket
    BY <1>1 DEF Typed, Socket
  <2>3. QED BY <1>1, <2>1, <2>2 DEF Typed, Socket
<1>4. QED BY <1>2, <1>3

\* The socket opens: its service has no other way forward, and the header is told.
LEMMA OpensInv == ASSUME Inv, NEW s \in Sockets, Opens(s) PROVE Inv'
<1> DEFINE v == socket[s].of
<1>1. /\ socket[s].state = "connecting" /\ connected' = TRUE
      /\ socket' = To(s, "open")
      /\ service' = [service EXCEPT ![v].delay = Base]
      /\ auth' = auth /\ page' = page /\ token' = token /\ good' = good
  BY DEF Opens, pageVars, To
<1>2. v \in Services /\ service[v].ws = s /\ service[v].state = "live"
  BY <1>1, Owner
<1> HIDE DEF v
<1>3. /\ Typed(service, socket) /\ Single(service) /\ Forward(service) /\ Sound(service, socket)
      /\ Shown(page, service)
  BY InvParts DEF Sound, Linked, Inv
<1>4. service' \in [Services -> Service]
  <2>1. service' = [service EXCEPT ![v] = [@ EXCEPT !.delay = Base]]
    BY <1>1
  <2>2. Base \in Base .. Limit
    BY DashSocketAssumption
  <2>3. [service[v] EXCEPT !.delay = Base] \in Service
    BY <1>2, <1>3, <2>2 DEF Typed, Service
  <2>4. QED BY <1>3, <2>1, <2>3 DEF Typed
<1>5. \A u \in Services : /\ service'[u].state = service[u].state /\ service'[u].ws = service[u].ws
                          /\ service'[u].timer = service[u].timer /\ service'[u].refused = service[u].refused
  BY <1>1, <1>2, <1>3 DEF Typed, Service
<1>6. /\ socket' \in [Sockets -> Socket] /\ socket'[s].state = "open"
      /\ socket'[s].of = socket[s].of /\ socket'[s].attached = socket[s].attached
      /\ \A t \in Sockets \ {s} : socket'[t] = socket[t]
  BY <1>1, Moved
<1>7. Typed(service', socket')
  BY <1>4, <1>6 DEF Typed
<1>8. Sound(service', socket')
  <2>1. \A t \in Sockets :
          /\ socket'[t].of = socket[t].of /\ socket'[t].attached = socket[t].attached
          /\ socket'[t].state = "free" <=> socket[t].state = "free"
          /\ socket'[t].state \in {"connecting", "open"} => socket[t].state \in {"connecting", "open"}
    BY <1>1, <1>6
  <2>2. QED BY <1>3, <1>5, <1>7, <2>1, KeptSound
<1>9. Badge(service', socket', connected')
  <2>1. ASSUME NEW u \in Services, service'[u].state = "live"
        PROVE  ~(service'[u].timer \/ service'[u].refused)
    <3>1. u = v
      BY <1>2, <1>3, <1>5, <2>1 DEF Single
    <3>2. One(service[v])
      BY <1>2, <1>3 DEF Forward
    <3>3. s # None
      BY DEF Sockets, None
    <3>4. QED BY <1>2, <1>5, <3>1, <3>2, <3>3 DEF One
  <2>2. QED BY <1>1, <2>1 DEF Badge
<1>10. Shown(page', service')
  BY <1>1, <1>3, <1>5 DEF Shown
<1>11. QED BY <1>1, <1>8, <1>9, <1>10, Assembled DEF Inv, TypeOK

\* The server or the network closes the socket: nobody has heard of it yet.
LEMMA ClosingInv == ASSUME Inv, NEW s \in Sockets, Refuses(s) \/ Breaks(s) PROVE Inv'
<1>1. /\ socket[s].state = "open" /\ connected' = connected /\ service' = service
      /\ auth' = auth /\ page' = page /\ token' = token /\ good' = good
  BY DEF Refuses, Breaks, pageVars
<1>2. socket' = To(s, "closing") \/ socket' = Refused(s)
  BY DEF Refuses, Breaks, To, Refused
<1>3. /\ socket' \in [Sockets -> Socket] /\ socket'[s].state = "closing"
      /\ socket'[s].of = socket[s].of /\ socket'[s].attached = socket[s].attached
      /\ \A t \in Sockets \ {s} : socket'[t] = socket[t]
  BY <1>2, Moved
<1>4. /\ Typed(service, socket) /\ Sound(service, socket) /\ Badge(service, socket, connected)
      /\ Shown(page, service)
  BY InvParts DEF Inv
<1>5. Typed(service', socket')
  BY <1>1, <1>3, <1>4 DEF Typed
<1>6. Sound(service', socket')
  BY <1>1, <1>3, <1>4, <1>5, KeptSound
<1>7. Badge(service', socket', connected')
  <2>1. \A t \in Sockets : socket'[t].state = "open" => socket[t].state = "open"
    BY <1>3
  <2>2. QED BY <1>1, <1>4, <2>1, KeptBadge
<1>8. QED BY <1>1, <1>4, <1>6, <1>7, Assembled DEF Inv, TypeOK

\* The timer fires: connect() finds the service without a socket.
LEMMA TimerFiresInv == ASSUME Inv, NEW v \in Services, TimerFires(v) PROVE Inv'
<1> DEFINE sw == [service EXCEPT ![v].timer = FALSE]
<1>0. /\ Typed(service, socket) /\ Holds(service, socket) /\ Owned(service, socket)
      /\ Used(service, socket) /\ Idle(service) /\ Single(service) /\ Forward(service)
      /\ Shown(page, service)
  BY InvParts DEF Sound, Linked, Inv
<1>1. service[v].timer /\ service[v].state = "live" /\ service[v].ws = None
  BY <1>0 DEF TimerFires, Idle, Forward, One
<1>2. PICK st : st = Connect([services |-> sw, sockets |-> socket], v, token, good)
  OBVIOUS
<1>3. [State EXCEPT !.services[v].timer = FALSE] = [services |-> sw, sockets |-> socket]
  <2>1. State.services = service
    BY DEF State
  <2>2. [State EXCEPT !.services[v].timer = FALSE] = [State EXCEPT !.services = sw]
    BY <2>1
  <2>3. [State EXCEPT !.services = sw] = [services |-> sw, sockets |-> socket]
    <3> HIDE DEF sw
    <3>1. QED BY DEF State
  <2>4. QED BY <2>2, <2>3
<1>4. Becomes([st EXCEPT !.services[v].delay = NextDelay(@)])
  BY <1>2, <1>3 DEF TimerFires
<1>5. sw \in [Services -> Service]
  <2>1. sw = [service EXCEPT ![v] = [@ EXCEPT !.timer = FALSE]]
    OBVIOUS
  <2>2. [service[v] EXCEPT !.timer = FALSE] \in Service
    BY <1>0 DEF Typed, Service
  <2>3. QED BY <1>0, <2>1, <2>2 DEF Typed
<1>6. /\ \A u \in Services \ {v} : sw[u] = service[u]
      /\ sw[v].state = "live" /\ sw[v].ws = None /\ sw[v].timer = FALSE
  BY <1>0, <1>1 DEF Typed, Service
<1> HIDE DEF sw
<1>7. Ready(sw, socket, v)
  <2>1. \A u \in Services : sw[u].state = service[u].state /\ sw[u].ws = service[u].ws
    BY <1>1, <1>6
  <2>2. Typed(sw, socket)
    BY <1>0, <1>5 DEF Typed
  <2>3. Holds(sw, socket)
    BY <1>0, <2>1 DEF Holds
  <2>4. Owned(sw, socket)
    BY <1>0, <2>1 DEF Owned
  <2>5. Used(sw, socket)
    BY <1>0, <2>1 DEF Used, Owned
  <2>6. Idle(sw)
    BY <1>0, <1>6 DEF Idle
  <2>7. Single(sw)
    BY <1>0, <2>1 DEF Single
  <2>8. Any(Free) \in Sockets /\ socket[Any(Free)].state = "free"
    BY FreeSocket DEF TimerFires
  <2>9. ~sw[v].timer
    BY <1>6
  <2>10. QED BY <1>6, <2>2, <2>3, <2>4, <2>5, <2>6, <2>7, <2>8, <2>9 DEF Ready, Linked
<1>8. /\ Sound(st.services, st.sockets) /\ \A c \in BOOLEAN : Badge(st.services, st.sockets, c)
      /\ st.services[v].state = "live"
  BY <1>2, <1>7, ConnectSound
<1>9. Typed(st.services, st.sockets)
  BY <1>8 DEF Sound, Linked
<1>10. socket' = st.sockets /\ service' = [st.services EXCEPT ![v].delay = NextDelay(@)]
  <2>1. \E sv, sk : st = [services |-> sv, sockets |-> sk]
    BY <1>2, <1>6 DEF Connect
  <2>2. PICK sv, sk : st = [services |-> sv, sockets |-> sk]
    BY <2>1
  <2>3. [st EXCEPT !.services[v].delay = NextDelay(@)] =
          [services |-> [sv EXCEPT ![v].delay = NextDelay(@)], sockets |-> sk]
    BY <2>2
  <2>4. QED BY <1>4, <2>2, <2>3 DEF Becomes
<1>11. service' \in [Services -> Service]
  <2>1. st.services[v] \in Service
    BY <1>9 DEF Typed
  <2>2. service' = [st.services EXCEPT ![v] = [@ EXCEPT !.delay = NextDelay(st.services[v].delay)]]
    BY <1>10
  <2>3. st.services[v].delay \in Base .. Limit
    BY <2>1 DEF Service
  <2>4. NextDelay(st.services[v].delay) \in Base .. Limit
    BY <2>3, DashSocketAssumption DEF NextDelay
  <2>5. [st.services[v] EXCEPT !.delay = NextDelay(st.services[v].delay)] \in Service
    BY <2>1, <2>4 DEF Service
  <2>6. QED BY <1>9, <2>2, <2>5 DEF Typed
<1>12. \A u \in Services :
         /\ service'[u].state = st.services[u].state /\ service'[u].ws = st.services[u].ws
         /\ service'[u].timer = st.services[u].timer /\ service'[u].refused = st.services[u].refused
  BY <1>9, <1>10 DEF Typed, Service
<1>13. Typed(service', socket')
  BY <1>9, <1>10, <1>11 DEF Typed
<1>14. Sound(service', socket')
  <2>1. \A t \in Sockets : socket'[t] = st.sockets[t]
    BY <1>10
  <2>2. QED BY <1>8, <1>12, <1>13, <2>1, KeptSound
<1>15. auth' = auth /\ page' = page /\ token' = token /\ good' = good /\ connected' = connected
  BY DEF TimerFires, pageVars
<1>16. Badge(service', socket', connected')
  <2>1. connected \in BOOLEAN
    BY DEF Inv, TypeOK
  <2>2. Badge(st.services, st.sockets, connected)
    BY <1>8, <2>1
  <2>3. \A t \in Sockets : socket'[t].state = "open" => st.sockets[t].state = "open"
    BY <1>10
  <2>4. QED BY <1>9, <1>12, <1>15, <2>2, <2>3, KeptBadge
<1>17. Shown(page', service')
  BY <1>8, <1>12 DEF Shown
<1>18. QED BY <1>14, <1>15, <1>16, <1>17, Assembled DEF Inv, TypeOK

\* The close event of a socket that its service does not hear.
LEMMA CloseUnheardInv == ASSUME Inv, NEW s \in Sockets, CloseUnheard(s) PROVE Inv'
<1> DEFINE v == socket[s].of
<1>1. /\ socket[s].state = "closing" /\ socket' = [socket EXCEPT ![s] = NoSocket]
      /\ connected' = connected
      /\ auth' = auth /\ page' = page /\ token' = token /\ good' = good
  BY DEF CloseUnheard, pageVars
<1>2. /\ Typed(service, socket) /\ Sound(service, socket) /\ Badge(service, socket, connected)
      /\ Shown(page, service) /\ connected \in BOOLEAN
  BY InvParts DEF Inv, TypeOK
<1>3. NoSocket \in Socket
  BY DEF NoSocket, Socket
<1>4. /\ socket' \in [Sockets -> Socket] /\ socket'[s] = NoSocket
      /\ \A t \in Sockets \ {s} : socket'[t] = socket[t]
  BY <1>1, <1>2, <1>3 DEF Typed
<1>5. CASE socket[s].attached
  <2>1. v \in Services /\ service[v].ws = s
    BY <1>1, <1>5, Owner
  <2>2. service[v].state = "disposed" /\ service' = [service EXCEPT ![v].ws = None]
    BY <1>5 DEF CloseUnheard
  <2> HIDE DEF v
  <2>3. service' \in [Services -> Service]
    <3>1. service' = [service EXCEPT ![v] = [@ EXCEPT !.ws = None]]
      BY <2>2
    <3>2. [service[v] EXCEPT !.ws = None] \in Service
      BY <1>2, <2>1 DEF Typed, Service
    <3>3. QED BY <1>2, <3>1, <3>2 DEF Typed
  <2>4. /\ \A u \in Services \ {v} : service'[u] = service[u]
        /\ service'[v].state = service[v].state /\ service'[v].ws = None
        /\ service'[v].timer = service[v].timer
    BY <1>2, <2>1, <2>2 DEF Typed, Service
  <2>5. service'[v].state # "live" /\ ~service'[v].timer
    <3>1. Idle(service)
      BY InvParts DEF Linked
    <3>2. ~service[v].timer
      BY <2>1, <2>2, <3>1 DEF Idle
    <3>3. QED BY <2>2, <2>4, <3>2
  <2>6. Typed(service', socket')
    BY <1>4, <2>3 DEF Typed
  <2>7. Closed(service, socket, service', socket', s, v)
    BY <1>4, <2>1, <2>4, <2>5 DEF Closed
  <2>8. Sound(service', socket') /\ Badge(service', socket', connected)
    <3>1. service[v].state # "live"
      BY <2>2
    <3>2. Sound(service', socket')
      BY <1>2, <2>1, <2>7, <2>6, ClosedSound
    <3>3. Badge(service', socket', connected)
      BY <1>2, <2>1, <3>1, <2>7, ClosedBadge
    <3>4. QED BY <3>2, <3>3
  <2>9. Shown(page', service')
    BY <1>1, <1>2, <2>1, <2>2, <2>4 DEF Shown
  <2>10. QED BY <1>1, <2>8, <2>9, Assembled DEF Inv, TypeOK
<1>6. CASE ~socket[s].attached
  <2>1. service' = service
    BY <1>6 DEF CloseUnheard
  <2>2. Typed(service, socket')
    BY <1>2, <1>4 DEF Typed
  <2>3. Sound(service, socket') /\ Badge(service, socket', connected)
    BY <1>2, <1>4, <1>6, <2>2, UnheardSound
  <2>4. QED BY <1>1, <1>2, <2>1, <2>3, Assembled DEF Inv, TypeOK
<1>7. QED BY <1>5, <1>6

\* What a close event that is heard finds.
LEMMA HeardOne ==
  ASSUME Inv, NEW s \in Sockets, Heard(s)
  PROVE  /\ socket[s].of \in Services /\ service[socket[s].of].ws = s
         /\ service[socket[s].of].state = "live"
         /\ ~service[socket[s].of].timer /\ ~service[socket[s].of].refused
<1>1. socket[s].of \in Services /\ service[socket[s].of].ws = s /\ service[socket[s].of].state = "live"
  BY Owner DEF Heard
<1>2. Forward(service)
  BY InvParts DEF Sound
<1>3. One(service[socket[s].of])
  BY <1>1, <1>2 DEF Forward
<1>4. s # None
  BY DEF Sockets, None
<1>5. QED BY <1>1, <1>3, <1>4 DEF One

\* The socket is lost, and the timer is armed.
LEMMA ClosesInv == ASSUME Inv, NEW s \in Sockets, Closes(s) PROVE Inv'
<1> DEFINE v == socket[s].of
<1>1. /\ socket' = [socket EXCEPT ![s] = NoSocket] /\ connected' = FALSE
      /\ service' = [service EXCEPT ![v].ws = None, ![v].timer = TRUE]
      /\ auth' = auth /\ page' = page /\ token' = token /\ good' = good
  BY DEF Closes, pageVars
<1>2. /\ Typed(service, socket) /\ Sound(service, socket) /\ Shown(page, service)
  BY InvParts DEF Inv
<1>3. /\ v \in Services /\ service[v].ws = s /\ service[v].state = "live"
      /\ ~service[v].timer /\ ~service[v].refused
  BY HeardOne DEF Closes
<1> HIDE DEF v
<1>4. NoSocket \in Socket
  BY DEF NoSocket, Socket
<1>5. /\ socket' \in [Sockets -> Socket] /\ socket'[s] = NoSocket
      /\ \A t \in Sockets \ {s} : socket'[t] = socket[t]
  BY <1>1, <1>2, <1>4 DEF Typed
<1>6. service' \in [Services -> Service]
  <2>1. service' = [service EXCEPT ![v] = [@ EXCEPT !.ws = None, !.timer = TRUE]]
    BY <1>1, <1>2 DEF Typed
  <2>2. [service[v] EXCEPT !.ws = None, !.timer = TRUE] \in Service
    BY <1>2, <1>3 DEF Typed, Service
  <2>3. QED BY <1>2, <2>1, <2>2 DEF Typed
<1>7. /\ \A u \in Services \ {v} : service'[u] = service[u]
      /\ service'[v].state = service[v].state /\ service'[v].ws = None
      /\ service'[v].timer = TRUE /\ service'[v].refused = service[v].refused
  BY <1>1, <1>2, <1>3 DEF Typed, Service
<1>8. One(service'[v])
  BY <1>3, <1>7 DEF One
<1>9. Typed(service', socket')
  BY <1>5, <1>6 DEF Typed
<1>10. Closed(service, socket, service', socket', s, v)
  BY <1>3, <1>5, <1>7, <1>8 DEF Closed
<1>11. Sound(service', socket') /\ Badge(service', socket', FALSE)
  BY <1>2, <1>3, <1>10, <1>9, ClosedSound
<1>12. Shown(page', service')
  BY <1>3, <1>7 DEF Shown
<1>13. QED BY <1>1, <1>11, <1>12, Assembled DEF Inv, TypeOK

\* The socket is refused: the session ends, and with it the dashboard if it needs one.
LEMMA RejectedInv == ASSUME Inv, NEW s \in Sockets, Rejected(s) PROVE Inv'
<1> DEFINE v == socket[s].of
           sw == [service EXCEPT ![v].ws = None, ![v].refused = TRUE]
           sl == [socket EXCEPT ![s] = NoSocket]
<1>1. /\ connected' = FALSE /\ token' = FALSE /\ good' = FALSE /\ auth' = auth /\ page' = page
      /\ Becomes(Rendered([services |-> sw, sockets |-> sl], page, FALSE, FALSE))
  BY DEF Rejected
<1>2. /\ Typed(service, socket) /\ Sound(service, socket)
  BY InvParts DEF Inv
<1>3. /\ v \in Services /\ service[v].ws = s /\ service[v].state = "live"
      /\ ~service[v].timer /\ ~service[v].refused
  BY HeardOne DEF Rejected
<1> HIDE DEF v
<1>4. NoSocket \in Socket
  BY DEF NoSocket, Socket
<1>5. /\ sl \in [Sockets -> Socket] /\ sl[s] = NoSocket
      /\ \A t \in Sockets \ {s} : sl[t] = socket[t]
  BY <1>2, <1>4 DEF Typed
<1>6. sw \in [Services -> Service]
  <2>1. sw = [service EXCEPT ![v] = [@ EXCEPT !.ws = None, !.refused = TRUE]]
    BY <1>2 DEF Typed
  <2>2. [service[v] EXCEPT !.ws = None, !.refused = TRUE] \in Service
    BY <1>2, <1>3 DEF Typed, Service
  <2>3. QED BY <1>2, <2>1, <2>2 DEF Typed
<1>7. /\ \A u \in Services \ {v} : sw[u] = service[u]
      /\ sw[v].state = service[v].state /\ sw[v].ws = None
      /\ sw[v].timer = service[v].timer /\ sw[v].refused = TRUE
  BY <1>2, <1>3 DEF Typed, Service
<1> HIDE DEF sw, sl
<1>8. One(sw[v])
  BY <1>3, <1>7 DEF One
<1>9. Typed(sw, sl)
  BY <1>5, <1>6 DEF Typed
<1>10. Closed(service, socket, sw, sl, s, v)
  BY <1>3, <1>5, <1>7, <1>8 DEF Closed
<1>11. Sound(sw, sl) /\ Badge(sw, sl, FALSE)
  BY <1>2, <1>3, <1>10, <1>9, ClosedSound
<1>12. PICK st : st = Rendered([services |-> sw, sockets |-> sl], page, FALSE, FALSE)
  OBVIOUS
<1>13. service' = st.services /\ socket' = st.sockets
  BY <1>1, <1>12 DEF Becomes
<1>14. Sound(st.services, st.sockets) /\ Badge(st.services, st.sockets, FALSE) /\ Shown(page, st.services)
  <2>1. ASSUME \A u \in Services : sw[u].state # "live" PROVE FALSE
    BY <1>3, <1>7, <2>1
  <2>2. QED BY <1>11, <1>12, <2>1, RenderedSound
<1>15. QED BY <1>1, <1>13, <1>14, Assembled DEF Inv, TypeOK

\* Every step keeps Inv.
LEMMA StepInv == Inv /\ [Next]_vars => Inv'
<1> SUFFICES ASSUME Inv, [Next]_vars PROVE Inv'
  OBVIOUS
<1>1. CASE StatusArrives
  BY <1>1, StatusArrivesInv
<1>2. CASE SignIn
  BY <1>2, SignInInv
<1>3. CASE SessionEnds
  BY <1>3, SessionEndsInv
<1>4. CASE SignOut
  BY <1>4, SignOutInv
<1>5. CASE Visible
  BY <1>5, VisibleInv
<1>6. ASSUME NEW s \in Sockets, Opens(s) PROVE Inv'
  BY <1>6, OpensInv
<1>7. ASSUME NEW s \in Sockets, Refuses(s) \/ Breaks(s) PROVE Inv'
  BY <1>7, ClosingInv
<1>8. ASSUME NEW s \in Sockets, CloseUnheard(s) PROVE Inv'
  BY <1>8, CloseUnheardInv
<1>9. ASSUME NEW s \in Sockets, Closes(s) PROVE Inv'
  BY <1>9, ClosesInv
<1>10. ASSUME NEW s \in Sockets, Rejected(s) PROVE Inv'
  BY <1>10, RejectedInv
<1>11. ASSUME NEW v \in Services, TimerFires(v) PROVE Inv'
  BY <1>11, TimerFiresInv
<1>12. CASE UNCHANGED vars
  BY <1>12 DEF Inv, TypeOK, Sound, Linked, Typed, Holds, Owned, Used, Idle, Single, Forward, Badge,
     Shown, One, vars, pageVars, Services, Sockets
<1>13. QED
  BY <1>1, <1>2, <1>3, <1>4, <1>5, <1>6, <1>7, <1>8, <1>9, <1>10, <1>11, <1>12 DEF Next

\* Inv is an invariant.
THEOREM Invariance == Spec => []Inv
<1>1. QED BY InitInv, StepInv, PTL DEF Spec

\* Every variable has its type, in every reachable state: among others the delay
\* stays within its limits.
THEOREM TypeCorrect == Spec => []TypeOK
<1>1. Inv => TypeOK
  BY DEF Inv
<1>2. QED BY <1>1, Invariance, PTL

\* One way forward is one element of Ways.
LEMMA OneWays ==
  ASSUME NEW w \in Service, One(w)
  PROVE  Cardinality(Ways(w)) = 1
<1>1. w.timer \in BOOLEAN /\ w.refused \in BOOLEAN
  BY DEF Service
<1>2. \E k : Ways(w) = {k}
  <2>1. CASE w.ws # None /\ ~w.timer /\ ~w.refused
    <3>1. Ways(w) = {"ws"}
      BY <2>1, <1>1 DEF Ways
    <3>2. QED BY <3>1
  <2>2. CASE w.ws = None /\ w.timer /\ ~w.refused
    <3>1. Ways(w) = {"timer"}
      BY <2>2, <1>1 DEF Ways
    <3>2. QED BY <3>1
  <2>3. CASE w.ws = None /\ ~w.timer /\ w.refused
    <3>1. Ways(w) = {"refused"}
      BY <2>3, <1>1 DEF Ways
    <3>2. QED BY <3>1
  <2>4. QED BY <2>1, <2>2, <2>3 DEF One
<1>3. QED BY <1>2, FS_Singleton

\* The dashboard that is shown has one socket, one timer or a refusal it answered,
\* whatever connects, reconnects, is refused or is shown again, and its header is
\* right: for every number of dashboards and of sockets that are closing.
THEOREM AlwaysOneTrueSocket == Spec => []OneTrueSocket
<1>1. Inv => OneTrueSocket
  <2> SUFFICES ASSUME Inv PROVE OneTrueSocket
    OBVIOUS
  <2>1. /\ Typed(service, socket) /\ Forward(service) /\ Idle(service) /\ Used(service, socket)
        /\ Owned(service, socket) /\ Badge(service, socket, connected)
    BY InvParts DEF Sound, Linked
  <2>2. ASSUME NEW v \in Services, service[v].state = "live" PROVE Cardinality(Ways(service[v])) = 1
    <3>1. service[v] \in Service /\ One(service[v])
      BY <2>1, <2>2 DEF Typed, Forward
    <3>2. QED BY <3>1, OneWays
  <2>3. \A v \in Services : service[v].timer => service[v].state = "live"
    BY <2>1 DEF Idle
  <2>4. \A s \in Sockets : socket[s].state \in {"connecting", "open"} =>
          service[socket[s].of].state = "live" /\ service[socket[s].of].ws = s
    BY <2>1 DEF Owned, Used
  <2>5. OneWay
    BY <2>2, <2>3, <2>4 DEF OneWay
  <2>6. BadgeIsTrue
    BY <2>1, InvParts DEF Badge, BadgeIsTrue, IsOpen
  <2>7. QED BY <2>5, <2>6 DEF OneTrueSocket
<1>2. QED BY <1>1, Invariance, PTL

-----------------------------------------------------------------------------
(* The link.                                                               *)

\* No socket is open that was not.
NoneOpened(sk, sl) == \A s \in Sockets : sl[s].state = "open" => sk[s].state = "open"

\* A new socket is not open yet.
LEMMA ConnectOpens ==
  ASSUME NEW sv, NEW sk \in [Sockets -> Socket], NEW v, NEW h, NEW g,
         Any(Free) \in Sockets, NEW st, st = Connect([services |-> sv, sockets |-> sk], v, h, g)
  PROVE  NoneOpened(sk, st.sockets)
<1> DEFINE s == Any(Free)
           sw == [sv EXCEPT ![v].ws = s, ![v].refused = FALSE]
           new == [NoSocket EXCEPT !.state = "connecting", !.of = v, !.attached = TRUE, !.valid = h /\ g]
           sl == [sk EXCEPT ![s] = new]
<1>1. CASE sv[v].state = "disposed"
  BY <1>1 DEF Connect, NoneOpened
<1>2. CASE sv[v].state # "disposed"
  <2>1. st = [services |-> sw, sockets |-> sl]
    BY <1>2 DEF Connect
  <2>2. new.state = "connecting"
    BY DEF NoSocket
  <2>3. s \in Sockets
    OBVIOUS
  <2> HIDE DEF new, sw, s
  <2>4. \A t \in Sockets : sl[t] = IF t = s THEN new ELSE sk[t]
    BY <2>3
  <2>5. st.sockets = sl
    <3> HIDE DEF sl
    <3>1. QED BY <2>1
  <2>6. QED BY <2>2, <2>4, <2>5 DEF NoneOpened
<1>3. QED BY <1>1, <1>2

\* Closing opens nothing.
LEMMA ShutOpens ==
  ASSUME NEW sk \in [Sockets -> Socket], NEW s \in Sockets \cup {None}
  PROVE  NoneOpened(sk, Shut(sk, s))
BY ShutShuts DEF NoneOpened

\* Nor does reconnect().
LEMMA ReconnectedOpens ==
  ASSUME NEW sv, NEW sk, Typed(sv, sk), NEW v \in Services, Any(Free) \in Sockets,
         NEW st, st = Reconnected([services |-> sv, sockets |-> sk], v)
  PROVE  NoneOpened(sk, st.sockets)
<1> DEFINE old == sv[v].ws
           left == IF old = None THEN sk ELSE [sk EXCEPT ![old].attached = FALSE]
           sw == [sv EXCEPT ![v].timer = FALSE, ![v].delay = Base, ![v].ws = None]
           sl == Shut(left, old)
<1>1. st = Connect([services |-> sw, sockets |-> sl], v, token, good)
  BY DEF Reconnected
<1>2. old \in Sockets \cup {None} /\ sk \in [Sockets -> Socket]
  BY DEF Typed, Service
<1>3. left \in [Sockets -> Socket] /\ \A t \in Sockets : left[t].state = sk[t].state
  <2>1. CASE old = None
    BY <1>2, <2>1
  <2>2. CASE old # None
    <3>1. left = [sk EXCEPT ![old] = [@ EXCEPT !.attached = FALSE]]
      BY <2>2
    <3>2. /\ [sk[old] EXCEPT !.attached = FALSE] \in Socket
          /\ [sk[old] EXCEPT !.attached = FALSE].state = sk[old].state
      <4>1. PICK w \in Socket : w = sk[old]
        BY <1>2, <2>2
      <4>2. [w EXCEPT !.attached = FALSE] \in Socket /\ [w EXCEPT !.attached = FALSE].state = w.state
        BY DEF Socket
      <4>3. QED BY <4>1, <4>2
    <3>3. QED BY <1>2, <2>2, <3>1, <3>2
  <2>3. QED BY <2>1, <2>2
<1> HIDE DEF left, old, sw
<1>4. NoneOpened(left, sl) /\ sl \in [Sockets -> Socket]
  BY <1>2, <1>3, ShutOpens, ShutShuts
<1> HIDE DEF sl
<1>5. NoneOpened(sl, st.sockets)
  BY <1>1, <1>4, ConnectOpens
<1>6. QED BY <1>3, <1>4, <1>5 DEF NoneOpened

\* Nor does a page that is rendered again.
LEMMA RenderedOpens ==
  ASSUME NEW sv, NEW sk, Typed(sv, sk), NEW p, NEW h, NEW g,
         ASSUME ShowsDashboard(p, h), \A v \in Services : sv[v].state # "live"
         PROVE  Any(Free) \in Sockets,
         NEW st, st = Rendered([services |-> sv, sockets |-> sk], p, h, g)
  PROVE  NoneOpened(sk, st.sockets)
<1> DEFINE now == [services |-> sv, sockets |-> sk]
           next == {v \in Services : sv[v].state = "none"}
           live == {v \in Services : sv[v].state = "live"}
<1>1. now.services = sv /\ now.sockets = sk /\ Live(now) = live
  BY DEF Live
<1>2. CASE ShowsDashboard(p, h) /\ live = {}
  <2> DEFINE v == Any(next)
             sw == [sv EXCEPT ![v].state = "live"]
  <2>1. [now EXCEPT !.services[v].state = "live"] = [services |-> sw, sockets |-> sk]
    OBVIOUS
  <2>2. st = Connect([services |-> sw, sockets |-> sk], v, h, g)
    BY <1>1, <1>2, <2>1 DEF Rendered
  <2>3. Any(Free) \in Sockets
    BY <1>2
  <2> HIDE DEF v, sw, now
  <2>4. QED BY <2>2, <2>3, ConnectOpens DEF Typed
<1>3. CASE ~ShowsDashboard(p, h) /\ live # {}
  <2> DEFINE v == Any(live)
  <2>1. v \in Services /\ st = Disposed(now, v)
    BY <1>1, <1>3 DEF Rendered, Any
  <2>2. st.sockets = Shut(sk, sv[v].ws)
    BY <2>1 DEF Disposed
  <2>3. sv[v].ws \in Sockets \cup {None}
    BY <2>1 DEF Typed, Service
  <2>4. QED BY <2>2, <2>3, ShutOpens DEF Typed
<1>4. CASE ~(ShowsDashboard(p, h) /\ live = {}) /\ ~(~ShowsDashboard(p, h) /\ live # {})
  BY <1>1, <1>4 DEF Rendered, NoneOpened
<1>5. QED BY <1>2, <1>3, <1>4

\* Only the open event of a socket opens one.
LEMMA OpensAlone ==
  ASSUME Inv, [Next]_vars, \A s \in Sockets : ~Opens(s)
  PROVE  NoneOpened(socket, socket')
<1>0. Typed(service, socket) /\ State = [services |-> service, sockets |-> socket]
  BY InvParts
<1>1. CASE StatusArrives
  <2>1. PICK st : st = Rendered([services |-> service, sockets |-> socket], page', token, good)
    OBVIOUS
  <2>2. socket' = st.sockets
    BY <1>0, <1>1, <2>1 DEF StatusArrives, Becomes
  <2>3. Any(Free) \in Sockets
    BY <1>1, FreeSocket DEF StatusArrives, Room
  <2>4. NoneOpened(socket, st.sockets)
    BY <1>0, <2>1, <2>3, RenderedOpens
  <2>5. QED BY <2>2, <2>4
<1>2. CASE SignIn
  <2>1. PICK sl : sl = [s \in Sockets |-> [socket[s] EXCEPT !.valid = FALSE]]
    OBVIOUS
  <2>2. [State EXCEPT !.sockets = sl] = [services |-> service, sockets |-> sl]
    BY DEF State
  <2>3. PICK st : st = Rendered([services |-> service, sockets |-> sl], page, TRUE, TRUE)
    OBVIOUS
  <2>4. socket' = st.sockets
    BY <1>2, <2>1, <2>2, <2>3 DEF SignIn, Becomes
  <2>5. Any(Free) \in Sockets
    BY <1>2, FreeSocket DEF SignIn, Room
  <2>6. Typed(service, sl) /\ \A s \in Sockets : sl[s].state = socket[s].state
    BY <2>1, InvalidSound DEF Sound, Linked
  <2>7. NoneOpened(sl, st.sockets)
    BY <2>3, <2>5, <2>6, RenderedOpens
  <2>8. QED BY <2>4, <2>6, <2>7 DEF NoneOpened
<1>3. CASE SessionEnds
  BY <1>3, InvalidSound DEF SessionEnds, NoneOpened
<1>4. CASE SignOut
  <2>1. PICK st : st = Rendered([services |-> service, sockets |-> socket], page, FALSE, FALSE)
    OBVIOUS
  <2>2. socket' = st.sockets
    BY <1>0, <1>4, <2>1 DEF SignOut, Becomes
  <2>3. ASSUME ShowsDashboard(page, FALSE), \A v \in Services : service[v].state # "live" PROVE FALSE
    BY <2>3 DEF Inv, Shown, ShowsDashboard
  <2>4. NoneOpened(socket, st.sockets)
    BY <1>0, <2>1, <2>3, RenderedOpens
  <2>5. QED BY <2>2, <2>4
<1>5. CASE Visible
  <2>1. PICK v \in Services : Becomes(Reconnected(State, v))
    BY <1>5 DEF Visible, Live
  <2>2. PICK st : st = Reconnected([services |-> service, sockets |-> socket], v)
    OBVIOUS
  <2>3. socket' = st.sockets
    BY <1>0, <2>1, <2>2 DEF Becomes
  <2>4. Any(Free) \in Sockets
    BY <1>5, FreeSocket DEF Visible
  <2>5. NoneOpened(socket, st.sockets)
    BY <1>0, <2>2, <2>4, ReconnectedOpens
  <2>6. QED BY <2>3, <2>5
<1>6. ASSUME NEW s \in Sockets, Refuses(s) \/ Breaks(s) PROVE NoneOpened(socket, socket')
  <2>1. socket' = Refused(s) \/ socket' = To(s, "closing")
    BY <1>6 DEF Refuses, Breaks, Refused, To
  <2>2. socket'[s].state = "closing" /\ \A t \in Sockets \ {s} : socket'[t] = socket[t]
    BY <2>1, Moved
  <2>3. QED BY <2>2 DEF NoneOpened
<1>7. NoSocket.state = "free" /\ NoSocket \in Socket
  BY DEF NoSocket, Socket
<1>8. ASSUME NEW s \in Sockets, CloseUnheard(s) \/ Closes(s) PROVE NoneOpened(socket, socket')
  <2>1. socket' = [socket EXCEPT ![s] = NoSocket]
    BY <1>8 DEF CloseUnheard, Closes
  <2>2. QED BY <1>0, <1>7, <2>1 DEF NoneOpened, Typed
<1>9. ASSUME NEW s \in Sockets, Rejected(s) PROVE NoneOpened(socket, socket')
  <2> DEFINE v == socket[s].of
             sw == [service EXCEPT ![v].ws = None, ![v].refused = TRUE]
             sl == [socket EXCEPT ![s] = NoSocket]
  <2>1. Becomes(Rendered([services |-> sw, sockets |-> sl], page, FALSE, FALSE))
    BY <1>9 DEF Rejected
  <2>2. v \in Services /\ service[v].state = "live"
    BY <1>9, HeardOne DEF Rejected
  <2> HIDE DEF v
  <2>3. /\ sw \in [Services -> Service] /\ sw[v].state = "live"
    <3>1. sw = [service EXCEPT ![v] = [@ EXCEPT !.ws = None, !.refused = TRUE]]
      BY <1>0 DEF Typed
    <3>2. [service[v] EXCEPT !.ws = None, !.refused = TRUE] \in Service
      BY <1>0, <2>2 DEF Typed, Service
    <3>3. QED BY <1>0, <2>2, <3>1, <3>2 DEF Typed, Service
  <2>4. sl \in [Sockets -> Socket] /\ \A t \in Sockets : sl[t].state = "open" => socket[t].state = "open"
    BY <1>0, <1>7 DEF Typed
  <2> HIDE DEF sw, sl
  <2>5. PICK st : st = Rendered([services |-> sw, sockets |-> sl], page, FALSE, FALSE)
    OBVIOUS
  <2>6. socket' = st.sockets
    BY <2>1, <2>5 DEF Becomes
  <2>7. ASSUME \A u \in Services : sw[u].state # "live" PROVE FALSE
    BY <2>2, <2>3, <2>7
  <2>8. Typed(sw, sl)
    BY <2>3, <2>4 DEF Typed
  <2>9. NoneOpened(sl, st.sockets)
    BY <2>5, <2>7, <2>8, RenderedOpens
  <2>10. QED BY <2>4, <2>6, <2>9 DEF NoneOpened
<1>10. ASSUME NEW v \in Services, TimerFires(v) PROVE NoneOpened(socket, socket')
  <2> DEFINE sw == [service EXCEPT ![v].timer = FALSE]
             st == Connect([services |-> sw, sockets |-> socket], v, token, good)
  <2>1. [State EXCEPT !.services[v].timer = FALSE] = [services |-> sw, sockets |-> socket]
    <3>1. State.services = service
      BY DEF State
    <3>2. [State EXCEPT !.services[v].timer = FALSE] = [State EXCEPT !.services = sw]
      BY <3>1
    <3>3. [State EXCEPT !.services = sw] = [services |-> sw, sockets |-> socket]
      <4> HIDE DEF sw
      <4>1. QED BY DEF State
    <3>4. QED BY <3>2, <3>3
  <2>2. socket' = [st EXCEPT !.services[v].delay = NextDelay(@)].sockets
    BY <1>10, <2>1 DEF TimerFires, Becomes
  <2>3. st = [services |-> st.services, sockets |-> st.sockets]
    BY DEF Connect
  <2> HIDE DEF st
  <2>4. socket' = st.sockets
    BY <2>2, <2>3
  <2>5. Any(Free) \in Sockets
    BY <1>10, FreeSocket DEF TimerFires
  <2> USE DEF st
  <2> HIDE DEF sw
  <2>6. QED BY <1>0, <2>4, <2>5, ConnectOpens DEF Typed
<1>11. CASE UNCHANGED vars
  BY <1>11 DEF vars, NoneOpened
<1>12. QED
  BY <1>1, <1>2, <1>3, <1>4, <1>5, <1>6, <1>8, <1>9, <1>10, <1>11 DEF Next

\* When the link is up, and when it is down.
LEMMA LinkIs ==
  ASSUME Inv
  PROVE  /\ link \in {"gone", "down", "up"}
         /\ link = "up" <=> \E s \in Sockets : socket[s].state = "open"
         /\ \A v \in Services : service[v].state = "live" /\ ~service[v].refused => link # "gone"
<1>1. /\ Typed(service, socket) /\ Used(service, socket) /\ Owned(service, socket)
      /\ Live(State) = {v \in Services : service[v].state = "live"}
  BY InvParts DEF Linked
<1>2. (\E v \in Live(State) : IsOpen(v)) <=> \E s \in Sockets : socket[s].state = "open"
  <2>1. ASSUME NEW v \in Live(State), IsOpen(v) PROVE \E s \in Sockets : socket[s].state = "open"
    <3>1. service[v].ws \in Sockets
      BY <1>1, <2>1 DEF IsOpen, Typed, Service
    <3>2. QED BY <2>1, <3>1 DEF IsOpen
  <2>2. ASSUME NEW s \in Sockets, socket[s].state = "open" PROVE \E v \in Live(State) : IsOpen(v)
    <3>1. socket[s].of \in Services /\ service[socket[s].of].state = "live" /\ service[socket[s].of].ws = s
      BY <2>2, Owner
    <3>2. s # None
      BY DEF Sockets, None
    <3>3. QED BY <1>1, <2>2, <3>1, <3>2 DEF IsOpen
  <2>3. QED BY <2>1, <2>2
<1>3. QED BY <1>1, <1>2, Zenon DEF link

\* A step is a step of the link unless the link is up at once where there was none.
LEMMA LinkSteps ==
  ASSUME link \in {"gone", "down", "up"}, link' \in {"gone", "down", "up"},
         link' = "up" => link # "gone"
  PROVE  [Abstract!Next]_link
BY DEF Abstract!Next, Abstract!Want, Abstract!Establish, Abstract!Lose, Abstract!LetGo

\* No step opens the socket of a dashboard that is not shown or was refused.
LEMMA LinkStep == Inv /\ Inv' /\ [Next]_vars => [Abstract!Next]_link
<1> SUFFICES ASSUME Inv, Inv', [Next]_vars PROVE [Abstract!Next]_link
  OBVIOUS
<1>1. /\ link \in {"gone", "down", "up"}
      /\ link = "up" <=> \E s \in Sockets : socket[s].state = "open"
      /\ \A v \in Services : service[v].state = "live" /\ ~service[v].refused => link # "gone"
  BY LinkIs
<1>2. link' \in {"gone", "down", "up"} /\ (link' = "up" => \E s \in Sockets : socket'[s].state = "open")
  <2>1. link' \in {"gone", "down", "up"} /\ (link' = "up" => \E v \in Services : IsOpen(v)')
    BY DEF link, Live, Services
  <2>2. ASSUME NEW v \in Services, IsOpen(v)' PROVE \E s \in Sockets : socket'[s].state = "open"
    <3>1. service' \in [Services -> Service]
      BY DEF Inv, TypeOK, Services, Service, Sockets
    <3>2. service'[v].ws \in Sockets
      BY <2>2, <3>1 DEF IsOpen, Service
    <3>3. QED BY <2>2, <3>2 DEF IsOpen
  <2>3. QED BY <2>1, <2>2
<1>3. ASSUME link' = "up" PROVE link # "gone"
  <2>1. PICK s \in Sockets : socket'[s].state = "open"
    BY <1>2, <1>3
  <2>2. CASE \E t \in Sockets : Opens(t)
    <3>1. PICK t \in Sockets : Opens(t)
      BY <2>2
    <3>3. socket[t].state = "connecting"
      BY <3>1 DEF Opens
    <3>4. socket[t].of \in Services /\ service[socket[t].of].state = "live" /\ service[socket[t].of].ws = t
      BY <3>3, Owner
    <3>5. One(service[socket[t].of])
      BY <3>4, InvParts DEF Sound, Forward
    <3>6. t # None
      BY DEF Sockets, None
    <3>7. QED BY <1>1, <3>4, <3>5, <3>6 DEF One
  <2>3. CASE \A t \in Sockets : ~Opens(t)
    BY <1>1, <2>1, <2>3, OpensAlone DEF NoneOpened
  <2>4. QED BY <2>2, <2>3
<1>4. QED BY <1>1, <1>2, <1>3, LinkSteps

\* The dashboard's service implements a link that may be wanted again, up to its
\* liveness: however the page, the session and the sockets change, no connection comes
\* up that nobody was waiting for.
THEOREM LinkSafety == Spec => Abstract!Spec
<1>1. Init => Abstract!Init
  <2> SUFFICES ASSUME Init PROVE Abstract!Init
    OBVIOUS
  <2>1. \A v \in Services : service[v].state # "live"
    BY DEF Init, NoService
  <2>2. Live(State) = {}
    BY <2>1 DEF Live, State
  <2>3. link = "gone"
    BY <2>2, Zenon DEF link
  <2>4. QED BY <2>3 DEF Abstract!Init
<1>2. Inv /\ Inv' /\ [Next]_vars => [Abstract!Next]_link
  BY LinkStep
<1>3. QED BY Invariance, <1>1, <1>2, PTL DEF Spec, Abstract!Spec
=============================================================================
