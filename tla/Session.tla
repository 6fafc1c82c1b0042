------------------------------- MODULE Session -------------------------------
(***************************************************************************)
(* Registration, login and logout (server/src/routes/auth.ts), the hook    *)
(* that guards the REST API (server/src/plugins/auth.ts), and what the     *)
(* dashboard makes of their replies (client/src: services/http.ts,         *)
(* stores/use-auth-store.ts, App.tsx, components/auth-page.tsx and         *)
(* header.tsx).                                                            *)
(*                                                                         *)
(* Each tab has at most one request of each kind under way: its form, one  *)
(* request to a guarded route, and one logout.  An awaited query is one    *)
(* step, Node's continuation another, the browser's a third.  Passwords    *)
(* are right or wrong, signatures verify, and input passes validateInput(),*)
(* whose refusal is like any other reply without effect.                   *)
(***************************************************************************)
EXTENDS Integers, Sequences, FiniteSets

CONSTANTS
  Tabs,     (* tabs of the dashboard, each loaded once                        *)
  Browsers, (* devices: tabs of one browser share its localStorage            *)
  Emails,   (* addresses that may be entered                                  *)
  None,     (* no token: NULL, or no item in localStorage                     *)
  Lifetime, (* expiresIn, in seconds                                          *)
  Faults,   (* whether a query may fail and a reply may be lost               *)
  MaxNow,   (* bound: seconds that pass                                       *)
  MaxForms, (* bound: forms that are submitted                                *)
  MaxRequests (* bound: requests under way, of all tabs                       *)

ASSUME SessionAssumption ==
  /\ Lifetime \in Nat /\ MaxNow \in Nat /\ MaxForms \in Nat /\ MaxRequests \in Nat
  /\ Faults \in BOOLEAN

VARIABLES
  now,        (* seconds since the start                                      *)
  users,      (* addresses with a row in users                                *)
  stored,     (* users.token of each of them                                  *)
  home,       (* the browser of each tab                                      *)
  local,      (* localStorage.reqtrace_token of each browser                  *)
  tabToken,   (* useAuthStore.token of each tab                               *)
  events,     (* storage events the tab has not handled                       *)
  page,       (* App: not opened, or authEnabled is false (open) or true (auth)*)
  registered, (* useAuthStore.registered                                      *)
  req,        (* requests under way, by tab and kind                          *)
  forms,      (* forms submitted so far                                       *)
  issued,     (* history: tokens that were in users.token                     *)
  seen        (* history: what was so of the tab's guarded request and its    *)
              (* token since it was sent                                      *)

serverVars == <<users, stored>>
tabVars    == <<local, tabToken, events>>
pageVars   == <<home, page, registered>>
vars == <<now, serverVars, pageVars, tabVars, req, forms, issued, seen>>

\* app.jwt.sign({ email }): its claims are the address and the second it was
\* made in, and nothing else, so the same second gives the same token.
Sign(e) == [email |-> e, second |-> now]
Token   == [email : Emails, second : Nat]

Kinds     == {"form", "guarded", "logout"}
NoRequest == [pc |-> "none", email |-> None, good |-> FALSE,
              token |-> None, answer |-> None, status |-> 0]

\* There is no account, or one, whose last session may have ended, have been
\* replaced or go on in some browsers.
Init ==
  /\ now = 0 /\ forms = 0
  /\ home \in [Tabs -> Browsers]
  /\ users \in {{}} \cup {{e} : e \in Emails}
  /\ issued = {Sign(e) : e \in users}
  /\ \E s \in issued \cup {None} :
       stored = [e \in Emails |-> IF e \in users THEN s ELSE None]
  /\ local \in [Browsers -> issued \cup {None}]
  /\ tabToken = [t \in Tabs |-> None]
  /\ events = [t \in Tabs |-> <<>>]
  /\ page = [t \in Tabs |-> "closed"]
  /\ registered = [t \in Tabs |-> FALSE]
  /\ req = [t \in Tabs |-> [k \in Kinds |-> NoRequest]]
  /\ seen = [t \in Tabs |-> {}]

-----------------------------------------------------------------------------
(* The server.                                                             *)

At(t, k, pc) == req[t][k].pc = pc
Goes(t, k, pc) == req' = [req EXCEPT ![t][k].pc = pc]
Replies(t, k, status) ==
  req' = [req EXCEPT ![t][k] = [NoRequest EXCEPT
    !.pc = "reply", !.status = status,
    !.token = IF k = "form" /\ status = 200 THEN req[t][k].token ELSE None]]

\* jwtVerify(): there is a token and it has not expired.
Verifies(token) == token # None /\ now - token.second <= Lifetime

Stored(token) == token # None /\ stored[token.email] = token

\* What the hook means to find out.
Good(token) == Verifies(token) /\ Stored(token)

\* SELECT password_hash, and the comparison; the token is signed after it.
LoginChecked(t) ==
  LET r == req[t]["form"] IN
  /\ At(t, "form", "login")
  /\ \/ /\ r.good /\ r.email \in users
        /\ req' = [req EXCEPT ![t]["form"].pc = "store", ![t]["form"].token = Sign(r.email)]
     \/ (~r.good \/ r.email \notin users) /\ Replies(t, "form", 401)
     \/ Faults /\ Replies(t, "form", 500)
  /\ UNCHANGED serverVars

\* UPDATE users SET token, whose answer may get lost.
LoginStored(t) ==
  LET r == req[t]["form"] IN
  /\ At(t, "form", "store")
  /\ \/ /\ stored' = [stored EXCEPT ![r.email] = r.token]
        /\ Replies(t, "form", 200) \/ (Faults /\ Replies(t, "form", 500))
     \/ Faults /\ Replies(t, "form", 500) /\ UNCHANGED stored
  /\ UNCHANGED users

\* The password is hashed, then the token signed.
RegisterHashed(t) ==
  /\ At(t, "form", "register")
  /\ req' = [req EXCEPT ![t]["form"].pc = "count",
                        ![t]["form"].token = Sign(req[t]["form"].email)]
  /\ UNCHANGED serverVars

\* Mutant of RegisterCounted: rowCount is not looked at.
RowCountIgnored(t) ==
  /\ At(t, "form", "count")
  /\ IF users = {} THEN Goes(t, "form", "insert") ELSE Replies(t, "form", 200)
  /\ UNCHANGED serverVars

\* Mutant of RegisterCounted: a status the dashboard does not know.
ClosedAsConflict(t) ==
  /\ At(t, "form", "count")
  /\ IF users = {} THEN Goes(t, "form", "insert") ELSE Replies(t, "form", 409)
  /\ UNCHANGED serverVars

\* The INSERT starts: its snapshot decides whether there are users (READ COMMITTED).
RegisterCounted(t) ==
  /\ At(t, "form", "count")
  /\ \/ users = {} /\ Goes(t, "form", "insert")
     \/ users # {} /\ Replies(t, "form", 403)
     \/ Faults /\ Replies(t, "form", 500)
  /\ UNCHANGED serverVars

\* It inserts its row, unless the address is taken (UNIQUE), and commits.
RegisterInserted(t) ==
  LET r == req[t]["form"] IN
  /\ At(t, "form", "insert")
  /\ \/ /\ r.email \notin users
        /\ users' = users \cup {r.email}
        /\ stored' = [stored EXCEPT ![r.email] = r.token]
        /\ Replies(t, "form", 200) \/ (Faults /\ Replies(t, "form", 500))
     \/ /\ r.email \in users \/ Faults
        /\ Replies(t, "form", 500) /\ UNCHANGED serverVars

\* The hook, and in the same way the logout route, verifies the token.
Verified(t, k) ==
  /\ At(t, k, "verify")
  /\ IF Verifies(req[t][k].token) THEN Goes(t, k, "select") ELSE Replies(t, k, 401)
  /\ UNCHANGED serverVars

\* SELECT token FROM users; when it fails the answer is 401 too.
Selected(t, k) ==
  /\ At(t, k, "select")
  /\ \/ req' = [req EXCEPT ![t][k].pc = "compare",
                           ![t][k].answer = stored[req[t][k].token.email]]
     \/ Faults /\ Replies(t, k, 401)
  /\ UNCHANGED serverVars

\* Mutant of Compared: a row is enough.
RowIsEnough(t, k) ==
  /\ At(t, k, "compare")
  /\ IF k = "logout" THEN Goes(t, k, "update") ELSE Replies(t, k, 200)
  /\ UNCHANGED serverVars

\* The answer is compared; a guarded route is then served, logout goes on.
Compared(t, k) ==
  /\ At(t, k, "compare")
  /\ IF req[t][k].answer # req[t][k].token THEN Replies(t, k, 401)
     ELSE IF k = "logout" THEN Goes(t, k, "update") ELSE Replies(t, k, 200)
  /\ UNCHANGED serverVars

\* UPDATE users SET token = NULL, whichever token it finds.
LogoutStored(t) ==
  LET e == req[t]["logout"].token.email IN
  /\ At(t, "logout", "update")
  /\ \/ /\ stored' = [stored EXCEPT ![e] = None]
        /\ Replies(t, "logout", 200) \/ (Faults /\ Replies(t, "logout", 401))
     \/ Faults /\ Replies(t, "logout", 401) /\ UNCHANGED stored
  /\ UNCHANGED users

ServerStep(t) ==
  /\ \/ LoginChecked(t) \/ LoginStored(t)
     \/ RegisterHashed(t) \/ RegisterCounted(t) \/ RegisterInserted(t)
     \/ \E k \in {"guarded", "logout"} : Verified(t, k) \/ Selected(t, k) \/ Compared(t, k)
     \/ LogoutStored(t)
  /\ UNCHANGED <<now, pageVars, tabVars, forms>>

-----------------------------------------------------------------------------
(* The dashboard.                                                          *)

AuthPage(t)  == page[t] = "auth" /\ tabToken[t] = None
Dashboard(t) == page[t] = "open" \/ (page[t] = "auth" /\ tabToken[t] # None)

\* The tab is opened: it takes the token of the browser and asks for the status; a
\* query that fails is taken for a server without auth.
Open(t) ==
  /\ page[t] = "closed"
  /\ tabToken' = [tabToken EXCEPT ![t] = local[home[t]]]
  /\ \/ /\ page' = [page EXCEPT ![t] = "auth"]
        /\ registered' = [registered EXCEPT ![t] = users # {}]
     \/ Faults /\ page' = [page EXCEPT ![t] = "open"] /\ UNCHANGED registered
  /\ UNCHANGED <<now, serverVars, home, local, events, req, forms>>

\* setToken() and logout(): the other tabs of the browser get an event if the item
\* changes.
SetToken(t, value) ==
  /\ local' = [local EXCEPT ![home[t]] = value]
  /\ tabToken' = [tabToken EXCEPT ![t] = value]
  /\ events' = [u \in Tabs |->
       IF u # t /\ page[u] # "closed" /\ home[u] = home[t] /\ local[home[t]] # value
       THEN Append(events[u], value) ELSE events[u]]

StorageEvent(t) ==
  /\ events[t] # <<>>
  /\ tabToken' = [tabToken EXCEPT ![t] = Head(events[t])]
  /\ events' = [events EXCEPT ![t] = Tail(@)]
  /\ UNCHANGED <<now, serverVars, pageVars, local, req, forms>>

MaySend ==
  Cardinality({p \in Tabs \X Kinds : ~At(p[1], p[2], "none")}) < MaxRequests

\* The form signs in, with a right or a wrong password, or registers, as the page
\* learnt when it was loaded.
Submit(t) ==
  /\ AuthPage(t) /\ At(t, "form", "none") /\ forms < MaxForms /\ MaySend
  /\ forms' = forms + 1
  /\ \E e \in Emails, good \in BOOLEAN :
       req' = [req EXCEPT ![t]["form"] = [NoRequest EXCEPT
         !.pc = IF registered[t] THEN "login" ELSE "register", !.email = e,
         !.good = registered[t] /\ good]]
  /\ UNCHANGED <<now, serverVars, pageVars, tabVars>>

\* get(), post() or del() of a guarded route, with the token of the browser.
Ask(t) ==
  /\ Dashboard(t) /\ At(t, "guarded", "none") /\ MaySend
  /\ req' = [req EXCEPT ![t]["guarded"] = [NoRequest EXCEPT
       !.pc = "verify", !.token = local[home[t]]]]
  /\ UNCHANGED <<now, serverVars, pageVars, tabVars, forms>>

\* handleLogout(): the request is sent, and the token forgotten without waiting.
SignOut(t) ==
  /\ Dashboard(t) /\ tabToken[t] # None /\ At(t, "logout", "none") /\ MaySend
  /\ req' = [req EXCEPT ![t]["logout"] = [NoRequest EXCEPT
       !.pc = "verify", !.token = local[home[t]]]]
  /\ SetToken(t, None)
  /\ UNCHANGED <<now, serverVars, pageVars, forms>>

\* Mutant of Received: 401 is an error like others.
ReceivedAsError(t, k) ==
  /\ At(t, k, "reply")
  /\ req' = [req EXCEPT ![t][k] = NoRequest]
  /\ IF k = "form" /\ req[t][k].status = 200
     THEN SetToken(t, req[t][k].token)
     ELSE UNCHANGED tabVars
  /\ UNCHANGED <<now, serverVars, pageVars, forms>>

\* The reply arrives: any 401 logs out, also one that refuses a password.
Received(t, k) ==
  /\ At(t, k, "reply")
  /\ req' = [req EXCEPT ![t][k] = NoRequest]
  /\ \/ /\ req[t][k].status = 401
        /\ SetToken(t, None)
     \/ /\ req[t][k].status = 200 /\ k = "form"
        /\ SetToken(t, req[t][k].token)
     \/ /\ req[t][k].status # 401 /\ ~(req[t][k].status = 200 /\ k = "form")
        /\ UNCHANGED tabVars
  /\ UNCHANGED <<now, serverVars, pageVars, forms>>

\* The connection breaks, or the request is aborted.
ReplyLost(t, k) ==
  /\ Faults /\ At(t, k, "reply")
  /\ req' = [req EXCEPT ![t][k] = NoRequest]
  /\ UNCHANGED <<now, serverVars, pageVars, tabVars, forms>>

Tick ==
  /\ now < MaxNow /\ now' = now + 1
  /\ UNCHANGED <<serverVars, pageVars, tabVars, req, forms>>

-----------------------------------------------------------------------------
Step ==
  \/ Tick
  \/ \E t \in Tabs :
       \/ ServerStep(t)
       \/ Open(t) \/ StorageEvent(t) \/ Submit(t) \/ Ask(t) \/ SignOut(t)
       \/ \E k \in Kinds : Received(t, k) \/ ReplyLost(t, k)

\* What is so of a token; one that is missing is neither stored nor valid.
FactsOf(token) == {IF Stored(token) THEN "stored" ELSE "ended",
                   IF Verifies(token) THEN "valid" ELSE "expired"}

\* The history variables watch every step: the token at each moment until the verdict,
\* and a guarded request that is refused by the failure of its query.
Watch ==
  /\ issued' = issued \cup ({stored'[e] : e \in Emails} \ {None})
  /\ seen' = [t \in Tabs |->
       IF At(t, "guarded", "none")' THEN {}
       ELSE IF At(t, "guarded", "reply")'
       THEN seen[t] \cup {fault \in {"failed"} : At(t, "guarded", "select")}
       ELSE seen[t] \cup FactsOf(req[t]["guarded"].token)']

Next == Step /\ Watch

Spec == Init /\ [][Next]_vars

\* The server answers, replies arrive, and the dashboard asks again and again (its
\* polls): of the replies to these some arrive.
Fairness ==
  \A t \in Tabs :
    /\ WF_vars(ServerStep(t) /\ Watch)
    /\ SF_vars(Ask(t) /\ Watch) /\ SF_vars(Received(t, "guarded") /\ Watch)
    /\ WF_vars((\E k \in Kinds : Received(t, k)) /\ Watch)

FairSpec == Spec /\ Fairness

-----------------------------------------------------------------------------
(* Properties.                                                             *)

Maybe(S) == S \cup {None}
Request == [pc : {"none", "login", "store", "register", "count", "insert", "verify",
                  "select", "compare", "update", "reply"},
            email : Maybe(Emails), good : BOOLEAN, token : Maybe(Token),
            answer : Maybe(Token), status : {0, 200, 401, 403, 500}]
Facts == {"stored", "ended", "valid", "expired", "failed"}
TypeOK ==
  /\ now \in Nat /\ forms \in Nat
  /\ users \in SUBSET Emails /\ stored \in [Emails -> Maybe(Token)]
  /\ home \in [Tabs -> Browsers] /\ local \in [Browsers -> Maybe(Token)]
  /\ tabToken \in [Tabs -> Maybe(Token)] /\ events \in [Tabs -> Seq(Maybe(Token))]
  /\ page \in [Tabs -> {"closed", "open", "auth"}] /\ registered \in [Tabs -> BOOLEAN]
  /\ req \in [Tabs -> [Kinds -> Request]]
  /\ issued \in SUBSET Token /\ seen \in [Tabs -> SUBSET Facts]

\* The hook verifies the token, reads the stored one and compares later, when it may
\* have been replaced: still what it decides was true at some moment of this request.  It
\* serves only a token that, since it was sent, was valid and was the stored one, and
\* refuses only one that had expired or was not the stored one, or when this request's
\* own query failed, which it takes for a refusal.
VerdictWasTrue ==
  \A t \in Tabs :
    LET r == req[t]["guarded"] IN
    r.pc = "reply" => /\ r.status = 200 => {"stored", "valid"} \subseteq seen[t]
                      /\ r.status = 401 => seen[t] \cap {"ended", "expired", "failed"} # {}

\* A browser is given no token that was not stored first: a refused registration, or
\* a failed UPDATE, leaves it without one, never with one that is refused later.
GivenWasStored ==
  \A t \in Tabs :
    \A token \in {local[home[t]], tabToken[t]}
                \cup {events[t][i] : i \in DOMAIN events[t]} :
      token # None => token \in issued

\* A tab that shows the dashboard without a good token, because the session expired,
\* was replaced from another device or ended in another tab, comes back to the
\* sign-in page, or to a good token.
BadTokenOut ==
  \A t \in Tabs :
    /\ page[t] = "auth" /\ tabToken[t] # None /\ ~Good(local[home[t]])
    ~> tabToken[t] = None \/ Good(local[home[t]])
=============================================================================
