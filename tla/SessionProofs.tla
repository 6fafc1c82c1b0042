---------------------------- MODULE SessionProofs ----------------------------
(***************************************************************************)
(* Proofs about Session, for any tabs, browsers, addresses, lifetimes and  *)
(* bounds.  Inv is inductive: besides the types it says which phases a     *)
(* request of each kind goes through and what it carries then (Shaped),    *)
(* that what a browser holds, or is about to receive, was stored (Held,    *)
(* Carries), and what the watch has seen by the time a guarded request     *)
(* reaches each phase (Justified): whether its token is valid while that   *)
(* is to be verified, that it was once it is, and whether the answer that  *)
(* is to be compared was its token at the moment it was read.              *)
(***************************************************************************)
EXTENDS Session, SequenceTheorems, TLAPS

\* What a request of kind k is, phase by phase.
Shaped(k, r) ==
  /\ r \in Request
  /\ k = "form" =>
       /\ r.pc \in {"none", "login", "store", "register", "count", "insert", "reply"}
       /\ r.pc \in {"login", "store", "register", "count", "insert"} => r.email \in Emails
       /\ r.pc \in {"store", "count", "insert"} => r.token \in Token
  /\ k # "form" =>
       /\ r.pc \in {"none", "verify", "select", "compare", "update", "reply"}
       /\ r.pc \in {"select", "compare", "update"} => r.token \in Token /\ r.token # None

\* A token that was stored at some time, or none.
Given == issued \cup {None}

\* A reply to the form that sets a token carries one that was stored.
Carries(k, r, given) == k = "form" /\ r.pc = "reply" /\ r.status = 200 => r.token \in given

\* What is so of a token when the accounts are st, at n.
Valid(token, n) == token # None /\ n - token.second <= Lifetime
FactsAt(token, st, n) ==
  {IF token # None /\ st[token.email] = token THEN "stored" ELSE "ended",
   IF Valid(token, n) THEN "valid" ELSE "expired"}

\* What was seen, s, by the time a guarded request has come to r, at n.
Justified(k, r, s, n) ==
  k = "guarded" =>
    /\ r.pc = "verify" => (IF Valid(r.token, n) THEN "valid" ELSE "expired") \in s
    /\ r.pc \in {"select", "compare"} => "valid" \in s
    /\ r.pc = "compare" /\ r.answer = r.token => "stored" \in s
    /\ r.pc = "compare" /\ r.answer # r.token => "ended" \in s
    /\ r.pc = "reply" /\ r.status = 200 => "stored" \in s /\ "valid" \in s
    /\ r.pc = "reply" /\ r.status = 401 => "ended" \in s \/ "expired" \in s \/ "failed" \in s

\* Any request, given what was issued, seen and the time.
Sound(k, r, given, s, n) == Shaped(k, r) /\ Carries(k, r, given) /\ Justified(k, r, s, n)

Held == /\ local \in [Browsers -> Given] /\ tabToken \in [Tabs -> Given]
        /\ events \in [Tabs -> Seq(Given)]
Inv == /\ TypeOK /\ Held
       /\ \A t \in Tabs, k \in Kinds : Sound(k, req[t][k], Given, seen[t], now)

\* What the watch makes of s while the guarded request of a tab comes from phase pc to r,
\* the accounts to st and the time to n.
Seen(pc, r, s, st, n) ==
  IF r.pc = "none" THEN {}
  ELSE IF r.pc = "reply" THEN s \cup {fault \in {"failed"} : pc = "select"}
  ELSE s \cup FactsAt(r.token, st, n)

\* Request k of tab t goes on, and is sound afterwards.
GoesOn(t, k, r, given, st, n) ==
  /\ Shaped(k, r) /\ Carries(k, r, given)
  /\ Justified(k, r, Seen(req[t][k].pc, r, seen[t], st, n), n)
  /\ req' = [req EXCEPT ![t][k] = r]

-----------------------------------------------------------------------------
(* The parts of a step that all steps share.                               *)

\* One request is replaced, the others stay.
LEMMA PutOne ==
  ASSUME req \in [Tabs -> [Kinds -> Request]], NEW t \in Tabs, NEW k \in Kinds,
         NEW r \in Request, req' = [req EXCEPT ![t][k] = r]
  PROVE /\ req' \in [Tabs -> [Kinds -> Request]]
        /\ req'[t][k] = r
        /\ \A u \in Tabs, j \in Kinds : u # t \/ j # k => req'[u][j] = req[u][j]
  OBVIOUS

\* A request with another phase and token.
LEMMA WithToken ==
  ASSUME NEW q \in Request, NEW pc, NEW x
  PROVE [q EXCEPT !.pc = pc, !.token = x]
          = [pc |-> pc, email |-> q.email, good |-> q.good, token |-> x,
             answer |-> q.answer, status |-> q.status]
<1> DEFINE q1 == [pc |-> pc, email |-> q.email, good |-> q.good, token |-> q.token,
                  answer |-> q.answer, status |-> q.status]
<1>1. [q EXCEPT !.pc = pc] = q1  BY DEF Request
<1>2. [q EXCEPT !.pc = pc, !.token = x] = [[q EXCEPT !.pc = pc] EXCEPT !.token = x]
  OBVIOUS
<1>3. [q1 EXCEPT !.token = x]
        = [pc |-> pc, email |-> q.email, good |-> q.good, token |-> x,
             answer |-> q.answer, status |-> q.status]
  OBVIOUS
<1> HIDE DEF q1
<1> QED BY <1>1, <1>2, <1>3, Zenon

\* A request with another phase and answer.
LEMMA WithAnswer ==
  ASSUME NEW q \in Request, NEW pc, NEW x
  PROVE [q EXCEPT !.pc = pc, !.answer = x]
          = [pc |-> pc, email |-> q.email, good |-> q.good, token |-> q.token,
             answer |-> x, status |-> q.status]
<1> DEFINE q1 == [pc |-> pc, email |-> q.email, good |-> q.good, token |-> q.token,
                  answer |-> q.answer, status |-> q.status]
<1>1. [q EXCEPT !.pc = pc] = q1  BY DEF Request
<1>2. [q EXCEPT !.pc = pc, !.answer = x] = [[q EXCEPT !.pc = pc] EXCEPT !.answer = x]
  OBVIOUS
<1>3. [q1 EXCEPT !.answer = x]
        = [pc |-> pc, email |-> q.email, good |-> q.good, token |-> q.token,
             answer |-> x, status |-> q.status]
  OBVIOUS
<1> HIDE DEF q1
<1> QED BY <1>1, <1>2, <1>3, Zenon

\* A request with another phase, status and token.
LEMMA WithStatus ==
  ASSUME NEW q \in Request, NEW pc, NEW status, NEW x
  PROVE [q EXCEPT !.pc = pc, !.status = status, !.token = x]
          = [pc |-> pc, email |-> q.email, good |-> q.good, token |-> x,
             answer |-> q.answer, status |-> status]
<1> DEFINE q1 == [pc |-> pc, email |-> q.email, good |-> q.good, token |-> q.token,
                  answer |-> q.answer, status |-> q.status]
           q2 == [pc |-> pc, email |-> q.email, good |-> q.good, token |-> q.token,
                  answer |-> q.answer, status |-> status]
<1>1. [q EXCEPT !.pc = pc] = q1  BY DEF Request
<1>2. [q1 EXCEPT !.status = status] = q2  OBVIOUS
<1>3. [q2 EXCEPT !.token = x]
        = [pc |-> pc, email |-> q.email, good |-> q.good, token |-> x,
           answer |-> q.answer, status |-> status]
  OBVIOUS
<1>4. [q EXCEPT !.pc = pc, !.status = status, !.token = x]
        = [[[q EXCEPT !.pc = pc] EXCEPT !.status = status] EXCEPT !.token = x]
  OBVIOUS
<1> HIDE DEF q1, q2
<1> QED BY <1>1, <1>2, <1>3, <1>4, Zenon

\* The record of a reply.
LEMMA Blank ==
  ASSUME NEW status, NEW tok
  PROVE [NoRequest EXCEPT !.pc = "reply", !.status = status, !.token = tok]
          = [pc |-> "reply", email |-> None, good |-> FALSE, token |-> tok,
             answer |-> None, status |-> status]
<1>1. NoRequest \in Request  BY DEF NoRequest, Request, Maybe
<1>2. NoRequest.email = None /\ NoRequest.good = FALSE /\ NoRequest.answer = None
  BY DEF NoRequest
<1>3. [NoRequest EXCEPT !.pc = "reply", !.status = status, !.token = tok]
        = [pc |-> "reply", email |-> NoRequest.email, good |-> NoRequest.good, token |-> tok,
           answer |-> NoRequest.answer, status |-> status]
  BY <1>1, WithStatus, Zenon
<1> QED BY <1>2, <1>3, Zenon

\* What the watch saw are facts.
LEMMA SeenType ==
  ASSUME NEW pc, NEW r, NEW s \in SUBSET Facts, NEW st, NEW n
  PROVE Seen(pc, r, s, st, n) \in SUBSET Facts
<1>1. FactsAt(r.token, st, n) \subseteq Facts  BY DEF FactsAt, Facts
<1>2. {fault \in {"failed"} : pc = "select"} \subseteq Facts  BY DEF Facts
<1> QED BY <1>1, <1>2 DEF Seen

\* A request that does not move stays sound: the watch only adds to what was seen, and
\* what was given was stored.
LEMMA SoundStays ==
  ASSUME NEW k \in Kinds, NEW pc, NEW r, NEW given, NEW now2, NEW n, NEW s,
         NEW st, NEW given2, Sound(k, r, given, s, n), given \subseteq given2
  PROVE Sound(k, r, given2, IF k = "guarded" THEN Seen(pc, r, s, st, now2) ELSE s, now2)
<1>1. Shaped(k, r) /\ Carries(k, r, given2)  BY DEF Sound, Carries
<1>2. CASE k # "guarded"  BY <1>1, <1>2 DEF Sound, Justified
<1>3. CASE k = "guarded"
  <2>1. r.pc # "none" => s \subseteq Seen(pc, r, s, st, now2)  BY DEF Seen
  <2>2. r.pc = "verify" => (IF Valid(r.token, now2) THEN "valid" ELSE "expired")
                             \in Seen(pc, r, s, st, now2)
    BY DEF Seen, FactsAt
  <2>3. Justified(k, r, s, n)  BY DEF Sound
  <2>4. Justified(k, r, Seen(pc, r, s, st, now2), now2)
    <3> DEFINE v == Seen(pc, r, s, st, now2)
               w == IF Valid(r.token, now2) THEN "valid" ELSE "expired"
    <3>1. r.pc = "verify" => w \in v  BY <2>2
    <3>2. r.pc # "none" => \A x : x \in s => x \in v  BY <2>1
    <3> HIDE DEF v, w
    <3>3. CASE r.pc = "verify"  BY <1>3, <3>1, <3>3 DEF Justified, v, w
    <3>4. CASE r.pc \in {"select", "compare", "reply"}
      <4>1. r.pc # "none" /\ r.pc # "verify"  BY <3>4
      <4> QED BY <1>3, <2>3, <3>2, <4>1, Zenon DEF Justified, v
    <3>5. CASE r.pc \notin {"verify", "select", "compare", "reply"}
      BY <1>3, <3>5 DEF Justified, v
    <3> QED BY <3>3, <3>4, <3>5
  <2> QED BY <1>1, <1>3, <2>4 DEF Sound
<1> QED BY <1>2, <1>3

-----------------------------------------------------------------------------
(* One lemma for each step of the server: the request that moves is sound  *)
(* afterwards.                                                             *)

\* What moves, in a step of the server that leaves time alone.
Moves(t, k) == \E r \in Request : GoesOn(t, k, r, Given', stored', now)

\* The reasons a reply of each status needs.
Deserved(t, k, status) ==
  /\ status \in {200, 401, 403, 500}
  /\ k = "form" /\ status = 200 => req[t][k].token \in Given'
  /\ k = "guarded" /\ status = 200 => "stored" \in seen[t] /\ "valid" \in seen[t]
  /\ k = "guarded" /\ status = 401 =>
       "ended" \in seen[t] \/ "expired" \in seen[t] \/ At(t, k, "select")

\* A reply that is deserved is sound.
LEMMA Replying ==
  ASSUME NEW t, NEW k \in Kinds, NEW status, req[t][k] \in Request,
         Deserved(t, k, status), Replies(t, k, status)
  PROVE Moves(t, k)
<1> DEFINE tok == IF k = "form" /\ status = 200 THEN req[t][k].token ELSE None
           r   == [pc |-> "reply", email |-> None, good |-> FALSE, token |-> tok,
                   answer |-> None, status |-> status]
<1>1. req' = [req EXCEPT ![t][k] = r]
  <2>1. req' = [req EXCEPT ![t][k] =
          [NoRequest EXCEPT !.pc = "reply", !.status = status, !.token = tok]]
    BY Zenon DEF Replies
  <2> HIDE DEF tok
  <2> QED BY <2>1, Blank, Zenon
<1>2. tok \in Maybe(Token)  BY DEF Request, Maybe
<1>3. status \in {0, 200, 401, 403, 500}  BY DEF Deserved
<1> HIDE DEF tok
<1>4. r \in Request  BY <1>2, <1>3 DEF Request, Maybe
<1>5. Shaped(k, r)  BY <1>4 DEF Shaped
<1>6. k = "form" /\ status = 200 => tok \in Given'  BY DEF Deserved, tok
<1>7. Carries(k, r, Given')  BY <1>6 DEF Carries
<1>8. Justified(k, r, Seen(req[t][k].pc, r, seen[t], stored', now), now)
  <2> DEFINE pc == req[t][k].pc
             v == Seen(pc, r, seen[t], stored', now)
  <2>1. v = seen[t] \cup {fault \in {"failed"} : pc = "select"}  BY DEF Seen
  <2>2. seen[t] \subseteq v /\ (pc = "select" => "failed" \in v)  BY <2>1
  <2>3. r.pc = "reply" /\ r.status = status  OBVIOUS
  <2>4. r.pc # "verify" /\ r.pc \notin {"select", "compare"}  OBVIOUS
  <2> HIDE DEF r, v
  <2>5. k = "guarded" /\ status = 200 => "stored" \in v /\ "valid" \in v
    BY <2>2 DEF Deserved
  <2>6. k = "guarded" /\ status = 401 => "ended" \in v \/ "expired" \in v \/ "failed" \in v
    BY <2>2 DEF Deserved, At
  <2>7. Justified(k, r, v, now)  BY <2>3, <2>4, <2>5, <2>6 DEF Justified
  <2> QED BY <2>7 DEF v
<1> HIDE DEF r
<1> QED BY <1>1, <1>4, <1>5, <1>7, <1>8 DEF GoesOn, Moves

\* What a step of the server finds in the request that moves.
Found(t, k) == t \in Tabs /\ k \in Kinds /\ TypeOK /\ Sound(k, req[t][k], Given, seen[t], now)

\* The request it finds is a request.
LEMMA FoundRequest ==
  ASSUME NEW t, NEW k, Found(t, k)
  PROVE req[t][k] \in Request /\ Shaped(k, req[t][k])
  BY DEF Found, Sound, Shaped

\* A request of the form that goes on, with a token it will be given.
LEMMA FormGoes ==
  ASSUME NEW t, NEW pc \in {"store", "count", "insert"}, NEW token \in Token,
         Found(t, "form"), req[t]["form"].email \in Emails,
         req' = [req EXCEPT ![t]["form"] = [req[t]["form"] EXCEPT !.pc = pc, !.token = token]]
  PROVE Moves(t, "form")
<1> DEFINE q == req[t]["form"]
           r == [pc |-> pc, email |-> q.email, good |-> q.good, token |-> token,
                 answer |-> q.answer, status |-> q.status]
<1>1. q \in Request  BY FoundRequest
<1>2. [q EXCEPT !.pc = pc, !.token = token] = r  BY <1>1, WithToken, Zenon
<1>3. req' = [req EXCEPT ![t]["form"] = r]  BY <1>2, Zenon
<1> HIDE DEF q
<1>4. r \in Request  BY <1>1 DEF Request, Maybe
<1>5. Shaped("form", r)  BY <1>4 DEF Shaped, q
<1>6. Carries("form", r, Given')
      /\ Justified("form", r, Seen(req[t]["form"].pc, r, seen[t], stored', now), now)
  BY DEF Carries, Justified
<1> HIDE DEF r
<1> QED BY <1>3, <1>4, <1>5, <1>6 DEF GoesOn, Moves

\* What a request of the other kinds needs to go on with the answer a.
MayGo(t, k, pc, a) ==
  /\ k \in {"guarded", "logout"} /\ pc \in {"select", "compare", "update"}
  /\ k = "guarded" => pc # "update"
  /\ req[t][k].token \in Token /\ req[t][k].token # None /\ a \in Maybe(Token)
  /\ pc = "compare" => a = stored'[req[t][k].token.email]
  /\ k = "guarded" => "valid" \in seen[t]

\* A request of the other kinds that goes on, with its token and the answer a.
LEMMA TokenGoes ==
  ASSUME NEW t, NEW k, NEW pc, NEW a, Found(t, k), MayGo(t, k, pc, a),
         req' = [req EXCEPT ![t][k] = [req[t][k] EXCEPT !.pc = pc, !.answer = a]]
  PROVE Moves(t, k)
<1> DEFINE q == req[t][k]
           r == [pc |-> pc, email |-> q.email, good |-> q.good, token |-> q.token,
                 answer |-> a, status |-> q.status]
<1>1. q \in Request  BY FoundRequest
<1>2. [q EXCEPT !.pc = pc, !.answer = a] = r  BY <1>1, WithAnswer, Zenon
<1>3. /\ q.token \in Token /\ q.token # None /\ a \in Maybe(Token)
      /\ k \in {"guarded", "logout"} /\ pc \in {"select", "compare", "update"}
      /\ k = "guarded" => pc # "update"
  BY DEF MayGo
<1>4. pc = "compare" => a = stored'[q.token.email]  BY DEF MayGo
<1>5. req' = [req EXCEPT ![t][k] = r]  BY <1>2, Zenon
<1> HIDE DEF q
<1>6. r \in Request  BY <1>1, <1>3 DEF Request, Maybe
<1>7. Shaped(k, r)  BY <1>3, <1>6 DEF Shaped
<1>8. Carries(k, r, Given')  BY <1>3 DEF Carries
<1>9. r.pc \notin {"none", "verify", "reply"} /\ r.token # None
      /\ (k = "guarded" => "valid" \in seen[t])
  BY <1>3 DEF MayGo
<1>10. r.pc = "compare" => r.answer = stored'[r.token.email]  BY <1>4
<1> HIDE DEF r
<1>11. Justified(k, r, Seen(req[t][k].pc, r, seen[t], stored', now), now)
  <2> DEFINE v == Seen(req[t][k].pc, r, seen[t], stored', now)
  <2>1. v = seen[t] \cup FactsAt(r.token, stored', now)  BY <1>9 DEF Seen
  <2>2. r.pc = "compare" /\ r.answer = r.token => "stored" \in v
    BY <1>9, <1>10, <2>1 DEF FactsAt
  <2>3. r.pc = "compare" /\ r.answer # r.token => "ended" \in v
    BY <1>9, <1>10, <2>1 DEF FactsAt
  <2>4. k = "guarded" => "valid" \in v  BY <1>9, <2>1
  <2> QED BY <1>9, <2>2, <2>3, <2>4, Zenon DEF Justified, v
<1> QED BY <1>5, <1>6, <1>7, <1>8, <1>11 DEF GoesOn, Moves

\* A request whose phase alone changes.
LEMMA PhaseOnly ==
  ASSUME NEW q \in Request, NEW pc
  PROVE /\ [q EXCEPT !.pc = pc] = [q EXCEPT !.pc = pc, !.token = q.token]
        /\ [q EXCEPT !.pc = pc] = [q EXCEPT !.pc = pc, !.answer = q.answer]
<1>1. [q EXCEPT !.pc = pc]
        = [pc |-> pc, email |-> q.email, good |-> q.good, token |-> q.token,
           answer |-> q.answer, status |-> q.status]
  BY DEF Request
<1>2. [q EXCEPT !.pc = pc, !.token = q.token]
        = [pc |-> pc, email |-> q.email, good |-> q.good, token |-> q.token,
           answer |-> q.answer, status |-> q.status]
  BY WithToken, Zenon
<1>3. [q EXCEPT !.pc = pc, !.answer = q.answer]
        = [pc |-> pc, email |-> q.email, good |-> q.good, token |-> q.token,
           answer |-> q.answer, status |-> q.status]
  BY WithAnswer, Zenon
<1> QED BY <1>1, <1>2, <1>3, Zenon

\* A token that is signed for an address is a token.
LEMMA Signed ==
  ASSUME now \in Nat, NEW e \in Emails
  PROVE Sign(e) \in Token
  BY DEF Sign, Token

\* LoginChecked.
LEMMA LoginCheckedMoves ==
  ASSUME NEW t, Found(t, "form"), LoginChecked(t)
  PROVE Moves(t, "form") /\ UNCHANGED serverVars
<1> DEFINE q == req[t]["form"]
<1>1. q \in Request /\ q.pc = "login" /\ q.email \in Emails
  BY FoundRequest DEF Shaped, LoginChecked, At
<1>2. CASE req' = [req EXCEPT ![t]["form"].pc = "store", ![t]["form"].token = Sign(q.email)]
  <2>1. Sign(q.email) \in Token  BY <1>1, Signed DEF Found, TypeOK
  <2>2. req' = [req EXCEPT ![t]["form"] =
                  [req[t]["form"] EXCEPT !.pc = "store", !.token = Sign(q.email)]]
    BY <1>2
  <2> QED BY <1>1, <2>1, <2>2, FormGoes DEF LoginChecked
<1>3. CASE Replies(t, "form", 401) \/ Replies(t, "form", 500)
  <2>1. Deserved(t, "form", 401) /\ Deserved(t, "form", 500)  BY DEF Deserved
  <2> QED BY <1>1, <1>3, <2>1, Replying DEF LoginChecked, Kinds
<1> QED BY <1>2, <1>3 DEF LoginChecked

\* What is stored after a step was given.
LEMMA StoredGiven ==
  ASSUME Watch, NEW e \in Emails
  PROVE stored'[e] \in Given'
  BY DEF Watch, Given

\* The types of the server's tables.
Tables == users \in SUBSET Emails /\ stored \in [Emails -> Maybe(Token)]

\* LoginStored: the token of the reply is the one that has been stored.
LEMMA LoginStoredMoves ==
  ASSUME NEW t, Found(t, "form"), Watch, LoginStored(t)
  PROVE Moves(t, "form") /\ Tables'
<1> DEFINE q == req[t]["form"]
<1>1. q \in Request /\ q.pc = "store" /\ q.email \in Emails /\ q.token \in Token
  BY FoundRequest DEF Shaped, LoginStored, At
<1>2. stored \in [Emails -> Maybe(Token)] /\ users \in SUBSET Emails  BY DEF Found, TypeOK
<1>3. Deserved(t, "form", 500)  BY DEF Deserved
<1>4. CASE stored' = [stored EXCEPT ![q.email] = q.token] /\ users' = users
  <2>1. stored' \in [Emails -> Maybe(Token)] /\ stored'[q.email] = q.token
    BY <1>1, <1>2, <1>4 DEF Maybe
  <2>2. q.token \in Given'  BY <1>1, <2>1, StoredGiven
  <2>3. Deserved(t, "form", 200)  BY <2>2 DEF Deserved
  <2>4. Tables'  BY <1>2, <1>4, <2>1 DEF Tables
  <2>5. Replies(t, "form", 200) \/ Replies(t, "form", 500)  BY DEF LoginStored
  <2> QED BY <1>1, <1>3, <2>3, <2>4, <2>5, Replying DEF Kinds
<1>5. CASE UNCHANGED stored /\ users' = users /\ Replies(t, "form", 500)
  BY <1>1, <1>2, <1>3, <1>5, Replying DEF Kinds, Tables
<1> QED BY <1>4, <1>5 DEF LoginStored

\* RegisterHashed.
LEMMA RegisterHashedMoves ==
  ASSUME NEW t, Found(t, "form"), RegisterHashed(t)
  PROVE Moves(t, "form") /\ UNCHANGED serverVars
<1> DEFINE q == req[t]["form"]
<1>1. q \in Request /\ q.email \in Emails
  BY FoundRequest DEF Shaped, RegisterHashed, At
<1>2. Sign(q.email) \in Token  BY <1>1, Signed DEF Found, TypeOK
<1>3. req' = [req EXCEPT ![t]["form"] =
                [req[t]["form"] EXCEPT !.pc = "count", !.token = Sign(q.email)]]
  BY DEF RegisterHashed
<1> QED BY <1>1, <1>2, <1>3, FormGoes DEF RegisterHashed

\* RegisterCounted.
LEMMA RegisterCountedMoves ==
  ASSUME NEW t, Found(t, "form"), RegisterCounted(t)
  PROVE Moves(t, "form") /\ UNCHANGED serverVars
<1> DEFINE q == req[t]["form"]
<1>1. q \in Request /\ q.email \in Emails /\ q.token \in Token
  BY FoundRequest DEF Shaped, RegisterCounted, At
<1>2. CASE Goes(t, "form", "insert")
  <2>1. [q EXCEPT !.pc = "insert"] = [q EXCEPT !.pc = "insert", !.token = q.token]
    BY <1>1, PhaseOnly, Zenon
  <2>2. req' = [req EXCEPT ![t]["form"] = [req[t]["form"] EXCEPT !.pc = "insert"]]
    BY <1>2 DEF Goes
  <2>3. req' = [req EXCEPT ![t]["form"] =
                  [req[t]["form"] EXCEPT !.pc = "insert", !.token = q.token]]
    BY <2>1, <2>2, Zenon
  <2> QED BY <1>1, <2>3, FormGoes DEF RegisterCounted
<1>3. CASE Replies(t, "form", 403) \/ Replies(t, "form", 500)
  <2>1. Deserved(t, "form", 403) /\ Deserved(t, "form", 500)  BY DEF Deserved
  <2> QED BY <1>1, <1>3, <2>1, Replying DEF RegisterCounted, Kinds
<1> QED BY <1>2, <1>3 DEF RegisterCounted

\* RegisterInserted: so is the token of this reply.
LEMMA RegisterInsertedMoves ==
  ASSUME NEW t, Found(t, "form"), Watch, RegisterInserted(t)
  PROVE Moves(t, "form") /\ Tables'
<1> DEFINE q == req[t]["form"]
<1>1. q \in Request /\ q.pc = "insert" /\ q.email \in Emails /\ q.token \in Token
  BY FoundRequest DEF Shaped, RegisterInserted, At
<1>2. stored \in [Emails -> Maybe(Token)] /\ users \in SUBSET Emails  BY DEF Found, TypeOK
<1>3. Deserved(t, "form", 500)  BY DEF Deserved
<1>4. CASE /\ stored' = [stored EXCEPT ![q.email] = q.token]
           /\ users' = users \cup {q.email}
           /\ Replies(t, "form", 200) \/ Replies(t, "form", 500)
  <2>1. stored' \in [Emails -> Maybe(Token)] /\ stored'[q.email] = q.token
    BY <1>1, <1>2, <1>4 DEF Maybe
  <2>2. q.token \in Given'  BY <1>1, <2>1, StoredGiven
  <2>3. Deserved(t, "form", 200)  BY <2>2 DEF Deserved
  <2>4. Tables'  BY <1>1, <1>2, <1>4, <2>1 DEF Tables
  <2> QED BY <1>1, <1>3, <1>4, <2>3, <2>4, Replying DEF Kinds
<1>5. CASE UNCHANGED serverVars /\ Replies(t, "form", 500)
  BY <1>1, <1>2, <1>3, <1>5, Replying DEF Kinds, Tables, serverVars
<1> QED BY <1>4, <1>5 DEF RegisterInserted

\* When a guarded route or the logout may refuse.
LEMMA Refusal ==
  ASSUME NEW t, NEW k \in {"guarded", "logout"},
         k = "guarded" => "ended" \in seen[t] \/ "expired" \in seen[t] \/ At(t, k, "select")
  PROVE Deserved(t, k, 401)
<1>1. k # "form" /\ 401 \in {200, 401, 403, 500} /\ 401 # 200  OBVIOUS
<1> QED BY <1>1, Zenon DEF Deserved

\* Serving needs that the token was seen stored and valid.
LEMMA Service ==
  ASSUME NEW t, "stored" \in seen[t], "valid" \in seen[t]
  PROVE Deserved(t, "guarded", 200)
<1>1. "guarded" # "form" /\ 200 \in {200, 401, 403, 500} /\ 401 # 200  OBVIOUS
<1> QED BY <1>1, Zenon DEF Deserved

\* Verified: that the token is valid, or is not, was seen.
LEMMA VerifiedMoves ==
  ASSUME NEW t, NEW k \in {"guarded", "logout"}, Found(t, k), Verified(t, k)
  PROVE Moves(t, k) /\ UNCHANGED serverVars
<1> DEFINE q == req[t][k]
<1>1. q \in Request /\ q.pc = "verify" /\ q.token \in Maybe(Token) /\ k \in Kinds
  BY FoundRequest DEF Verified, At, Request, Kinds
<1>2. CASE Verifies(q.token)
  <2>1. Goes(t, k, "select")  BY <1>2 DEF Verified
  <2>2. [q EXCEPT !.pc = "select"] = [q EXCEPT !.pc = "select", !.answer = q.answer]
    BY <1>1, PhaseOnly, Zenon
  <2>3. req' = [req EXCEPT ![t][k] = [req[t][k] EXCEPT !.pc = "select"]]
    BY <2>1 DEF Goes
  <2>4. req' = [req EXCEPT ![t][k] = [req[t][k] EXCEPT !.pc = "select", !.answer = q.answer]]
    BY <2>2, <2>3, Zenon
  <2>5. k = "guarded" => "valid" \in seen[t]
    BY <1>1, <1>2, Zenon DEF Found, Sound, Justified, Valid, Verifies
  <2>6. MayGo(t, k, "select", q.answer)
    BY <1>1, <1>2, <2>5 DEF MayGo, Verifies, Maybe, Request
  <2> QED BY <2>4, <2>6, TokenGoes DEF Verified
<1>3. CASE ~Verifies(q.token)
  <2>1. Replies(t, k, 401)  BY <1>3 DEF Verified
  <2>2. k = "guarded" => "expired" \in seen[t]
    BY <1>1, <1>3, Zenon DEF Found, Sound, Justified, Valid, Verifies
  <2>3. Deserved(t, k, 401)  BY <2>2, Refusal
  <2> QED BY <1>1, <2>1, <2>3, Replying DEF Verified
<1> QED BY <1>2, <1>3

\* Selected: the answer is the token that is stored now.
LEMMA SelectedMoves ==
  ASSUME NEW t, NEW k \in {"guarded", "logout"}, Found(t, k), Selected(t, k)
  PROVE Moves(t, k) /\ UNCHANGED serverVars
<1> DEFINE q == req[t][k]
<1>1. q \in Request /\ q.token \in Token /\ q.token # None /\ k \in Kinds
  BY FoundRequest DEF Shaped, Selected, At, Kinds
<1>2. stored[q.token.email] \in Maybe(Token)  BY <1>1 DEF Found, TypeOK, Token
<1>3. CASE req' = [req EXCEPT ![t][k].pc = "compare", ![t][k].answer = stored[q.token.email]]
  <2>1. req' = [req EXCEPT ![t][k] =
                  [req[t][k] EXCEPT !.pc = "compare", !.answer = stored[q.token.email]]]
    BY <1>3
  <2>2. k = "guarded" => "valid" \in seen[t]
    <3>1. q.pc = "select"  BY DEF Selected, At
    <3> QED BY <3>1, Zenon DEF Found, Sound, Justified
  <2>3. MayGo(t, k, "compare", stored[q.token.email])
    BY <1>1, <1>2, <2>2 DEF MayGo, Selected, serverVars
  <2> QED BY <2>1, <2>3, TokenGoes DEF Selected
<1>4. CASE Faults /\ Replies(t, k, 401)
  <2>1. Deserved(t, k, 401)  BY Refusal DEF Selected
  <2> QED BY <1>1, <1>4, <2>1, Replying DEF Selected
<1> QED BY <1>3, <1>4 DEF Selected

\* Compared: what was read differs from the token, and so was seen to.
LEMMA ComparedMoves ==
  ASSUME NEW t, NEW k \in {"guarded", "logout"}, Found(t, k), Compared(t, k)
  PROVE Moves(t, k) /\ UNCHANGED serverVars
<1> DEFINE q == req[t][k]
<1>1. q \in Request /\ q.pc = "compare" /\ q.token \in Token /\ q.token # None /\ k \in Kinds
  BY FoundRequest DEF Shaped, Compared, At, Kinds
<1>2. CASE q.answer # q.token
  <2>1. k = "guarded" => "ended" \in seen[t]
    BY <1>1, <1>2, Zenon DEF Found, Sound, Justified
  <2>2. Deserved(t, k, 401)  BY <2>1, Refusal
  <2> QED BY <1>1, <1>2, <2>2, Replying DEF Compared
<1>3. CASE q.answer = q.token /\ k = "guarded"
  <2>1. "stored" \in seen[t] /\ "valid" \in seen[t]
    BY <1>1, <1>3, Zenon DEF Found, Sound, Justified
  <2>2. Deserved(t, k, 200)  BY <1>3, <2>1, Service
  <2> QED BY <1>1, <1>3, <2>2, Replying DEF Compared
<1>4. CASE q.answer = q.token /\ k = "logout"
  <2>1. Goes(t, k, "update")  BY <1>4 DEF Compared
  <2>2. [q EXCEPT !.pc = "update"] = [q EXCEPT !.pc = "update", !.answer = q.answer]
    BY <1>1, PhaseOnly, Zenon
  <2>3. req' = [req EXCEPT ![t][k] = [req[t][k] EXCEPT !.pc = "update"]]
    BY <2>1 DEF Goes
  <2>4. req' = [req EXCEPT ![t][k] = [req[t][k] EXCEPT !.pc = "update", !.answer = q.answer]]
    BY <2>2, <2>3, Zenon
  <2>5. MayGo(t, k, "update", q.answer)
    BY <1>1, <1>4 DEF MayGo, Request
  <2> QED BY <2>4, <2>5, TokenGoes DEF Compared
<1> QED BY <1>2, <1>3, <1>4

\* LogoutStored.
LEMMA LogoutStoredMoves ==
  ASSUME NEW t, Found(t, "logout"), LogoutStored(t)
  PROVE Moves(t, "logout") /\ Tables'
<1> DEFINE q == req[t]["logout"]
<1>1. q \in Request /\ q.token \in Token
  BY FoundRequest DEF Shaped, LogoutStored, At
<1>2. stored \in [Emails -> Maybe(Token)] /\ users \in SUBSET Emails  BY DEF Found, TypeOK
<1>3. stored' = [stored EXCEPT ![q.token.email] = None] \/ UNCHANGED stored
  BY DEF LogoutStored
<1>4. Tables'  BY <1>2, <1>3 DEF Tables, Maybe, LogoutStored
<1>5. Deserved(t, "logout", 200) /\ Deserved(t, "logout", 401)  BY DEF Deserved
<1>6. Replies(t, "logout", 200) \/ Replies(t, "logout", 401)  BY DEF LogoutStored
<1> QED BY <1>1, <1>4, <1>5, <1>6, Replying DEF Kinds

-----------------------------------------------------------------------------
(* The steps of the dashboard.                                             *)

\* The empty request is one.
LEMMA Nothing ==
  /\ NoRequest \in Request /\ NoRequest.pc = "none" /\ NoRequest.email = None
  /\ NoRequest.good = FALSE /\ NoRequest.answer = None /\ NoRequest.status = 0
  BY DEF NoRequest, Request, Maybe

\* A request that ends leaves nothing.
LEMMA Ending ==
  ASSUME NEW t, NEW k \in Kinds, req' = [req EXCEPT ![t][k] = NoRequest]
  PROVE Moves(t, k)
<1>1. Shaped(k, NoRequest)  BY Nothing DEF Shaped
<1>2. Carries(k, NoRequest, Given')  BY Nothing DEF Carries
<1>3. Justified(k, NoRequest, Seen(req[t][k].pc, NoRequest, seen[t], stored', now), now)
  BY Nothing DEF Justified
<1> QED BY <1>1, <1>2, <1>3, Nothing DEF Moves, GoesOn

\* A request that sends a token, or none, which the watch sees at once.
LEMMA Sending ==
  ASSUME NEW t, NEW k \in {"guarded", "logout"}, NEW token \in Maybe(Token),
         req' = [req EXCEPT ![t][k] = [NoRequest EXCEPT !.pc = "verify", !.token = token]]
  PROVE Moves(t, k)
<1> DEFINE r == [pc |-> "verify", email |-> NoRequest.email, good |-> NoRequest.good,
                 token |-> token, answer |-> NoRequest.answer, status |-> NoRequest.status]
<1>1. [NoRequest EXCEPT !.pc = "verify", !.token = token] = r
  BY Nothing, WithToken, Zenon
<1>2. req' = [req EXCEPT ![t][k] = r]  BY <1>1, Zenon
<1>3. r \in Request  BY Nothing DEF Request, Maybe
<1>4. Shaped(k, r)  BY <1>3 DEF Shaped
<1>5. Carries(k, r, Given')  BY DEF Carries
<1>6. r.pc = "verify" /\ r.token = token  OBVIOUS
<1> HIDE DEF r
<1>7. (IF Valid(r.token, now) THEN "valid" ELSE "expired")
        \in Seen(req[t][k].pc, r, seen[t], stored', now)
  BY <1>6 DEF Seen, FactsAt
<1>8. Justified(k, r, Seen(req[t][k].pc, r, seen[t], stored', now), now)
  BY <1>6, <1>7, Zenon DEF Justified
<1> QED BY <1>2, <1>3, <1>4, <1>5, <1>8 DEF Moves, GoesOn

\* Submit.
LEMMA SubmitMoves ==
  ASSUME NEW t, Submit(t)
  PROVE Moves(t, "form")
<1> DEFINE pc == IF registered[t] THEN "login" ELSE "register"
<1>1. PICK e \in Emails, good \in BOOLEAN :
        req' = [req EXCEPT ![t]["form"] = [NoRequest EXCEPT
                  !.pc = pc, !.email = e, !.good = registered[t] /\ good]]
  BY Zenon DEF Submit
<1> DEFINE g == registered[t] /\ good
           r == [NoRequest EXCEPT !.pc = pc, !.email = e, !.good = g]
<1>2. pc \in {"login", "register"} /\ g \in BOOLEAN  OBVIOUS
<1>3. req' = [req EXCEPT ![t]["form"] = r]  BY <1>1, Zenon
<1> HIDE DEF pc, g
<1>4. r \in Request /\ r.pc = pc /\ r.email = e
  <2> DEFINE q1 == [NoRequest EXCEPT !.pc = pc]
             q2 == [q1 EXCEPT !.email = e]
  <2>1. q1 \in Request /\ q1.pc = pc  BY <1>2, Nothing DEF Request
  <2>2. r = [q2 EXCEPT !.good = g]  OBVIOUS
  <2> HIDE DEF q1
  <2>3. q2 \in Request /\ q2.pc = pc /\ q2.email = e  BY <2>1 DEF Request, Maybe
  <2> HIDE DEF q2, r
  <2> QED BY <1>2, <2>2, <2>3 DEF Request
<1> HIDE DEF r
<1>5. Shaped("form", r)  BY <1>2, <1>4 DEF Shaped
<1>6. Carries("form", r, Given')  BY <1>2, <1>4 DEF Carries
<1>7. Justified("form", r, Seen(req[t]["form"].pc, r, seen[t], stored', now), now)  BY DEF Justified
<1> QED BY <1>3, <1>4, <1>5, <1>6, <1>7 DEF Moves, GoesOn

\* What is given stays given.
LEMMA GivenGrows ==
  ASSUME Watch
  PROVE Given \subseteq Given'
  BY DEF Watch, Given

\* A sequence over a set is one over a larger set.
LEMMA SeqGrows ==
  ASSUME NEW S, NEW T, S \subseteq T, NEW s \in Seq(S)
  PROVE s \in Seq(T)
  OBVIOUS

\* What the browsers hold stays given.
LEMMA HeldStays ==
  ASSUME Held, Watch, UNCHANGED tabVars
  PROVE Held'
<1>1. Given \subseteq Given'  BY GivenGrows
<1>2. local' \in [Browsers -> Given'] /\ tabToken' \in [Tabs -> Given']
  BY <1>1 DEF Held, tabVars
<1>3. events' \in [Tabs -> Seq(Given')]
  BY <1>1, SeqGrows DEF Held, tabVars
<1> QED BY <1>2, <1>3 DEF Held

\* SetToken, of a token that was given.
LEMMA SetTokenHeld ==
  ASSUME Held, Watch, NEW t \in Tabs, NEW value \in Given', SetToken(t, value),
         home \in [Tabs -> Browsers]
  PROVE Held'
<1>1. Given \subseteq Given'  BY GivenGrows
<1>2. local' \in [Browsers -> Given'] /\ tabToken' \in [Tabs -> Given']
  BY <1>1 DEF Held, SetToken
<1>3. \A u \in Tabs : events[u] \in Seq(Given')
  BY <1>1, SeqGrows DEF Held
<1>4. \A u \in Tabs : Append(events[u], value) \in Seq(Given')
  BY <1>3
<1>5. events' \in [Tabs -> Seq(Given')]
  BY <1>3, <1>4 DEF SetToken
<1> QED BY <1>2, <1>5 DEF Held

\* StorageEvent.
LEMMA EventHeld ==
  ASSUME Held, Watch, NEW t \in Tabs, StorageEvent(t)
  PROVE Held'
<1>1. Given \subseteq Given'  BY GivenGrows
<1>2. events[t] \in Seq(Given) /\ events[t] # <<>>  BY DEF Held, StorageEvent
<1>3. Head(events[t]) \in Given /\ Tail(events[t]) \in Seq(Given)  BY <1>2
<1>4. local' \in [Browsers -> Given'] /\ tabToken' \in [Tabs -> Given']
  BY <1>1, <1>3 DEF Held, StorageEvent
<1>5. events' \in [Tabs -> Seq(Given)]  BY <1>3 DEF Held, StorageEvent
<1>6. events' \in [Tabs -> Seq(Given')]  BY <1>1, <1>5, SeqGrows
<1> QED BY <1>4, <1>6 DEF Held

\* Open.
LEMMA OpenHeld ==
  ASSUME Held, Watch, NEW t \in Tabs, Open(t), home \in [Tabs -> Browsers]
  PROVE Held'
<1>1. Given \subseteq Given'  BY GivenGrows
<1>2. local' \in [Browsers -> Given'] /\ tabToken' \in [Tabs -> Given']
  BY <1>1 DEF Held, Open
<1>3. events' \in [Tabs -> Seq(Given')]  BY <1>1, SeqGrows DEF Held, Open
<1> QED BY <1>2, <1>3 DEF Held

-----------------------------------------------------------------------------
(* Every step keeps the invariant.                                         *)

\* What a step does besides moving requests.
Calm ==
  /\ now' \in Nat /\ now' >= now /\ forms' \in Nat /\ Tables' /\ Held'
  /\ home' \in [Tabs -> Browsers] /\ page' \in [Tabs -> {"closed", "open", "auth"}]
  /\ registered' \in [Tabs -> BOOLEAN]
  /\ \/ req' = req
     \/ now' = now /\ \E t \in Tabs, k \in Kinds : Moves(t, k)

\* All requests are sound.
AllSound == \A t \in Tabs, k \in Kinds : Sound(k, req[t][k], Given, seen[t], now)

\* What the watch writes.
LEMMA SeenNext ==
  ASSUME Watch, NEW t \in Tabs
  PROVE seen'[t] = Seen(req[t]["guarded"].pc, req'[t]["guarded"], seen[t], stored', now')
  BY DEF Watch, Seen, At, FactsAt, FactsOf, Valid, Stored, Verifies

\* All requests stay sound.
LEMMA AllStaySound ==
  ASSUME TypeOK, AllSound, Watch, Calm
  PROVE req' \in [Tabs -> [Kinds -> Request]] /\ AllSound'
<1>1. req \in [Tabs -> [Kinds -> Request]] /\ now \in Nat /\ "guarded" \in Kinds
  BY DEF TypeOK, Kinds
<1>2. Given \subseteq Given' /\ now' \in Nat /\ now' >= now /\ Lifetime \in Nat
  BY GivenGrows, SessionAssumption DEF Calm, SessionAssumption
<1>3. ASSUME NEW t \in Tabs, NEW k \in Kinds, req'[t][k] = req[t][k]
      PROVE Sound(k, req'[t][k], Given', seen'[t], now')
  <2>1. Sound(k, req[t][k], Given, seen[t], now)  BY DEF AllSound
  <2>2. Sound(k, req[t][k], Given',
              IF k = "guarded" THEN Seen(req[t][k].pc, req[t][k], seen[t], stored', now')
              ELSE seen[t], now')
    BY <1>1, <1>2, <2>1, SoundStays
  <2>3. CASE k = "guarded"  BY <1>3, <2>2, <2>3, SeenNext
  <2>4. CASE k # "guarded"
    BY <1>3, <2>2, <2>4 DEF Sound, Justified
  <2> QED BY <2>3, <2>4
<1>4. CASE req' = req
  BY <1>1, <1>3, <1>4 DEF AllSound
<1>5. ASSUME now' = now, NEW t \in Tabs, NEW k \in Kinds, Moves(t, k)
      PROVE req' \in [Tabs -> [Kinds -> Request]] /\ AllSound'
  <2>1. PICK r \in Request : GoesOn(t, k, r, Given', stored', now)  BY <1>5 DEF Moves
  <2>2. req' = [req EXCEPT ![t][k] = r]  BY <2>1 DEF GoesOn
  <2>3. /\ req' \in [Tabs -> [Kinds -> Request]] /\ req'[t][k] = r
        /\ \A u \in Tabs, j \in Kinds : u # t \/ j # k => req'[u][j] = req[u][j]
    BY <1>1, <2>2, PutOne
  <2>4. Sound(k, r, Given', seen'[t], now')
    <3>1. Shaped(k, r) /\ Carries(k, r, Given')  BY <2>1 DEF GoesOn
    <3>2. Justified(k, r, Seen(req[t][k].pc, r, seen[t], stored', now'), now')
      BY <1>5, <2>1 DEF GoesOn
    <3>3. CASE k = "guarded"  BY <2>3, <3>1, <3>2, <3>3, SeenNext DEF Sound
    <3>4. CASE k # "guarded"  BY <3>1, <3>4 DEF Sound, Justified
    <3> QED BY <3>3, <3>4
  <2>5. \A u \in Tabs, j \in Kinds : Sound(j, req'[u][j], Given', seen'[u], now')
    BY <1>3, <2>3, <2>4
  <2> QED BY <2>3, <2>5 DEF AllSound
<1> QED BY <1>4, <1>5 DEF Calm

\* The rest of the types.
LEMMA CalmInv ==
  ASSUME Inv, Watch, Calm
  PROVE Inv'
<1>1. TypeOK /\ AllSound  BY DEF Inv, AllSound
<1>2. req' \in [Tabs -> [Kinds -> Request]] /\ AllSound'  BY <1>1, AllStaySound
<1>3. issued' \in SUBSET Token
  <2>1. issued \in SUBSET Token  BY <1>1 DEF TypeOK
  <2>2. \A e \in Emails : stored'[e] \in Maybe(Token)  BY DEF Calm, Tables
  <2> QED BY <2>1, <2>2 DEF Watch, Maybe
<1>4. seen' \in [Tabs -> SUBSET Facts]
  <2>1. \A t \in Tabs : seen[t] \in SUBSET Facts  BY <1>1 DEF TypeOK
  <2>2. \A t \in Tabs : seen'[t] \in SUBSET Facts  BY <2>1, SeenNext, SeenType
  <2>3. seen' = [t \in Tabs |-> seen'[t]]  BY DEF Watch
  <2> QED BY <2>2, <2>3
<1>5. Given' \subseteq Maybe(Token)  BY <1>3 DEF Given, Maybe
<1>6. local' \in [Browsers -> Maybe(Token)] /\ tabToken' \in [Tabs -> Maybe(Token)]
  BY <1>5 DEF Calm, Held
<1>7. events' \in [Tabs -> Seq(Maybe(Token))]  BY <1>5, SeqGrows DEF Calm, Held
<1>8. TypeOK'  BY <1>2, <1>3, <1>4, <1>6, <1>7 DEF Calm, Tables, TypeOK
<1> QED BY <1>2, <1>8 DEF Calm, AllSound, Inv

\* A step of the server.
LEMMA ServerCalm ==
  ASSUME Inv, Watch, NEW t \in Tabs, ServerStep(t)
  PROVE Calm
<1>1. \A k \in Kinds : Found(t, k)  BY DEF Inv, Found
<1>2. /\ now' = now /\ now \in Nat /\ forms' = forms /\ forms \in Nat
      /\ home' = home /\ page' = page /\ registered' = registered
      /\ UNCHANGED tabVars
  BY DEF ServerStep, pageVars, Inv, TypeOK
<1>3. Held'  BY <1>2, HeldStays DEF Inv
<1>4. UNCHANGED serverVars => Tables'  BY DEF Inv, TypeOK, Tables, serverVars
<1>5. Tables' /\ \E k \in Kinds : Moves(t, k)
  <2>1. "form" \in Kinds /\ "guarded" \in Kinds /\ "logout" \in Kinds  BY DEF Kinds
  <2>2. CASE LoginChecked(t)  BY <1>1, <1>4, <2>1, <2>2, LoginCheckedMoves
  <2>3. CASE LoginStored(t)  BY <1>1, <2>1, <2>3, LoginStoredMoves
  <2>4. CASE RegisterHashed(t)  BY <1>1, <1>4, <2>1, <2>4, RegisterHashedMoves
  <2>5. CASE RegisterCounted(t)  BY <1>1, <1>4, <2>1, <2>5, RegisterCountedMoves
  <2>6. CASE RegisterInserted(t)  BY <1>1, <2>1, <2>6, RegisterInsertedMoves
  <2>7. ASSUME NEW k \in {"guarded", "logout"}, Verified(t, k)
        PROVE Tables' /\ \E j \in Kinds : Moves(t, j)
    BY <1>1, <1>4, <2>1, <2>7, VerifiedMoves
  <2>8. ASSUME NEW k \in {"guarded", "logout"}, Selected(t, k)
        PROVE Tables' /\ \E j \in Kinds : Moves(t, j)
    BY <1>1, <1>4, <2>1, <2>8, SelectedMoves
  <2>9. ASSUME NEW k \in {"guarded", "logout"}, Compared(t, k)
        PROVE Tables' /\ \E j \in Kinds : Moves(t, j)
    BY <1>1, <1>4, <2>1, <2>9, ComparedMoves
  <2>10. CASE LogoutStored(t)  BY <1>1, <2>1, <2>10, LogoutStoredMoves
  <2> QED BY <2>2, <2>3, <2>4, <2>5, <2>6, <2>7, <2>8, <2>9, <2>10 DEF ServerStep
<1>6. home' \in [Tabs -> Browsers] /\ page' \in [Tabs -> {"closed", "open", "auth"}]
      /\ registered' \in [Tabs -> BOOLEAN]
  BY <1>2 DEF Inv, TypeOK
<1> QED BY <1>2, <1>3, <1>5, <1>6 DEF Calm

\* What the dashboard's steps leave alone.
Aside == UNCHANGED <<now, serverVars, home>>

\* A step of the dashboard that keeps these.
LEMMA DashboardCalm ==
  ASSUME Inv, Aside, Held', forms' \in Nat,
         page' \in [Tabs -> {"closed", "open", "auth"}], registered' \in [Tabs -> BOOLEAN],
         req' = req \/ \E t \in Tabs, k \in Kinds : Moves(t, k)
  PROVE Calm
<1>1. now' = now /\ now \in Nat /\ home' = home /\ home \in [Tabs -> Browsers]
  BY DEF Aside, Inv, TypeOK
<1>2. Tables'  BY DEF Aside, Inv, TypeOK, Tables, serverVars
<1> QED BY <1>1, <1>2 DEF Calm

\* The steps of the dashboard.
LEMMA DashboardSteps ==
  ASSUME Inv, Watch, NEW t \in Tabs,
         \/ Open(t) \/ StorageEvent(t) \/ Submit(t) \/ Ask(t) \/ SignOut(t)
         \/ \E k \in Kinds : Received(t, k) \/ ReplyLost(t, k)
  PROVE Calm
<1>1. /\ TypeOK /\ Held /\ forms \in Nat /\ home \in [Tabs -> Browsers]
      /\ page \in [Tabs -> {"closed", "open", "auth"}] /\ registered \in [Tabs -> BOOLEAN]
      /\ local[home[t]] \in Maybe(Token)
  BY DEF Inv, TypeOK
<1>2. UNCHANGED pageVars => /\ page' \in [Tabs -> {"closed", "open", "auth"}]
                            /\ registered' \in [Tabs -> BOOLEAN]
  BY <1>1 DEF pageVars
<1>3. UNCHANGED tabVars => Held'  BY <1>1, HeldStays
<1>4. None \in Given'  BY DEF Given
<1>5. "form" \in Kinds /\ "guarded" \in Kinds /\ "logout" \in Kinds  BY DEF Kinds
<1>6. CASE Open(t)
  <2>1. Held'  BY <1>1, <1>6, OpenHeld
  <2>2. Aside  BY <1>6 DEF Open, Aside
  <2>3. page' \in [Tabs -> {"closed", "open", "auth"}]  BY <1>1, <1>6 DEF Open
  <2>4. registered' \in [Tabs -> BOOLEAN]
    <3>1. (users # {}) \in BOOLEAN  OBVIOUS
    <3>2. registered' = registered \/ registered' = [registered EXCEPT ![t] = users # {}]
      BY <1>6 DEF Open
    <3> QED BY <1>1, <3>1, <3>2
  <2>5. forms' = forms /\ req' = req  BY <1>6 DEF Open
  <2> QED BY <1>1, <2>1, <2>2, <2>3, <2>4, <2>5, DashboardCalm
<1>7. CASE StorageEvent(t)
  <2>1. Held'  BY <1>1, <1>7, EventHeld
  <2>2. Aside  BY <1>7 DEF StorageEvent, Aside, pageVars
  <2> QED BY <1>1, <1>2, <1>7, <2>1, <2>2, DashboardCalm DEF StorageEvent
<1>8. CASE Submit(t)
  <2>1. Moves(t, "form")  BY <1>8, SubmitMoves
  <2>2. Aside  BY <1>8 DEF Submit, Aside, pageVars
  <2>3. forms' \in Nat
    <3>1. forms' = forms + 1  BY <1>8, Zenon DEF Submit
    <3> QED BY <1>1, <3>1
  <2> QED BY <1>2, <1>3, <1>5, <1>8, <2>1, <2>2, <2>3, DashboardCalm DEF Submit
<1>9. CASE Ask(t)
  <2>1. Moves(t, "guarded")  BY <1>1, <1>9, Sending DEF Ask
  <2>2. Aside  BY <1>9 DEF Ask, Aside, pageVars
  <2> QED BY <1>1, <1>2, <1>3, <1>5, <1>9, <2>1, <2>2, DashboardCalm DEF Ask
<1>10. CASE SignOut(t)
  <2>1. Moves(t, "logout")  BY <1>1, <1>10, Sending DEF SignOut
  <2>2. Aside  BY <1>10 DEF SignOut, Aside, pageVars
  <2>3. Held'  BY <1>1, <1>4, <1>10, SetTokenHeld DEF SignOut
  <2> QED BY <1>1, <1>2, <1>5, <1>10, <2>1, <2>2, <2>3, DashboardCalm DEF SignOut
<1>11. ASSUME NEW k \in Kinds, Received(t, k)
       PROVE Calm
  <2>1. Moves(t, k)  BY <1>11, Ending DEF Received
  <2>2. Aside  BY <1>11 DEF Received, Aside, pageVars
  <2>3. CASE SetToken(t, None)  BY <1>1, <1>4, <1>11, <2>3, SetTokenHeld, <1>2, <2>1, <2>2,
                                   DashboardCalm DEF Received
  <2>4. CASE req[t][k].status = 200 /\ k = "form" /\ SetToken(t, req[t][k].token)
    <3>1. Sound(k, req[t][k], Given, seen[t], now)  BY DEF Inv
    <3>2. req[t][k].token \in Given'
      BY <1>11, <2>4, <3>1, GivenGrows DEF Sound, Carries, Received, At
    <3>3. Held'  BY <1>1, <2>4, <3>2, SetTokenHeld
    <3> QED BY <1>1, <1>2, <1>11, <2>1, <2>2, <3>3, DashboardCalm DEF Received
  <2>5. CASE UNCHANGED tabVars
    BY <1>1, <1>2, <1>3, <1>11, <2>1, <2>2, <2>5, DashboardCalm DEF Received
  <2> QED BY <1>11, <2>3, <2>4, <2>5 DEF Received
<1>12. ASSUME NEW k \in Kinds, ReplyLost(t, k)
       PROVE Calm
  <2>1. Moves(t, k)  BY <1>12, Ending DEF ReplyLost
  <2>2. Aside  BY <1>12 DEF ReplyLost, Aside, pageVars
  <2> QED BY <1>1, <1>2, <1>3, <1>12, <2>1, <2>2, DashboardCalm DEF ReplyLost
<1> QED BY <1>6, <1>7, <1>8, <1>9, <1>10, <1>11, <1>12

\* Time passes.
LEMMA TickCalm ==
  ASSUME Inv, Watch, Tick
  PROVE Calm
<1>1. now' \in Nat /\ now' >= now  BY DEF Inv, TypeOK, Tick
<1>2. Held'  BY HeldStays DEF Inv, Tick
<1> QED BY <1>1, <1>2 DEF Calm, Tick, Inv, TypeOK, Tables, serverVars, pageVars

\* The initial states.
LEMMA InitInv == Init => Inv
<1> SUFFICES ASSUME Init PROVE Inv  OBVIOUS
<1>1. now = 0 /\ forms = 0 /\ users \in SUBSET Emails  BY DEF Init
<1>2. \A e \in users : Sign(e) \in Token  BY <1>1, Signed
<1>3. issued \in SUBSET Token  BY <1>2 DEF Init
<1>4. Given \subseteq Maybe(Token)  BY <1>3 DEF Given, Maybe
<1>5. stored \in [Emails -> Maybe(Token)]
  <2>1. PICK s \in Given : stored = [e \in Emails |-> IF e \in users THEN s ELSE None]
    BY DEF Init, Given
  <2> QED BY <1>4, <2>1 DEF Maybe
<1>6. Held
  <2>1. None \in Given /\ <<>> \in Seq(Given)  BY DEF Given
  <2>2. local \in [Browsers -> Given]  BY DEF Init, Given
  <2>3. tabToken \in [Tabs -> Given]  BY <2>1 DEF Init
  <2>4. events \in [Tabs -> Seq(Given)]  BY <2>1 DEF Init
  <2> QED BY <2>2, <2>3, <2>4 DEF Held
<1>7. req \in [Tabs -> [Kinds -> Request]]  BY Nothing DEF Init
<1>8. /\ local \in [Browsers -> Maybe(Token)] /\ tabToken \in [Tabs -> Maybe(Token)]
      /\ events \in [Tabs -> Seq(Maybe(Token))]
  BY <1>4, <1>6, SeqGrows DEF Held
<1>9. home \in [Tabs -> Browsers] /\ page \in [Tabs -> {"closed", "open", "auth"}]
      /\ registered \in [Tabs -> BOOLEAN] /\ seen \in [Tabs -> SUBSET Facts]
  BY DEF Init
<1>10. TypeOK  BY <1>1, <1>3, <1>5, <1>7, <1>8, <1>9 DEF TypeOK
<1>11. ASSUME NEW t \in Tabs, NEW k \in Kinds
       PROVE Sound(k, req[t][k], Given, seen[t], now)
  <2>1. req[t][k] = NoRequest  BY DEF Init
  <2>2. Sound(k, NoRequest, Given, seen[t], now)
    BY Nothing DEF Sound, Shaped, Carries, Justified
  <2> QED BY <2>1, <2>2
<1> QED BY <1>6, <1>10, <1>11 DEF Inv

\* The invariant is inductive.
LEMMA NextInv == Inv /\ [Next]_vars => Inv'
<1> SUFFICES ASSUME Inv, [Next]_vars PROVE Inv'  OBVIOUS
<1>1. CASE Next
  <2>1. Watch  BY <1>1 DEF Next
  <2>2. CASE Tick  BY <2>1, <2>2, TickCalm, CalmInv
  <2>3. ASSUME NEW t \in Tabs, ServerStep(t) PROVE Inv'
    BY <2>1, <2>3, ServerCalm, CalmInv
  <2>4. ASSUME NEW t \in Tabs,
               \/ Open(t) \/ StorageEvent(t) \/ Submit(t) \/ Ask(t) \/ SignOut(t)
               \/ \E k \in Kinds : Received(t, k) \/ ReplyLost(t, k)
        PROVE Inv'
    BY <2>1, <2>4, DashboardSteps, CalmInv
  <2> QED BY <1>1, <2>2, <2>3, <2>4 DEF Next, Step
<1>2. CASE UNCHANGED vars
  BY <1>2 DEF vars, serverVars, pageVars, tabVars, Inv, TypeOK, Held, Given, Tables
<1> QED BY <1>1, <1>2

\* Inv holds always.
LEMMA InvHolds == Spec => []Inv
<1> QED BY InitInv, NextInv, PTL DEF Spec

\* Every state has the types of TypeOK.
THEOREM TypeCorrect == Spec => []TypeOK
<1>1. Inv => TypeOK  BY DEF Inv
<1> QED BY <1>1, InvHolds, PTL

\* The hook's verdict was true at some moment of the request, although it compares an
\* answer that may be out of date by then.
THEOREM VerdictTrue == Spec => []VerdictWasTrue
<1>1. Inv => VerdictWasTrue
  <2> SUFFICES ASSUME Inv, NEW t \in Tabs, req[t]["guarded"].pc = "reply"
               PROVE /\ req[t]["guarded"].status = 200 => {"stored", "valid"} \subseteq seen[t]
                     /\ req[t]["guarded"].status = 401
                          => seen[t] \cap {"ended", "expired", "failed"} # {}
    BY Zenon DEF VerdictWasTrue
  <2>1. Sound("guarded", req[t]["guarded"], Given, seen[t], now)  BY DEF Inv, Kinds
  <2>2. /\ req[t]["guarded"].status = 200 => "stored" \in seen[t] /\ "valid" \in seen[t]
        /\ req[t]["guarded"].status = 401
             => "ended" \in seen[t] \/ "expired" \in seen[t] \/ "failed" \in seen[t]
    BY <2>1, Zenon DEF Sound, Justified
  <2> QED BY <2>2
<1> QED BY <1>1, InvHolds, PTL

\* A browser holds, and is sent, no token that was not stored first.
THEOREM GivenStored == Spec => []GivenWasStored
<1>1. Inv => GivenWasStored
  <2> SUFFICES ASSUME Inv, NEW t \in Tabs,
                      NEW token \in {local[home[t]], tabToken[t]}
                                    \cup {events[t][i] : i \in DOMAIN events[t]},
                      token # None
               PROVE token \in issued
    BY DEF GivenWasStored
  <2>1. local[home[t]] \in Given /\ tabToken[t] \in Given  BY DEF Inv, Held, TypeOK
  <2>2. events[t] \in Seq(Given)  BY DEF Inv, Held
  <2>3. \A i \in DOMAIN events[t] : events[t][i] \in Given  BY <2>2
  <2>4. token \in Given  BY <2>1, <2>3
  <2> QED BY <2>4 DEF Given
<1> QED BY <1>1, InvHolds, PTL
=============================================================================
