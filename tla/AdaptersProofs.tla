---------------------------- MODULE AdaptersProofs ----------------------------
(***************************************************************************)
(* For any adapters, calls and projects: the state of Adapters is well     *)
(* typed, and an end that the dashboard receives follows its start.        *)
(*                                                                         *)
(* EndFollowsStart says nothing of the logs that are still to be built.    *)
(* The invariant that is inductive adds that, until the core is destroyed, *)
(* every trace of a call and of a deferred log has been announced: a       *)
(* wrapper traces only when the filter lets the call through, which it     *)
(* does only while the core is enabled, and then hands the start over in   *)
(* the same turn.                                                          *)
(***************************************************************************)
EXTENDS Adapters, WellFoundedInduction, TLAPS

\* Every trace of a call was announced.
CallsAnnounced ==
  ~destroyed => \A c \in Calls : \A a \in call[c].via : <<c, a, call[c].project>> \in starts

\* So was every trace that a deferred log belongs to.
JobsAnnounced ==
  ~destroyed => \A j \in jobs : j[2] # Axios => j \in starts

Inv == TypeOK /\ EndFollowsStart /\ CallsAnnounced /\ JobsAnnounced

Kind == {"fetch", "axios", "cycletls"}
Record == [pc : {"new", "pending", "done"}, by : Kind \cup {None},
           via : SUBSET Adapters, project : Projects \cup {None}, heard : BOOLEAN,
           result : {"none", "native", "filter", "broken"}]

-----------------------------------------------------------------------------
\* The initial state is well typed.
LEMMA TypeInit == ASSUME Init PROVE TypeOK
<1>1. config \in Config  BY DEF Init
<1>2. NewCall \in [pc : {"new", "pending", "done"},
                   by : {None, "fetch", "axios", "cycletls"}, via : SUBSET Adapters,
                   project : Projects \cup {None}, heard : BOOLEAN,
                   result : {"none", "native", "filter", "broken"}]
  BY DEF NewCall
<1> QED  BY <1>1, <1>2 DEF Init, TypeOK

\* The invariant holds at first.
LEMMA InitInv == ASSUME Init PROVE Inv
<1>1. TypeOK  BY TypeInit
<1>2. EndFollowsStart  BY DEF Init, EndFollowsStart
<1>3. \A c \in Calls : call[c].via = {}  BY DEF Init, NewCall
<1>4. CallsAnnounced  BY <1>3 DEF CallsAnnounced
<1>5. JobsAnnounced  BY DEF Init, JobsAnnounced
<1> QED  BY <1>1, <1>2, <1>4, <1>5 DEF Inv

\* What the host changes leaves calls and messages alone, and undoes no destroy().
LEMMA HostInv == ASSUME Inv, Host PROVE Inv'
<1>1. UNCHANGED <<call, jobs, starts, ends>> /\ (destroyed => destroyed')
  BY DEF Host, UpdateConfig, Destroy, InstallFetch, EjectFetch, ToggleAxios, ToggleCycle
<1>2. TypeOK'
  <2>0. TypeOK  BY DEF Inv
  <2>1. CASE UpdateConfig  BY <2>0, <2>1 DEF UpdateConfig, Changes, TypeOK
  <2>2. CASE Destroy  BY <2>0, <2>2 DEF Destroy, Changes, TypeOK
  <2>3. ASSUME NEW a \in Fetches, InstallFetch(a) PROVE TypeOK'
    BY <2>0, <2>3 DEF InstallFetch, Changes, TypeOK
  <2>4. ASSUME NEW a \in Fetches, EjectFetch(a) PROVE TypeOK'
    BY <2>0, <2>4 DEF EjectFetch, Changes, TypeOK
  <2>5. CASE ToggleAxios  BY <2>0, <2>5 DEF ToggleAxios, Changes, TypeOK
  <2>6. CASE ToggleCycle  BY <2>0, <2>6 DEF ToggleCycle, Changes, TypeOK
  <2> QED  BY <2>1, <2>2, <2>3, <2>4, <2>5, <2>6 DEF Host
<1>3. EndFollowsStart'  BY <1>1 DEF Inv, EndFollowsStart
<1>4. CallsAnnounced'  BY <1>1 DEF Inv, CallsAnnounced
<1>5. JobsAnnounced'  BY <1>1 DEF Inv, JobsAnnounced
<1> QED  BY <1>2, <1>3, <1>4, <1>5 DEF Inv

-----------------------------------------------------------------------------
\* A call that is made with the wrappers in via: its starts are handed over in the
\* same turn, if there are any, since the filter let the call through.
LEMMA MadeInv ==
  ASSUME Inv, NEW c \in Calls, NEW via \in SUBSET Adapters,
         via # {} => config.enabled,
         HandleStarts(Traces(c, via, config.project)),
         call' \in [Calls -> Record],
         call'[c].via = via, call'[c].project = config.project,
         \A d \in Calls : d # c => call'[d] = call[d],
         jobs' = jobs \/ jobs' = jobs \cup Traces(c, via, config.project),
         UNCHANGED <<hostVars, ends>>
  PROVE  Inv'
<1> DEFINE T == Traces(c, via, config.project)
<1>0. TypeOK /\ EndFollowsStart /\ CallsAnnounced /\ JobsAnnounced  BY DEF Inv
<1>1. UNCHANGED <<config, destroyed, current, original, axios, cycle, changes, disorder, ends>>
  BY DEF hostVars
<1>2. config.project \in Projects  BY <1>0 DEF TypeOK, Config
<1>3. T \subseteq Calls \X Adapters \X Projects
  BY <1>2 DEF Traces
<1>4. starts' \subseteq Calls \X Adapters \X Projects /\ starts \subseteq starts'
  BY <1>0, <1>3 DEF HandleStarts, TypeOK
<1>5. ~destroyed => T \subseteq starts'
  <2>1. CASE via = {}  BY <2>1 DEF Traces
  <2>2. CASE via # {}  BY <2>2 DEF HandleStarts
  <2> QED  BY <2>1, <2>2
<1>6. jobs' \subseteq Trace
  <2>1. T \subseteq Trace  BY <1>2 DEF Traces, Trace
  <2> QED  BY <1>0, <2>1 DEF TypeOK
<1>7. TypeOK'  BY <1>0, <1>1, <1>4, <1>6 DEF TypeOK, Record, Kind
<1>8. EndFollowsStart'  BY <1>0, <1>1, <1>4 DEF EndFollowsStart
<1>9. CallsAnnounced'
  <2> SUFFICES ASSUME ~destroyed, NEW d \in Calls, NEW a \in call'[d].via
               PROVE  <<d, a, call'[d].project>> \in starts'
    BY <1>1 DEF CallsAnnounced
  <2>1. CASE d = c
    <3>1. <<c, a, config.project>> \in T  BY <2>1 DEF Traces
    <3> QED  BY <1>5, <2>1, <3>1
  <2>2. CASE d # c
    <3>1. call'[d] = call[d]  BY <2>2
    <3>2. <<d, a, call[d].project>> \in starts  BY <1>0, <3>1 DEF CallsAnnounced
    <3> QED  BY <1>4, <3>1, <3>2
  <2> QED  BY <2>1, <2>2
<1>10. JobsAnnounced'
  <2> SUFFICES ASSUME ~destroyed, NEW j \in jobs', j[2] # Axios PROVE j \in starts'
    BY <1>1 DEF JobsAnnounced
  <2>1. j \in jobs \/ j \in T  OBVIOUS
  <2>2. j \in jobs => j \in starts  BY <1>0 DEF JobsAnnounced
  <2> QED  BY <1>4, <1>5, <2>1, <2>2
<1> QED  BY <1>7, <1>8, <1>9, <1>10 DEF Inv

\* What Begins() and Fails() make of the calls.
LEMMA CallMade ==
  ASSUME TypeOK, NEW c \in Calls, NEW by \in Kind, NEW via \in SUBSET Adapters,
         NEW heard \in BOOLEAN, NEW why \in {"filter", "broken"},
         Begins(c, by, via, heard) \/ Fails(c, by, via, why)
  PROVE  /\ call' \in [Calls -> Record]
         /\ call'[c].via = via /\ call'[c].project = config.project
         /\ \A d \in Calls : d # c => call'[d] = call[d]
<1>1. call \in [Calls -> Record]  BY DEF TypeOK, Record, Kind
<1>2. config.project \in Projects  BY DEF TypeOK, Config
<1>3. CASE Begins(c, by, via, heard)
  <2> DEFINE r == [pc |-> "pending", by |-> by, via |-> via, project |-> config.project,
                   heard |-> heard, result |-> "none"]
  <2>1. r \in Record  BY <1>2 DEF Record
  <2>2. call' = [call EXCEPT ![c] = r]  BY <1>3 DEF Begins
  <2>3. call'[c] = r /\ \A d \in Calls : d # c => call'[d] = call[d]  BY <1>1, <2>2
  <2>4. r.via = via /\ r.project = config.project  OBVIOUS
  <2> HIDE DEF r
  <2> QED  BY <1>1, <2>1, <2>2, <2>3, <2>4
<1>4. CASE Fails(c, by, via, why)
  <2> DEFINE r == [pc |-> "done", by |-> by, via |-> via, project |-> config.project,
                   heard |-> FALSE, result |-> why]
  <2>1. r \in Record  BY <1>2 DEF Record
  <2>2. call' = [call EXCEPT ![c] = r]  BY <1>4 DEF Fails
  <2>3. call'[c] = r /\ \A d \in Calls : d # c => call'[d] = call[d]  BY <1>1, <2>2
  <2>4. r.via = via /\ r.project = config.project  OBVIOUS
  <2> HIDE DEF r
  <2> QED  BY <1>1, <2>1, <2>2, <2>3, <2>4
<1> QED  BY <1>3, <1>4

\* A call of a wrapper announces the traces it begins.
LEMMA WrappedInv ==
  ASSUME Inv, NEW c \in Calls, NEW by \in Kind, NEW W \in SUBSET Adapters, NEW ok \in BOOLEAN,
         Wrapped(c, by, W, ok), UNCHANGED <<hostVars, ends>>
  PROVE  Inv'
<1>0. TypeOK  BY DEF Inv
<1>1. CASE W # {} /\ ShouldLog = "throws"
  <2>1. Fails(c, by, {}, "filter") /\ UNCHANGED <<jobs, starts>>  BY <1>1 DEF Wrapped
  <2>2. HandleStarts(Traces(c, {}, config.project))
    BY <2>1 DEF HandleStarts, Traces
  <2>3. /\ call' \in [Calls -> Record]
        /\ call'[c].via = {} /\ call'[c].project = config.project
        /\ \A d \in Calls : d # c => call'[d] = call[d]
    BY <1>0, <2>1, CallMade
  <2> QED  BY <2>1, <2>2, <2>3, MadeInv
<1>2. CASE ~(W # {} /\ ShouldLog = "throws")
  <2> DEFINE via == IF ShouldLog = "yes" THEN W ELSE {}
             T   == Traces(c, via, config.project)
  <2>1. HandleStarts(T)  BY <1>2 DEF Wrapped
  <2>2. \/ Begins(c, by, via, FALSE) /\ jobs' = jobs
        \/ Fails(c, by, via, "broken") /\ jobs' = jobs \cup T
    BY <1>2 DEF Wrapped
  <2>3. via # {} => config.enabled  BY DEF ShouldLog
  <2>4. via \in SUBSET Adapters  OBVIOUS
  <2> HIDE DEF via
  <2>5. /\ call' \in [Calls -> Record]
        /\ call'[c].via = via /\ call'[c].project = config.project
        /\ \A d \in Calls : d # c => call'[d] = call[d]
    <3>1. CASE Begins(c, by, via, FALSE)  BY <1>0, <2>4, <3>1, CallMade
    <3>2. CASE Fails(c, by, via, "broken")  BY <1>0, <2>4, <3>2, CallMade
    <3> QED  BY <2>2, <3>1, <3>2
  <2>6. jobs' = jobs \/ jobs' = jobs \cup T  BY <2>2
  <2> QED  BY <2>1, <2>3, <2>4, <2>5, <2>6, MadeInv
<1> QED  BY <1>1, <1>2

\* So does a call of any of the three adapters.
LEMMA CallInv ==
  ASSUME Inv, NEW c \in Calls, CallFetch(c) \/ CallAxios(c) \/ CallCycle(c) PROVE Inv'
<1>0. TypeOK  BY DEF Inv
<1>1. CASE CallFetch(c)
  <2>1. Reach(current) \cap Fetches \in SUBSET Adapters  BY DEF Adapters
  <2>2. (Native \in Reach(current)) \in BOOLEAN  OBVIOUS
  <2>3. /\ Wrapped(c, "fetch", Reach(current) \cap Fetches, Native \in Reach(current))
        /\ UNCHANGED <<hostVars, ends>>
    BY <1>1 DEF CallFetch
  <2> QED  BY <2>1, <2>2, <2>3, WrappedInv DEF Kind
<1>2. CASE CallCycle(c)
  <2> DEFINE W == IF cycle THEN {Cycle} ELSE {}
  <2>1. W \in SUBSET Adapters  BY DEF Adapters
  <2>2. Wrapped(c, "cycletls", W, TRUE) /\ UNCHANGED <<hostVars, ends>>
    BY <1>2 DEF CallCycle
  <2> HIDE DEF W
  <2> QED  BY <2>1, <2>2, WrappedInv DEF Kind
<1>3. CASE CallAxios(c)
  <2> DEFINE via == IF axios /\ ShouldLog = "yes" THEN {Axios} ELSE {}
  <2>1. /\ HandleStarts(Traces(c, via, config.project))
        /\ Begins(c, "axios", via, axios)
        /\ UNCHANGED <<hostVars, jobs, ends>>
    BY <1>3 DEF CallAxios
  <2>2. via \in SUBSET Adapters  BY DEF Adapters
  <2>3. via # {} => config.enabled  BY DEF ShouldLog
  <2>4. axios \in BOOLEAN  BY <1>0 DEF TypeOK
  <2> HIDE DEF via
  <2>5. /\ call' \in [Calls -> Record]
        /\ call'[c].via = via /\ call'[c].project = config.project
        /\ \A d \in Calls : d # c => call'[d] = call[d]
    BY <1>0, <2>1, <2>2, <2>4, CallMade DEF Kind
  <2> QED  BY <2>1, <2>2, <2>3, <2>5, MadeInv
<1> QED  BY <1>1, <1>2, <1>3

-----------------------------------------------------------------------------
\* The logs that are deferred belong to traces of the call, or to the axios adapter.
LEMMA SettlesInv == ASSUME Inv, NEW c \in Calls, Settles(c) PROVE Inv'
<1>0. TypeOK /\ EndFollowsStart /\ CallsAnnounced /\ JobsAnnounced  BY DEF Inv
<1>1. UNCHANGED <<config, destroyed, current, original, axios, cycle, changes, disorder,
                  starts, ends>>
  BY DEF Settles, hostVars
<1>2. call \in [Calls -> Record]  BY <1>0 DEF TypeOK, Record, Kind
<1>3. call' = [call EXCEPT ![c] = [call[c] EXCEPT !.pc = "done", !.result = "native"]]
  BY <1>2 DEF Settles, Record
<1>4. [call[c] EXCEPT !.pc = "done", !.result = "native"] \in Record
  BY <1>2 DEF Record
<1>5. call' \in [Calls -> Record]  BY <1>2, <1>3, <1>4
<1>6. \A d \in Calls : call'[d].via = call[d].via /\ call'[d].project = call[d].project
  BY <1>2, <1>3 DEF Record
<1> DEFINE T == Traces(c, call[c].via, call[c].project)
<1>7. \A j \in jobs' : j \in jobs \/ j \in T \/ j = <<c, Axios, None>>
  BY DEF Settles
<1>8. T \subseteq Trace
  <2>1. call[c].via \in SUBSET Adapters /\ call[c].project \in Projects \cup {None}
    BY <1>2 DEF Record
  <2> QED  BY <2>1 DEF Traces, Trace
<1>9. <<c, Axios, None>> \in Trace  BY DEF Trace, Adapters
<1>10. jobs' \subseteq Trace
  <2>1. jobs \subseteq Trace  BY <1>0 DEF TypeOK
  <2> QED  BY <1>7, <1>8, <1>9, <2>1
<1>11. TypeOK'  BY <1>0, <1>1, <1>5, <1>10 DEF TypeOK, Record, Kind
<1>12. EndFollowsStart'  BY <1>0, <1>1 DEF EndFollowsStart
<1>13. CallsAnnounced'  BY <1>0, <1>1, <1>6 DEF CallsAnnounced
<1>14. JobsAnnounced'
  <2> SUFFICES ASSUME ~destroyed, NEW j \in jobs', j[2] # Axios PROVE j \in starts
    BY <1>1 DEF JobsAnnounced
  <2>1. j \in jobs => j \in starts  BY <1>0 DEF JobsAnnounced
  <2>2. j \in T => j \in starts  BY <1>0 DEF CallsAnnounced, Traces
  <2>3. j # <<c, Axios, None>>  OBVIOUS
  <2> QED  BY <1>7, <2>1, <2>2, <2>3
<1> QED  BY <1>11, <1>12, <1>13, <1>14 DEF Inv

\* A log that is built sends at most one end, e, and only while the core stands.
LEMMA BuiltInv ==
  ASSUME Inv, NEW e \in Trace,
         ~destroyed /\ e[2] \in Fetches \cup {Cycle} => e \in starts,
         ~destroyed /\ e[2] = Axios => \E p \in Projects : <<e[1], Axios, p>> \in starts,
         HandleLog(e) \/ ends' = ends,
         jobs' \subseteq jobs, UNCHANGED <<hostVars, call, starts>>
  PROVE  Inv'
<1>0. TypeOK /\ EndFollowsStart /\ CallsAnnounced /\ JobsAnnounced  BY DEF Inv
<1>1. UNCHANGED <<config, destroyed, current, original, axios, cycle, changes, disorder,
                  call, starts>>
  BY DEF hostVars
<1>2. ends' = ends \/ (~destroyed /\ ends' = ends \cup {e})  BY DEF HandleLog
<1>3. jobs' \subseteq Trace /\ ends' \subseteq Trace  BY <1>0, <1>2 DEF TypeOK
<1>4. TypeOK'  BY <1>0, <1>1, <1>3 DEF TypeOK
<1>5. EndFollowsStart'
  <2> SUFFICES ASSUME NEW f \in ends'
               PROVE  /\ f[2] \in Fetches \cup {Cycle} => f \in starts
                      /\ f[2] = Axios => \E p \in Projects : <<f[1], Axios, p>> \in starts
    BY <1>1 DEF EndFollowsStart
  <2>1. CASE f \in ends  BY <1>0, <2>1 DEF EndFollowsStart
  <2>2. CASE ~destroyed /\ f = e  BY <2>2
  <2> QED  BY <1>2, <2>1, <2>2
<1>6. CallsAnnounced'  BY <1>0, <1>1 DEF CallsAnnounced
<1>7. JobsAnnounced'  BY <1>0, <1>1 DEF JobsAnnounced
<1> QED  BY <1>4, <1>5, <1>6, <1>7 DEF Inv

\* A deferred log ends a trace that was announced.
LEMMA LogInv == ASSUME Inv, NEW job \in jobs, BuildLog(job) \/ BuildAxiosLog(job) PROVE Inv'
<1>0. TypeOK /\ CallsAnnounced /\ JobsAnnounced  BY DEF Inv
<1>1. job \in Trace  BY <1>0 DEF TypeOK
<1>2. jobs' \subseteq jobs /\ UNCHANGED <<hostVars, call, starts>>
  BY DEF BuildLog, BuildAxiosLog
<1>3. CASE BuildLog(job)
  <2>1. HandleLog(job) /\ job[2] # Axios  BY <1>3 DEF BuildLog
  <2>2. ~destroyed => job \in starts  BY <1>0, <2>1 DEF JobsAnnounced
  <2> QED  BY <1>1, <1>2, <2>1, <2>2, BuiltInv
<1>4. CASE BuildAxiosLog(job)
  <2> DEFINE a == IF Axios \in call[job[1]].via THEN Axios ELSE None
             e == <<job[1], a, config.project>>
  <2>1. HandleLog(e) \/ ends' = ends  BY <1>4 DEF BuildAxiosLog
  <2>2. config.project \in Projects /\ job[1] \in Calls
    BY <1>0, <1>1 DEF TypeOK, Config, Trace
  <2>3. e \in Trace  BY <2>2 DEF Trace, Adapters
  <2>4. e[2] \notin Fetches \cup {Cycle}  BY AdaptersAssumption
  <2>5. ~destroyed /\ e[2] = Axios => \E p \in Projects : <<e[1], Axios, p>> \in starts
    <3> SUFFICES ASSUME ~destroyed, a = Axios
                 PROVE  \E p \in Projects : <<job[1], Axios, p>> \in starts
      OBVIOUS
    <3>1. Axios \in call[job[1]].via  BY AdaptersAssumption
    <3>2. <<job[1], Axios, call[job[1]].project>> \in starts
      BY <1>0, <2>2, <3>1 DEF CallsAnnounced
    <3>3. <<job[1], Axios, call[job[1]].project>> \in Calls \X Adapters \X Projects
      BY <1>0, <3>2 DEF TypeOK
    <3>4. call[job[1]].project \in Projects  BY <3>3
    <3> QED  BY <3>2, <3>4
  <2> HIDE DEF e
  <2> QED  BY <1>2, <2>1, <2>3, <2>4, <2>5, BuiltInv
<1> QED  BY <1>3, <1>4

\* Every step keeps the invariant.
LEMMA NextInv == ASSUME Inv, [Next]_vars PROVE Inv'
<1>1. CASE Host  BY <1>1, HostInv
<1>2. ASSUME NEW c \in Calls, CallFetch(c) \/ CallAxios(c) \/ CallCycle(c) PROVE Inv'
  BY <1>2, CallInv
<1>3. ASSUME NEW c \in Calls, Settles(c) PROVE Inv'  BY <1>3, SettlesInv
<1>4. ASSUME NEW job \in jobs, BuildLog(job) \/ BuildAxiosLog(job) PROVE Inv'
  BY <1>4, LogInv
<1>5. CASE UNCHANGED vars
  <2>1. UNCHANGED <<config, destroyed, current, original, axios, cycle, changes, disorder,
                    call, jobs, starts, ends>>
    BY <1>5 DEF vars, hostVars
  <2>2. TypeOK'  BY <2>1 DEF Inv, TypeOK
  <2>3. EndFollowsStart'  BY <2>1 DEF Inv, EndFollowsStart
  <2>4. CallsAnnounced'  BY <2>1 DEF Inv, CallsAnnounced
  <2>5. JobsAnnounced'  BY <2>1 DEF Inv, JobsAnnounced
  <2> QED  BY <2>2, <2>3, <2>4, <2>5 DEF Inv
<1> QED  BY <1>1, <1>2, <1>3, <1>4, <1>5 DEF Next

-----------------------------------------------------------------------------
\* The state of the SDK (configuration, wrappers, calls, messages) is well typed.
THEOREM TypeCorrect == Spec => []TypeOK
<1>1. Init => Inv  BY InitInv
<1>2. Inv /\ [Next]_vars => Inv'  BY NextInv
<1>3. Inv => TypeOK  BY DEF Inv
<1> QED  BY <1>1, <1>2, <1>3, PTL DEF Spec

\* Every end with the id of a trace follows its start, and under fetch and CycleTLS
\* names the project the start named.
THEOREM EndsAreAnnounced == Spec => []EndFollowsStart
<1>1. Init => Inv  BY InitInv
<1>2. Inv /\ [Next]_vars => Inv'  BY NextInv
<1>3. Inv => EndFollowsStart  BY DEF Inv
<1> QED  BY <1>1, <1>2, <1>3, PTL DEF Spec

-----------------------------------------------------------------------------
(* Tracing leaves the host as it was.                                      *)

(* A nonempty set of natural numbers has a least element.                  *)
LEMMA LeastElement ==
  ASSUME NEW T, T \subseteq Nat, T # {}
  PROVE  \E x \in T : \A y \in T : x <= y
<1>1. PICK x \in T : \A y \in T : <<y, x>> \notin OpToRel(<, Nat)
  BY NatLessThanWellFounded, WFMin
<1>2. \A y \in T : ~ (y < x)  BY <1>1 DEF OpToRel
<1> QED  BY <1>2

\* The wrappers of the global fetch, the innermost first: each adapter that is installed
\* once, and each calls the one below.
Stacked(s, n) ==
  /\ n \in Nat /\ s \in [1 .. n -> Fetches]
  /\ \A i, j \in 1 .. n : s[i] = s[j] => i = j
  /\ \A a \in Fetches : original[a] = None \/ \E i \in 1 .. n : s[i] = a
  /\ \A i \in 1 .. n : original[s[i]] = IF i = 1 THEN Native ELSE s[i - 1]
  /\ current = IF n = 0 THEN Native ELSE s[n]

\* They are stacked until one is ejected that is not the outermost.
StackInv == ~disorder => \E n, s : Stacked(s, n)

(* From the top of the stack a call comes down to the platform's fetch.    *)
LEMMA StackReaches ==
  ASSUME NEW n, NEW s, Stacked(s, n)
  PROVE  Native \in Reach(current)
<1> DEFINE Callable == Fetches \cup {Native, None}
<1> SUFFICES ASSUME NEW S \in SUBSET Callable, current \in S,
                    \A a \in S \cap Fetches : original[a] \in S
             PROVE  Native \in S
  BY DEF Reach
<1>1. CASE n = 0  BY <1>1 DEF Stacked
<1>2. CASE n # 0
  <2>1. n \in Nat /\ n > 0 /\ 1 \in 1 .. n  BY <1>2 DEF Stacked
  <2> DEFINE T == {k \in Nat : k < n /\ s[n - k] \notin S}
  <2>2. ASSUME T # {}  PROVE FALSE
    <3>1. PICK k \in T : \A y \in T : k <= y
      <4>1. T \subseteq Nat  OBVIOUS
      <4> HIDE DEF T
      <4> QED  BY <2>2, <4>1, LeastElement
    <3>2. k \in Nat /\ k < n /\ s[n - k] \notin S  OBVIOUS
    <3>3. k # 0
      <4>1. s[n] \in S  BY <1>2 DEF Stacked
      <4> QED  BY <2>1, <3>2, <4>1
    <3> DEFINE i == n - (k - 1)
    <3>4. k - 1 \in Nat /\ k - 1 < n /\ ~(k <= k - 1) /\ i \in 1 .. n /\ i # 1 /\ i - 1 = n - k
      BY <2>1, <3>2, <3>3
    <3>5. s[i] \in S  BY <3>1, <3>4
    <3> HIDE DEF i, T
    <3>6. s[i] \in Fetches /\ original[s[i]] = s[i - 1]  BY <3>4 DEF Stacked
    <3> QED  BY <3>2, <3>4, <3>5, <3>6
  <2>3. s[1] \in S
    <3>1. n - 1 \notin T  BY <2>2
    <3>2. n - 1 \in Nat /\ n - 1 < n /\ n - (n - 1) = 1  BY <2>1
    <3> QED  BY <3>1, <3>2
  <2>4. s[1] \in Fetches /\ original[s[1]] = Native  BY <2>1 DEF Stacked
  <2> QED  BY <2>3, <2>4
<1> QED  BY <1>1, <1>2

(* install() puts a wrapper on the stack.                                  *)
LEMMA StackInstall ==
  ASSUME NEW n, NEW s, Stacked(s, n), TypeOK, NEW a \in Fetches, InstallFetch(a)
  PROVE  \E t : Stacked(t, n + 1)'
<1> DEFINE t == [i \in 1 .. n + 1 |-> IF i = n + 1 THEN a ELSE s[i]]
<1>1. n \in Nat /\ \A i \in 1 .. n : i \in 1 .. n + 1 /\ i # n + 1  BY DEF Stacked
<1>2. /\ original[a] = None /\ original' = [original EXCEPT ![a] = current] /\ current' = a
  BY DEF InstallFetch
<1>3. \A i \in 1 .. n + 1 : i = n + 1 \/ i \in 1 .. n  BY <1>1
<1>4. n + 1 \in 1 .. n + 1 /\ n + 1 \in Nat /\ n + 1 # 0  BY <1>1
<1>5. /\ t[n + 1] = a /\ t \in [1 .. n + 1 -> Fetches]
      /\ \A i \in 1 .. n : t[i] = s[i] /\ s[i] \in Fetches /\ i # n + 1
  BY <1>1, <1>3, <1>4 DEF Stacked
<1> HIDE DEF t
<1>6. \A i \in 1 .. n : s[i] # a
  <2>1. None # Native /\ None \notin Fetches  BY AdaptersAssumption
  <2>2. \A i \in 1 .. n : i # 1 => i - 1 \in 1 .. n  BY <1>1
  <2>3. \A i \in 1 .. n : original[s[i]] \in Fetches \cup {Native}  BY <2>2 DEF Stacked
  <2> QED  BY <1>2, <2>1, <2>3
<1>7. \A i, j \in 1 .. n + 1 : t[i] = t[j] => i = j
  BY <1>3, <1>5, <1>6 DEF Stacked
<1>8. \A b \in Fetches : original'[b] = IF b = a THEN current ELSE original[b]
  BY <1>2 DEF TypeOK
<1>9. \A b \in Fetches : original'[b] = None \/ \E i \in 1 .. n + 1 : t[i] = b
  BY <1>1, <1>4, <1>5, <1>8 DEF Stacked
<1>10. ASSUME NEW i \in 1 .. n + 1  PROVE original'[t[i]] = IF i = 1 THEN Native ELSE t[i - 1]
  <2>1. CASE i = n + 1
    <3>1. original'[t[i]] = current  BY <1>5, <1>8, <2>1
    <3>2. CASE n = 0  BY <2>1, <3>1, <3>2 DEF Stacked
    <3>3. CASE n # 0
      <4>1. i # 1 /\ i - 1 = n /\ n \in 1 .. n  BY <1>1, <2>1, <3>3
      <4> QED  BY <1>5, <3>1, <3>3, <4>1 DEF Stacked
    <3> QED  BY <3>2, <3>3
  <2>2. CASE i \in 1 .. n
    <3>1. original'[t[i]] = original[s[i]]  BY <1>5, <1>6, <1>8, <2>2
    <3>2. i # 1 => i - 1 \in 1 .. n  BY <1>1, <2>2
    <3> QED  BY <1>5, <2>2, <3>1, <3>2 DEF Stacked
  <2> QED  BY <1>3, <2>1, <2>2
<1>11. Stacked(t, n + 1)'  BY <1>2, <1>4, <1>5, <1>7, <1>9, <1>10 DEF Stacked
<1> QED  BY <1>11

(* eject() of the outermost wrapper takes it off.                          *)
LEMMA StackEject ==
  ASSUME NEW n, NEW s, Stacked(s, n), TypeOK, NEW a \in Fetches, EjectFetch(a), current = a
  PROVE  \E t : Stacked(t, n - 1)'
<1> DEFINE t == [i \in 1 .. n - 1 |-> s[i]]
<1>1. n \in Nat /\ n # 0 /\ s[n] = a  BY AdaptersAssumption DEF Stacked
<1>2. original' = [original EXCEPT ![a] = None] /\ current' = original[a]
  BY DEF EjectFetch
<1>3. /\ n - 1 \in Nat /\ n \in 1 .. n
      /\ \A i \in 1 .. n - 1 : i \in 1 .. n /\ i # n
      /\ \A i \in 1 .. n : i = n \/ i \in 1 .. n - 1
      /\ \A i \in 1 .. n : i # 1 => i - 1 \in 1 .. n - 1
  BY <1>1
<1>4. t \in [1 .. n - 1 -> Fetches] /\ \A i \in 1 .. n - 1 : t[i] = s[i]
  BY <1>3 DEF Stacked
<1> HIDE DEF t
<1>5. \A i \in 1 .. n - 1 : s[i] # a  BY <1>1, <1>3 DEF Stacked
<1>6. \A b \in Fetches : original'[b] = IF b = a THEN None ELSE original[b]
  BY <1>2 DEF TypeOK
<1>7. \A i, j \in 1 .. n - 1 : t[i] = t[j] => i = j  BY <1>3, <1>4 DEF Stacked
<1>8. \A b \in Fetches : original'[b] = None \/ \E i \in 1 .. n - 1 : t[i] = b
  BY <1>1, <1>3, <1>4, <1>6 DEF Stacked
<1>9. ASSUME NEW i \in 1 .. n - 1  PROVE original'[t[i]] = IF i = 1 THEN Native ELSE t[i - 1]
  <2>1. s[i] \in Fetches /\ i \in 1 .. n  BY <1>3 DEF Stacked
  <2>2. original'[t[i]] = original[s[i]]  BY <1>4, <1>5, <1>6, <2>1
  <2>3. i # 1 => i - 1 \in 1 .. n - 1  BY <1>3, <2>1
  <2> QED  BY <1>4, <2>1, <2>2, <2>3 DEF Stacked
<1>10. current' = IF n - 1 = 0 THEN Native ELSE t[n - 1]
  <2>1. current' = IF n = 1 THEN Native ELSE s[n - 1]  BY <1>1, <1>2, <1>3 DEF Stacked
  <2>2. (n = 1 <=> n - 1 = 0) /\ (n # 1 => n - 1 \in 1 .. n - 1)  BY <1>1
  <2> QED  BY <1>4, <2>1, <2>2
<1>11. Stacked(t, n - 1)'  BY <1>3, <1>4, <1>7, <1>8, <1>9, <1>10 DEF Stacked
<1> QED  BY <1>11

(* The stack stays one while ejects are in order.                          *)
LEMMA StackStep == TypeOK /\ StackInv /\ [Next]_vars => StackInv'
<1> SUFFICES ASSUME TypeOK, StackInv, [Next]_vars, ~disorder'  PROVE \E n, s : Stacked(s, n)'
  BY DEF StackInv
<1>1. CASE UNCHANGED <<current, original, disorder>>  BY <1>1 DEF StackInv, Stacked
<1>2. ASSUME NEW a \in Fetches, InstallFetch(a)  PROVE \E n, s : Stacked(s, n)'
  <2>1. ~disorder  BY <1>2 DEF InstallFetch
  <2>2. PICK n, s : Stacked(s, n)  BY <2>1 DEF StackInv
  <2> QED  BY <1>2, <2>2, StackInstall
<1>3. ASSUME NEW a \in Fetches, EjectFetch(a)  PROVE \E n, s : Stacked(s, n)'
  <2>1. ~disorder /\ current = a  BY <1>3 DEF EjectFetch, TypeOK
  <2>2. PICK n, s : Stacked(s, n)  BY <2>1 DEF StackInv
  <2> QED  BY <1>3, <2>1, <2>2, StackEject
<1>4. CASE UpdateConfig \/ Destroy \/ ToggleAxios \/ ToggleCycle
  BY <1>1, <1>4 DEF UpdateConfig, Destroy, ToggleAxios, ToggleCycle
<1>5. ASSUME NEW c \in Calls, CallFetch(c) \/ CallAxios(c) \/ CallCycle(c) \/ Settles(c)
      PROVE  \E n, s : Stacked(s, n)'
  BY <1>1, <1>5 DEF CallFetch, CallAxios, CallCycle, Settles, hostVars
<1>6. ASSUME NEW job \in jobs, BuildLog(job) \/ BuildAxiosLog(job)
      PROVE  \E n, s : Stacked(s, n)'
  BY <1>1, <1>6 DEF BuildLog, BuildAxiosLog, hostVars
<1>7. CASE UNCHANGED vars  BY <1>1, <1>7 DEF vars, hostVars
<1> QED  BY <1>2, <1>3, <1>4, <1>5, <1>6, <1>7 DEF Next, Host

(* While it is one, fetch reaches the platform's.                          *)
LEMMA StackRestores == StackInv => FetchRestored
<1> SUFFICES ASSUME ~disorder, NEW n, NEW s, Stacked(s, n)
             PROVE  /\ Native \in Reach(current)
                    /\ (\A a \in Fetches : original[a] = None) => current = Native
  BY DEF StackInv, FetchRestored
<1>1. Native \in Reach(current)  BY StackReaches
<1>2. ASSUME \A a \in Fetches : original[a] = None  PROVE current = Native
  <2>1. None # Native  BY AdaptersAssumption
  <2>2. ASSUME n # 0  PROVE FALSE
    <3>1. 1 \in 1 .. n  BY <2>2 DEF Stacked
    <3>2. s[1] \in Fetches /\ original[s[1]] = Native  BY <3>1 DEF Stacked
    <3> QED  BY <1>2, <2>1, <3>2
  <2> QED  BY <2>2 DEF Stacked
<1> QED  BY <1>1, <1>2

(* No call gets an error of the adapters but those that CallerUnharmed     *)
(* names.                                                                  *)
LEMMA UnharmedStep ==
  ASSUME TypeOK, CallerUnharmed, FetchRestored, [Next]_vars
  PROVE  CallerUnharmed'
<1>1. disorder => disorder'
  <2>1. CASE Host
    BY <2>1 DEF Host, UpdateConfig, Destroy, InstallFetch, EjectFetch, ToggleAxios, ToggleCycle
  <2>2. CASE hostVars' = hostVars  BY <2>2 DEF hostVars
  <2> QED
    BY <2>1, <2>2 DEF Next, CallFetch, CallAxios, CallCycle, Settles, BuildLog, BuildAxiosLog,
                      vars
<1>2. CASE call' = call  BY <1>1, <1>2 DEF CallerUnharmed
<1>3. ASSUME NEW c \in Calls, NEW r, call' = [call EXCEPT ![c] = r],
             r.result = "filter" => r.by # "axios", r.result = "broken" => disorder'
      PROVE  CallerUnharmed'
  <2>1. \A d \in Calls : call'[d] = IF d = c THEN r ELSE call[d]  BY <1>3 DEF TypeOK
  <2> QED  BY <1>1, <1>3, <2>1 DEF CallerUnharmed
<1>4. ASSUME NEW c \in Calls, NEW by, NEW W, NEW ok, Wrapped(c, by, W, ok), by # "axios",
             ~ok => disorder'
      PROVE  CallerUnharmed'
  <2>1. \A via, why : LET r == [pc |-> "done", by |-> by, via |-> via,
                project |-> config.project, heard |-> FALSE, result |-> why] IN
           r.result = why /\ r.by = by
    OBVIOUS
  <2>2. CASE Fails(c, by, {}, "filter")  BY <1>3, <1>4, <2>1, <2>2 DEF Fails
  <2>3. ASSUME NEW via, Begins(c, by, via, FALSE)  PROVE CallerUnharmed'
    BY <1>3, <2>3 DEF Begins
  <2>4. ASSUME NEW via, ~ok, Fails(c, by, via, "broken")  PROVE CallerUnharmed'
    BY <1>3, <1>4, <2>4 DEF Fails
  <2> QED  BY <1>4, <2>2, <2>3, <2>4 DEF Wrapped
<1>5. ASSUME NEW c \in Calls, CallFetch(c)  PROVE CallerUnharmed'
  <2>1. ~(Native \in Reach(current)) => disorder'  BY <1>1 DEF FetchRestored
  <2>2. Wrapped(c, "fetch", Reach(current) \cap Fetches, Native \in Reach(current))
    BY <1>5 DEF CallFetch
  <2> QED  BY <1>4, <2>1, <2>2
<1>6. ASSUME NEW c \in Calls, CallCycle(c)  PROVE CallerUnharmed'
  BY <1>4, <1>6 DEF CallCycle
<1>7. ASSUME NEW c \in Calls, CallAxios(c)  PROVE CallerUnharmed'
  <2>1. PICK via : Begins(c, "axios", via, axios)  BY <1>7 DEF CallAxios
  <2> QED  BY <1>3, <2>1 DEF Begins
<1>8. ASSUME NEW c \in Calls, Settles(c)  PROVE CallerUnharmed'
  <2>1. call' = [call EXCEPT ![c].pc = "done", ![c].result = "native"]  BY <1>8 DEF Settles
  <2>2. \A d \in Calls : \/ call'[d].result = call[d].result /\ call'[d].by = call[d].by
                        \/ call'[d].result = "native"
    BY <2>1 DEF TypeOK
  <2> QED  BY <1>1, <2>2 DEF CallerUnharmed
<1>9. CASE Host
  BY <1>2, <1>9 DEF Host, UpdateConfig, Destroy, InstallFetch, EjectFetch, ToggleAxios, ToggleCycle
<1>10. ASSUME NEW job \in jobs, BuildLog(job) \/ BuildAxiosLog(job)  PROVE CallerUnharmed'
  BY <1>2, <1>10 DEF BuildLog, BuildAxiosLog
<1>11. CASE UNCHANGED vars  BY <1>2, <1>11 DEF vars
<1> QED  BY <1>5, <1>6, <1>7, <1>8, <1>9, <1>10, <1>11 DEF Next

\* For any number of fetch adapters: while every eject takes off the outermost wrapper
\* (fetch.ts:137), fetch reaches the platform's and is the platform's again in the end, and
\* no caller gets an error that is not the call's own, but from a filter that throws.
THEOREM HostStaysUnharmed == Spec => []HostUnharmed
<1> DEFINE I == Inv /\ StackInv /\ CallerUnharmed
<1>1. Init => I
  <2> SUFFICES ASSUME Init PROVE I  OBVIOUS
  <2>1. Inv  BY InitInv
  <2>2. Stacked([i \in 1 .. 0 |-> Native], 0)
    <3>1. 1 .. 0 = {}  OBVIOUS
    <3>2. current = Native /\ \A a \in Fetches : original[a] = None  BY DEF Init
    <3> QED  BY <3>1, <3>2 DEF Stacked
  <2>3. CallerUnharmed  BY DEF Init, NewCall, CallerUnharmed
  <2> QED  BY <2>1, <2>2, <2>3 DEF StackInv
<1>2. I /\ [Next]_vars => I'
  <2> SUFFICES ASSUME I, [Next]_vars PROVE I'  OBVIOUS
  <2>1. StackInv'  BY StackStep DEF Inv
  <2>2. CallerUnharmed'  BY StackRestores, UnharmedStep DEF Inv
  <2> QED  BY <2>1, <2>2, NextInv
<1>3. I => HostUnharmed  BY StackRestores DEF HostUnharmed
<1> QED  BY <1>1, <1>2, <1>3, PTL DEF Spec
=============================================================================
