------------------------------- MODULE Adapters -------------------------------
(***************************************************************************)
(* The SDK inside a host program: ReqtraceCore (sdk/src/core.ts) and the   *)
(* adapters that trace calls of fetch, of an axios instance and of a       *)
(* CycleTLS client (sdk/src/adapters).                                     *)
(*                                                                         *)
(* Several FetchAdapters may wrap the one global fetch; they and the other *)
(* adapters share a core, whose configuration the host may change, as it   *)
(* may install and eject, while calls are under way.  A wrapper runs       *)
(* without a pause up to the call it wraps, and from its outcome to the    *)
(* caller's; the log is built in a later turn (setImmediate).  Logs are    *)
(* abstracted to the trace they belong to and the project they name: what  *)
(* is captured, truncated or redacted of a call does not matter here.      *)
(***************************************************************************)
EXTENDS Integers, FiniteSets

CONSTANTS
  Fetches,   (* FetchAdapter instances                                       *)
  Axios,     (* the AxiosAdapter                                             *)
  Cycle,     (* the CycleTlsAdapter                                          *)
  Native,    (* the platform's fetch                                         *)
  None,      (* null: an adapter that is not installed                       *)
  Calls,     (* calls the host makes                                         *)
  Projects,  (* project names                                                *)
  MaxChanges (* bound: installs, ejects, updateConfig()s and destroy()s      *)

ASSUME AdaptersAssumption ==
  /\ IsFiniteSet(Fetches) /\ Axios \notin Fetches /\ Cycle \notin Fetches
  /\ Axios # Cycle /\ Native \notin Fetches
  /\ None \notin Fetches \cup {Axios, Cycle, Native}
  /\ Projects # {} /\ MaxChanges \in Nat

VARIABLES
  config,    (* the part of ResolvedConfig that decides what is sent         *)
  destroyed, (* destroy() was called: no transport, no handlers              *)
  current,   (* globalThis.fetch: the platform's, or the wrapper of an adapter *)
  original,  (* originalFetch of each FetchAdapter                           *)
  axios,     (* whether the interceptors of the axios adapter are in place   *)
  cycle,     (* whether the methods of the CycleTLS client are replaced      *)
  call,      (* the calls                                                    *)
  jobs,      (* logs to be built in a later turn                             *)
  starts,    (* history: request_start messages handed to the transport      *)
  ends,      (* history: request_end messages handed to the transport        *)
  changes,   (* changes the host has made                                    *)
  disorder   (* history: a fetch wrapper was ejected that was not the outermost *)

hostVars == <<config, destroyed, current, original, axios, cycle, changes, disorder>>
vars == <<hostVars, call, jobs, starts, ends>>

Adapters == Fetches \cup {Axios, Cycle}

\* filter: lets a call through, leaves it out, or throws; beforeSend: passes a log
\* on (null does the same), drops it, or throws.
Config == [enabled : BOOLEAN, filter : {"yes", "no", "throws"},
           beforeSend : {"pass", "drop", "throws"}, project : Projects]

NewCall == [pc |-> "new", by |-> None, via |-> {}, project |-> None, heard |-> FALSE,
            result |-> "none"]

Init ==
  /\ config \in {c \in Config : c.enabled /\ c.filter = "yes" /\ c.beforeSend = "pass"}
  /\ destroyed = FALSE
  /\ current = Native /\ original = [a \in Fetches |-> None]
  /\ axios = FALSE /\ cycle = FALSE
  /\ call = [c \in Calls |-> NewCall]
  /\ jobs = {} /\ starts = {} /\ ends = {}
  /\ changes = 0 /\ disorder = FALSE

-----------------------------------------------------------------------------
(* The core.                                                               *)

\* shouldLog(): the host's filter decides, or throws.
ShouldLog == IF config.enabled THEN config.filter ELSE "no"

\* handleStart() of the traces in T; a destroyed core has no handler.
HandleStarts(T) ==
  starts' = IF config.enabled /\ ~destroyed THEN starts \cup T ELSE starts

\* Mutant of Prepared: a throwing hook loses the log.
OnlyPassed == config.beforeSend = "pass"

\* prepare(): only a hook that returns null drops the log.
Prepared == config.beforeSend # "drop"

HandleLog(trace) ==
  ends' = IF config.enabled /\ ~destroyed /\ Prepared THEN ends \cup {trace} ELSE ends

Changes == changes < MaxChanges /\ changes' = changes + 1

UpdateConfig ==
  /\ Changes
  /\ config' \in Config \ {config}
  /\ UNCHANGED <<destroyed, current, original, axios, cycle, disorder>>
  /\ UNCHANGED <<call, jobs, starts, ends>>

Destroy ==
  /\ Changes /\ ~destroyed
  /\ destroyed' = TRUE
  /\ UNCHANGED <<config, current, original, axios, cycle, disorder>>
  /\ UNCHANGED <<call, jobs, starts, ends>>

-----------------------------------------------------------------------------
(* Installing and ejecting.                                                *)

\* Mutant of InstallFetch: it may be installed twice.
InstallTwice(a) ==
  /\ Changes
  /\ original' = [original EXCEPT ![a] = current]
  /\ current' = a
  /\ UNCHANGED <<config, destroyed, axios, cycle, disorder>>
  /\ UNCHANGED <<call, jobs, starts, ends>>

\* The second install() returns early.
InstallFetch(a) ==
  /\ Changes /\ original[a] = None
  /\ original' = [original EXCEPT ![a] = current]
  /\ current' = a
  /\ UNCHANGED <<config, destroyed, axios, cycle, disorder>>
  /\ UNCHANGED <<call, jobs, starts, ends>>

\* Mutant of EjectFetch: an adapter that is not installed may be ejected.
EjectUnguarded(a) ==
  /\ Changes
  /\ current' = original[a]
  /\ original' = [original EXCEPT ![a] = None]
  /\ UNCHANGED <<config, destroyed, axios, cycle, disorder>>
  /\ UNCHANGED <<call, jobs, starts, ends>>

\* eject() puts back what it found, whatever is there now.
EjectFetch(a) ==
  /\ Changes /\ original[a] # None
  /\ current' = original[a]
  /\ original' = [original EXCEPT ![a] = None]
  /\ disorder' = (disorder \/ current # a)
  /\ UNCHANGED <<config, destroyed, axios, cycle>>
  /\ UNCHANGED <<call, jobs, starts, ends>>

ToggleAxios ==
  /\ Changes /\ axios' = ~axios
  /\ UNCHANGED <<config, destroyed, current, original, cycle, disorder>>
  /\ UNCHANGED <<call, jobs, starts, ends>>

ToggleCycle ==
  /\ Changes /\ cycle' = ~cycle
  /\ UNCHANGED <<config, destroyed, current, original, axios, disorder>>
  /\ UNCHANGED <<call, jobs, starts, ends>>

-----------------------------------------------------------------------------
(* Calls.                                                                  *)

\* What a call of w comes by, wrappers, the platform's fetch or null: what is in every
\* set that holds w and, with a wrapper, what that one calls.
Reach(w) ==
  LET Callable == Fetches \cup {Native, None}
      Closed(S) == \A a \in S \cap Fetches : original[a] \in S IN
  {x \in Callable : \A S \in SUBSET Callable : w \in S /\ Closed(S) => x \in S}

Traces(c, via, project) == {<<c, a, project>> : a \in via}

Begins(c, by, via, heard) ==
  call' = [call EXCEPT ![c] = [pc |-> "pending", by |-> by, via |-> via,
             project |-> config.project, heard |-> heard, result |-> "none"]]

\* The caller gets an error that is not the call's own.
Fails(c, by, via, why) ==
  call' = [call EXCEPT ![c] = [pc |-> "done", by |-> by, via |-> via,
             project |-> config.project, heard |-> FALSE, result |-> why]]

\* A call of wrappers W, of which "by" stands for the adapters' kind: a filter that
\* throws fails it, otherwise every wrapper starts a trace or none does; with null
\* for an original the innermost throws, and the traces note it.
Wrapped(c, by, W, ok) ==
  IF W # {} /\ ShouldLog = "throws"
  THEN Fails(c, by, {}, "filter") /\ UNCHANGED <<jobs, starts>>
  ELSE LET via == IF ShouldLog = "yes" THEN W ELSE {}
           T   == Traces(c, via, config.project) IN
       /\ HandleStarts(T)
       /\ IF ok THEN Begins(c, by, via, FALSE) /\ UNCHANGED jobs
          ELSE Fails(c, by, via, "broken") /\ jobs' = jobs \cup T

CallFetch(c) ==
  /\ call[c].pc = "new"
  /\ Wrapped(c, "fetch", Reach(current) \cap Fetches, Native \in Reach(current))
  /\ UNCHANGED <<hostVars, ends>>

CallCycle(c) ==
  /\ call[c].pc = "new"
  /\ Wrapped(c, "cycletls", IF cycle THEN {Cycle} ELSE {}, TRUE)
  /\ UNCHANGED <<hostVars, ends>>

\* axios collects the interceptors of a request when it is made; the request
\* interceptor catches what the filter throws.
CallAxios(c) ==
  LET via == IF axios /\ ShouldLog = "yes" THEN {Axios} ELSE {} IN
  /\ call[c].pc = "new"
  /\ HandleStarts(Traces(c, via, config.project))
  /\ Begins(c, "axios", via, axios)
  /\ UNCHANGED <<hostVars, jobs, ends>>

\* The call is answered or fails, and its caller is told so; the logs are deferred.
\* An error that axios made without a config is not logged.
Settles(c) ==
  /\ call[c].pc = "pending"
  /\ call' = [call EXCEPT ![c].pc = "done", ![c].result = "native"]
  /\ \/ /\ call[c].by # "axios"
        /\ jobs' = jobs \cup Traces(c, call[c].via, call[c].project)
     \/ /\ call[c].heard
        /\ jobs' = jobs \cup {<<c, Axios, None>>}
     \/ /\ call[c].by = "axios"
        /\ UNCHANGED jobs
  /\ UNCHANGED <<hostVars, starts, ends>>

\* Mutant of BuildLog: the configuration is read again.
BuildLogAnew(job) ==
  /\ job \in jobs /\ job[2] # Axios
  /\ jobs' = jobs \ {job}
  /\ HandleLog(<<job[1], job[2], config.project>>)
  /\ UNCHANGED <<hostVars, call, starts>>

\* buildAndSendLog() of the fetch and CycleTLS adapters, with the configuration of
\* the start; what is enabled now, and beforeSend, are the core's.
BuildLog(job) ==
  /\ job \in jobs /\ job[2] # Axios
  /\ jobs' = jobs \ {job}
  /\ HandleLog(job)
  /\ UNCHANGED <<hostVars, call, starts>>

\* That of the axios adapter asks the filter again, swallows what it throws, names
\* the present project, and makes up an id if the call was not traced.
BuildAxiosLog(job) ==
  /\ job \in jobs /\ job[2] = Axios
  /\ jobs' = jobs \ {job}
  /\ IF ShouldLog = "yes"
     THEN HandleLog(<<job[1], IF Axios \in call[job[1]].via THEN Axios ELSE None,
                      config.project>>)
     ELSE UNCHANGED ends
  /\ UNCHANGED <<hostVars, call, starts>>

Host ==
  \/ UpdateConfig \/ Destroy
  \/ \E a \in Fetches : InstallFetch(a) \/ EjectFetch(a)
  \/ ToggleAxios \/ ToggleCycle

Next ==
  \/ Host
  \/ \E c \in Calls : CallFetch(c) \/ CallAxios(c) \/ CallCycle(c) \/ Settles(c)
  \/ \E job \in jobs : BuildLog(job) \/ BuildAxiosLog(job)

Spec == Init /\ [][Next]_vars

\* Calls are answered or time out, and deferred callbacks run.
FairSpec ==
  /\ Spec
  /\ \A c \in Calls : WF_vars(Settles(c))
  /\ WF_vars(\E job \in jobs : BuildLog(job) \/ BuildAxiosLog(job))

-----------------------------------------------------------------------------
(* Properties.                                                             *)

Trace == (Calls \X (Adapters \cup {None}) \X (Projects \cup {None}))
TypeOK ==
  /\ config \in Config /\ destroyed \in BOOLEAN
  /\ current \in Fetches \cup {Native}
  /\ original \in [Fetches -> Fetches \cup {Native, None}]
  /\ axios \in BOOLEAN /\ cycle \in BOOLEAN /\ disorder \in BOOLEAN /\ changes \in Nat
  /\ call \in [Calls -> [pc : {"new", "pending", "done"},
                         by : {None, "fetch", "axios", "cycletls"}, via : SUBSET Adapters,
                         project : Projects \cup {None}, heard : BOOLEAN,
                         result : {"none", "native", "filter", "broken"}]]
  /\ jobs \subseteq Trace /\ starts \subseteq Calls \X Adapters \X Projects
  /\ ends \subseteq Trace

\* However the adapters of one fetch are installed, installed twice and ejected: while
\* every eject takes off the outermost wrapper, fetch reaches the platform's, and it
\* is the platform's again when all are ejected.
FetchRestored ==
  ~disorder => /\ Native \in Reach(current)
               /\ (\A a \in Fetches : original[a] = None) => current = Native

\* "Never let monitoring fail the caller's HTTP request": the caller gets what the
\* call itself gave, except from a filter that throws under fetch or CycleTLS, and
\* from a fetch whose wrappers were ejected out of order.
CallerUnharmed ==
  \A c \in Calls : /\ call[c].result = "filter" => call[c].by # "axios"
                   /\ call[c].result = "broken" => disorder

\* Tracing leaves the host as it was without: its calls, and its fetch.
HostUnharmed == FetchRestored /\ CallerUnharmed

\* An end that carries the id of a trace follows a start of it, and for fetch and
\* CycleTLS names the same project, whatever was changed, ejected or destroyed while
\* the call was under way: otherwise the dashboard cannot bring the two together.
EndFollowsStart ==
  \A e \in ends : /\ e[2] \in Fetches \cup {Cycle} => e \in starts
                  /\ e[2] = Axios => \E p \in Projects : <<e[1], Axios, p>> \in starts

\* What was announced of a call of fetch or CycleTLS is completed, unless the host
\* has meanwhile disabled or destroyed the core or drops the log; a hook that throws
\* does not lose it.
StartIsEnded ==
  \A c \in Calls, a \in Fetches \cup {Cycle}, p \in Projects :
    <<c, a, p>> \in starts /\ (call[c].pc = "pending" \/ <<c, a, p>> \in jobs)
    ~> <<c, a, p>> \in ends \/ ~config.enabled \/ destroyed \/ config.beforeSend = "drop"
=============================================================================
