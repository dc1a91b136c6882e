------------------------------ MODULE Readiness ------------------------------
(***************************************************************************)
(* The readiness probe (modules/health): every indicator at once, each     *)
(* racing a timer, combined in one report.                                 *)
(*                                                                         *)
(* Calls of ready() overlap; each asks the dependencies anew.  A           *)
(* dependency (external) answers, answers wrongly or says nothing, and may *)
(* change at any time.  Timers fire when they are due: the event loop is   *)
(* not blocked.                                                            *)
(***************************************************************************)
EXTENDS ServerClock, FiniteSets

CONSTANTS
  Calls,          \* the calls of ready() at work at one time
  Indicators,     \* "redis" and "database", those the deployment has
  Timeout,        \* HEALTH_CHECK_TIMEOUT_MS
  ReadinessEnd    \* bound: the last moment looked at

ASSUME ReadinessAssumption == Timeout \in Nat \ {0} /\ ReadinessEnd \in Nat

VARIABLES
  dependency,     \* external: how each dependency is
  calls,          \* what each call is at
  checks,         \* how each check of a call has come out
  timers,         \* when the timer of each check fires, 0 when there is none
  reports,        \* the report of each call
  vouched         \* history: the dependencies that answered rightly during a call

readinessVars == <<now, dependency, calls, checks, timers, reports, vouched>>

CallIdle == [at |-> "idle", started |-> 0]

\* A report is made of checks that have come out.
ReadinessTypeOK ==
  /\ now \in Nat
  /\ dependency \in [Indicators -> {"up", "wrong", "silent"}]
  /\ calls \in [Calls -> [at : {"idle", "checking", "reported"}, started : Nat]]
  /\ checks \in [Calls -> [Indicators -> {"none", "asked", "healthy", "unhealthy"}]]
  /\ timers \in [Calls -> [Indicators -> Nat]]
  /\ reports \in [Calls -> {"none", "ok", "degraded"}]
  /\ vouched \in [Calls -> SUBSET Indicators]
  /\ \A c \in Calls : calls[c].at = "reported" =>
       \A i \in Indicators : checks[c][i] \in {"healthy", "unhealthy"}

InitReadiness ==
  /\ now = 0
  /\ dependency \in [Indicators -> {"up", "wrong", "silent"}]
  /\ calls = [c \in Calls |-> CallIdle]
  /\ checks = [c \in Calls |-> [i \in Indicators |-> "none"]]
  /\ timers = [c \in Calls |-> [i \in Indicators |-> 0]]
  /\ reports = [c \in Calls |-> "none"]
  /\ vouched = [c \in Calls |-> {}]

\* A mutant: the checks run with no timer beside them.
ReadyUntimed(c) ==
  /\ calls[c].at = "idle" /\ now + Timeout <= ReadinessEnd
  /\ calls' = [calls EXCEPT ![c] = [at |-> "checking", started |-> now]]
  /\ checks' = [checks EXCEPT ![c] = [i \in Indicators |-> "asked"]]
  /\ vouched' = [vouched EXCEPT ![c] = {}]
  /\ UNCHANGED <<now, dependency, timers, reports>>

\* ready: every indicator is asked, and its timer armed.
Ready(c) ==
  /\ calls[c].at = "idle" /\ now + Timeout <= ReadinessEnd
  /\ calls' = [calls EXCEPT ![c] = [at |-> "checking", started |-> now]]
  /\ checks' = [checks EXCEPT ![c] = [i \in Indicators |-> "asked"]]
  /\ timers' = [timers EXCEPT ![c] = [i \in Indicators |-> now + Timeout]]
  /\ vouched' = [vouched EXCEPT ![c] = {}]
  /\ UNCHANGED <<now, dependency, reports>>

\* A mutant: the timer of a check that was answered stays armed.
SettlesArmed(c, i, outcome) ==
  /\ checks' = [checks EXCEPT ![c][i] = outcome]
  /\ UNCHANGED <<now, dependency, calls, timers, reports>>

\* runOne, when its race is decided: the timer is cleared either way.
Settles(c, i, outcome) ==
  /\ checks' = [checks EXCEPT ![c][i] = outcome]
  /\ timers' = [timers EXCEPT ![c][i] = 0]
  /\ UNCHANGED <<now, dependency, calls, reports>>

\* The dependency answers: PONG, SELECT 1, or something else.
CheckAnswers(c, i) ==
  /\ calls[c].at = "checking" /\ checks[c][i] = "asked" /\ dependency[i] # "silent"
  /\ Settles(c, i, IF dependency[i] = "up" THEN "healthy" ELSE "unhealthy")
  /\ vouched' = IF dependency[i] = "up" THEN [vouched EXCEPT ![c] = @ \cup {i}] ELSE vouched

\* The timer fires first: whatever is answered later is not looked at.
CheckTimesOut(c, i) ==
  /\ checks[c][i] = "asked" /\ timers[c][i] # 0 /\ timers[c][i] <= now
  /\ Settles(c, i, "unhealthy")
  /\ UNCHANGED vouched

\* A mutant: the first check that settles completes the report.
ReportsFirst(c) ==
  /\ calls[c].at = "checking" /\ \E i \in Indicators : checks[c][i] \in {"healthy", "unhealthy"}
  /\ reports' = [reports EXCEPT ![c] =
       IF \A i \in Indicators : checks[c][i] = "healthy" THEN "ok" ELSE "degraded"]
  /\ calls' = [calls EXCEPT ![c].at = "reported"]
  /\ UNCHANGED <<now, dependency, checks, timers, vouched>>

\* A mutant: one healthy dependency will do.
ReportsAny(c) ==
  /\ calls[c].at = "checking" /\ \A i \in Indicators : checks[c][i] \in {"healthy", "unhealthy"}
  /\ reports' = [reports EXCEPT ![c] =
       IF \E i \in Indicators : checks[c][i] = "healthy" THEN "ok" ELSE "degraded"]
  /\ calls' = [calls EXCEPT ![c].at = "reported"]
  /\ UNCHANGED <<now, dependency, checks, timers, vouched>>

\* Promise.all: every check has settled.
Reports(c) ==
  /\ calls[c].at = "checking" /\ \A i \in Indicators : checks[c][i] \in {"healthy", "unhealthy"}
  /\ reports' = [reports EXCEPT ![c] =
       IF \A i \in Indicators : checks[c][i] = "healthy" THEN "ok" ELSE "degraded"]
  /\ calls' = [calls EXCEPT ![c].at = "reported"]
  /\ UNCHANGED <<now, dependency, checks, timers, vouched>>

\* The probe has its answer (200 or 503), and asks again at its interval.
ProbeReads(c) ==
  /\ calls[c].at = "reported"
  /\ calls' = [calls EXCEPT ![c] = CallIdle]
  /\ reports' = [reports EXCEPT ![c] = "none"]
  /\ UNCHANGED <<now, dependency, checks, timers, vouched>>

DependencyChanges(i, state) ==
  /\ dependency[i] # state
  /\ dependency' = [dependency EXCEPT ![i] = state]
  /\ UNCHANGED <<now, calls, checks, timers, reports, vouched>>

\* No moment passes while a timer is due or a report is complete.
Due == \E c \in Calls :
  \/ \E i \in Indicators : checks[c][i] = "asked" /\ timers[c][i] # 0 /\ timers[c][i] <= now
  \/ calls[c].at = "checking" /\ \A i \in Indicators : checks[c][i] # "asked"

ReadinessTick ==
  /\ ~Due /\ Tick(ReadinessEnd)
  /\ UNCHANGED <<dependency, calls, checks, timers, reports, vouched>>

NextReadiness ==
  \/ \E c \in Calls :
       \/ Ready(c) \/ Reports(c) \/ ProbeReads(c)
       \/ \E i \in Indicators : CheckAnswers(c, i) \/ CheckTimesOut(c, i)
  \/ \E i \in Indicators, state \in {"up", "wrong", "silent"} : DependencyChanges(i, state)
  \/ ReadinessTick

SpecReadiness == InitReadiness /\ [][NextReadiness]_readinessVars

\* Time does not stand still, however many probes come and go; timers fire and
\* continuations run.  No dependency has to answer.
FairReadiness ==
  /\ SF_readinessVars(ReadinessTick)
  /\ \A c \in Calls :
       /\ WF_readinessVars(Reports(c))
       /\ \A i \in Indicators : WF_readinessVars(CheckTimesOut(c, i))

------------------------------------------------------------------------------
(* Properties *)

\* The whole probe takes no longer than one check may, however many of the
\* dependencies say nothing (health.service.ts:12-15, 62-66), and leaves no
\* timer behind that would hold up the end of the process (100-104).
ReportInTime ==
  \A c \in Calls :
    IF calls[c].at = "checking"
      THEN now <= calls[c].started + Timeout
      ELSE \A i \in Indicators : timers[c][i] = 0

\* `ok` is said only when every dependency answered rightly in the course of
\* this very call: no answer of an earlier call, and none after its timer,
\* counts.
OkMeansAll == \A c \in Calls : reports[c] = "ok" => vouched[c] = Indicators

\* Every probe is answered, even if no dependency ever says anything.
Reported == \A c \in Calls : calls[c].at = "checking" ~> calls[c].at = "reported"
=============================================================================
