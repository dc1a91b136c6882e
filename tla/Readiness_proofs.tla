--------------------------- MODULE Readiness_proofs ---------------------------
(***************************************************************************)
(* Proofs about Readiness, for any set of overlapping probes, any set of   *)
(* dependencies and any timeout.                                           *)
(***************************************************************************)
EXTENDS Readiness, TLAPS

------------------------------------------------------------------------------
(* The inductive invariant *)

\* Who is still asked has a timer, which is not overdue, and a probe at work.
AskedTimed ==
  \A c \in Calls, i \in Indicators :
    IF checks[c][i] = "asked"
      THEN /\ calls[c].at = "checking"
           /\ timers[c][i] = calls[c].started + Timeout
      ELSE timers[c][i] = 0

\* A check is healthy because of an answer to this probe.
HealthyVouched ==
  \A c \in Calls, i \in Indicators :
    calls[c].at # "idle" /\ checks[c][i] = "healthy" => i \in vouched[c]

\* A report is there once the probe has reported, and `ok` needs every check.
OkHealthy ==
  \A c \in Calls : reports[c] = "ok" =>
    calls[c].at = "reported" /\ \A i \in Indicators : checks[c][i] = "healthy"

ReadyInv == /\ ReadinessTypeOK /\ AskedTimed /\ ReportInTime
            /\ HealthyVouched /\ OkHealthy

------------------------------------------------------------------------------
(* Steps *)

\* A check that is settled loses its timer with it.
LEMMA SettlesKeeps ==
  ASSUME ReadyInv, NEW c \in Calls, NEW i \in Indicators,
         NEW outcome \in {"healthy", "unhealthy"},
         checks[c][i] = "asked", calls[c].at = "checking",
         Settles(c, i, outcome),
         vouched' \in [Calls -> SUBSET Indicators],
         \A d \in Calls : vouched[d] \subseteq vouched'[d],
         outcome = "healthy" => i \in vouched'[c]
  PROVE  ReadyInv'
<1>1. /\ checks' \in [Calls -> [Indicators -> {"none", "asked", "healthy", "unhealthy"}]]
      /\ timers' \in [Calls -> [Indicators -> Nat]]
      /\ \A d \in Calls, j \in Indicators :
           /\ checks'[d][j] = IF d = c /\ j = i THEN outcome ELSE checks[d][j]
           /\ timers'[d][j] = IF d = c /\ j = i THEN 0 ELSE timers[d][j]
  BY DEF Settles, ReadyInv, ReadinessTypeOK
<1>2. UNCHANGED <<now, dependency, calls, reports>>
  BY DEF Settles
<1>3. ReadinessTypeOK'
  BY <1>1, <1>2 DEF ReadyInv, ReadinessTypeOK
<1>4. AskedTimed'
  BY <1>1, <1>2 DEF ReadyInv, AskedTimed
<1>5. ReportInTime'
  BY <1>1, <1>2 DEF ReadyInv, ReportInTime
<1>6. HealthyVouched'
  BY <1>1, <1>2 DEF ReadyInv, HealthyVouched
<1>7. OkHealthy'
  BY <1>1, <1>2 DEF ReadyInv, OkHealthy
<1>. QED
  BY <1>3, <1>4, <1>5, <1>6, <1>7 DEF ReadyInv

LEMMA CheckAnswersKeeps ==
  ASSUME ReadyInv, NEW c \in Calls, NEW i \in Indicators, CheckAnswers(c, i)
  PROVE  ReadyInv'
<1>. DEFINE outcome == IF dependency[i] = "up" THEN "healthy" ELSE "unhealthy"
<1>1. /\ vouched' \in [Calls -> SUBSET Indicators]
      /\ \A d \in Calls : vouched[d] \subseteq vouched'[d]
      /\ outcome = "healthy" => i \in vouched'[c]
  BY DEF CheckAnswers, ReadyInv, ReadinessTypeOK
<1>2. /\ outcome \in {"healthy", "unhealthy"}
      /\ checks[c][i] = "asked" /\ calls[c].at = "checking"
      /\ Settles(c, i, outcome)
  BY DEF CheckAnswers
<1>. HIDE DEF outcome
<1>. QED
  BY <1>1, <1>2, SettlesKeeps

LEMMA CheckTimesOutKeeps ==
  ASSUME ReadyInv, NEW c \in Calls, NEW i \in Indicators, CheckTimesOut(c, i)
  PROVE  ReadyInv'
<1>1. /\ checks[c][i] = "asked" /\ calls[c].at = "checking"
      /\ Settles(c, i, "unhealthy") /\ UNCHANGED vouched
  BY DEF CheckTimesOut, ReadyInv, AskedTimed
<1>. QED
  BY <1>1, SettlesKeeps DEF ReadyInv, ReadinessTypeOK

\* A probe that begins asks every dependency anew.
LEMMA ReadyKeeps ==
  ASSUME ReadyInv, NEW c \in Calls, Ready(c)
  PROVE  ReadyInv'
<1>1. /\ calls' = [calls EXCEPT ![c] = [at |-> "checking", started |-> now]]
      /\ checks' = [checks EXCEPT ![c] = [i \in Indicators |-> "asked"]]
      /\ timers' = [timers EXCEPT ![c] = [i \in Indicators |-> now + Timeout]]
      /\ vouched' = [vouched EXCEPT ![c] = {}]
      /\ UNCHANGED <<now, dependency, reports>>
      /\ calls[c].at = "idle" /\ now \in Nat /\ Timeout \in Nat \ {0}
  BY ReadinessAssumption DEF Ready, ReadyInv, ReadinessTypeOK
<1>2. ReadinessTypeOK'
  BY <1>1 DEF ReadyInv, ReadinessTypeOK
<1>3. AskedTimed'
  BY <1>1 DEF ReadyInv, ReadinessTypeOK, AskedTimed
<1>4. ReportInTime'
  BY <1>1 DEF ReadyInv, ReadinessTypeOK, ReportInTime
<1>5. HealthyVouched'
  BY <1>1 DEF ReadyInv, ReadinessTypeOK, HealthyVouched
<1>6. OkHealthy'
  BY <1>1 DEF ReadyInv, ReadinessTypeOK, OkHealthy
<1>. QED
  BY <1>2, <1>3, <1>4, <1>5, <1>6 DEF ReadyInv

\* A probe reports when every check has settled, so no timer is left.
LEMMA ReportsKeeps ==
  ASSUME ReadyInv, NEW c \in Calls, Reports(c)
  PROVE  ReadyInv'
<1>1. /\ UNCHANGED <<now, dependency, checks, timers, vouched>>
      /\ \A d \in Calls \ {c} : calls'[d] = calls[d] /\ reports'[d] = reports[d]
  BY DEF Reports, ReadyInv, ReadinessTypeOK
<1>2. /\ calls[c].at = "checking" /\ calls'[c].at = "reported"
      /\ calls' \in [Calls -> [at : {"idle", "checking", "reported"}, started : Nat]]
  BY DEF Reports, ReadyInv, ReadinessTypeOK
<1>3. /\ reports' \in [Calls -> {"none", "ok", "degraded"}]
      /\ reports'[c] = "ok" => \A i \in Indicators : checks[c][i] = "healthy"
  BY DEF Reports, ReadyInv, ReadinessTypeOK
<1>4. \A i \in Indicators : checks[c][i] \in {"healthy", "unhealthy"}
  BY DEF Reports
<1>5. ReadinessTypeOK'
  BY <1>1, <1>2, <1>3, <1>4 DEF ReadyInv, ReadinessTypeOK
<1>6. AskedTimed'
  BY <1>1, <1>4 DEF ReadyInv, AskedTimed
<1>7. ReportInTime'
  BY <1>1, <1>2, <1>4 DEF ReadyInv, AskedTimed, ReportInTime
<1>8. HealthyVouched'
  BY <1>1, <1>2 DEF ReadyInv, HealthyVouched
<1>9. OkHealthy'
  BY <1>1, <1>2, <1>3 DEF ReadyInv, OkHealthy
<1>. QED
  BY <1>5, <1>6, <1>7, <1>8, <1>9 DEF ReadyInv

\* A report that is read makes room for the next probe.
LEMMA ProbeReadsKeeps ==
  ASSUME ReadyInv, NEW c \in Calls, ProbeReads(c)
  PROVE  ReadyInv'
<1>1. /\ UNCHANGED <<now, dependency, checks, timers, vouched>>
      /\ \A d \in Calls \ {c} : calls'[d] = calls[d] /\ reports'[d] = reports[d]
  BY DEF ProbeReads, ReadyInv, ReadinessTypeOK
<1>2. /\ calls[c].at = "reported" /\ calls'[c].at = "idle"
      /\ calls' \in [Calls -> [at : {"idle", "checking", "reported"}, started : Nat]]
  BY DEF ProbeReads, CallIdle, ReadyInv, ReadinessTypeOK
<1>3. reports' \in [Calls -> {"none", "ok", "degraded"}] /\ reports'[c] = "none"
  BY DEF ProbeReads, ReadyInv, ReadinessTypeOK
<1>4. ReadinessTypeOK'
  BY <1>1, <1>2, <1>3 DEF ReadyInv, ReadinessTypeOK
<1>5. AskedTimed'
  BY <1>1, <1>2 DEF ReadyInv, AskedTimed
<1>6. ReportInTime'
  BY <1>1, <1>2 DEF ReadyInv, ReportInTime
<1>7. HealthyVouched'
  BY <1>1, <1>2 DEF ReadyInv, HealthyVouched
<1>8. OkHealthy'
  BY <1>1, <1>3 DEF ReadyInv, OkHealthy
<1>. QED
  BY <1>4, <1>5, <1>6, <1>7, <1>8 DEF ReadyInv

\* A moment passes only while some check of every probe at work has a timer
\* that is not due.
LEMMA TickKeeps ==
  ASSUME ReadyInv, ReadinessTick
  PROVE  ReadyInv'
<1>1. /\ ~Due /\ now' = now + 1 /\ now \in Nat /\ Timeout \in Nat \ {0}
      /\ UNCHANGED <<dependency, calls, checks, timers, reports, vouched>>
  BY ReadinessAssumption DEF ReadinessTick, Tick, ReadyInv, ReadinessTypeOK
<1>2. ASSUME NEW c \in Calls, calls[c].at = "checking"
      PROVE  now + 1 <= calls[c].started + Timeout
  <2>1. PICK i \in Indicators : checks[c][i] = "asked"
    BY <1>1, <1>2 DEF Due
  <2>2. timers[c][i] = calls[c].started + Timeout /\ calls[c].started \in Nat
    BY <2>1 DEF ReadyInv, ReadinessTypeOK, AskedTimed
  <2>3. ~(timers[c][i] # 0 /\ timers[c][i] <= now)
    BY <1>1, <2>1 DEF Due
  <2>. QED
    BY <1>1, <2>2, <2>3
<1>3. ReportInTime'
  BY <1>1, <1>2 DEF ReadyInv, ReportInTime
<1>4. ReadinessTypeOK'
  BY <1>1 DEF ReadyInv, ReadinessTypeOK
<1>5. (AskedTimed /\ HealthyVouched /\ OkHealthy)'
  BY <1>1 DEF ReadyInv, AskedTimed, HealthyVouched, OkHealthy
<1>. QED
  BY <1>3, <1>4, <1>5 DEF ReadyInv

------------------------------------------------------------------------------
(* Theorems *)

\* The inductive invariant holds in every state reached.
THEOREM ReadyInvariant == SpecReadiness => []ReadyInv
<1>1. InitReadiness => ReadyInv
  BY DEF InitReadiness, CallIdle, ReadyInv, ReadinessTypeOK, AskedTimed, ReportInTime,
         HealthyVouched, OkHealthy
<1>2. ReadyInv /\ [NextReadiness]_readinessVars => ReadyInv'
  <2> SUFFICES ASSUME ReadyInv, [NextReadiness]_readinessVars
               PROVE  ReadyInv'
    OBVIOUS
  <2>1. ASSUME NEW i \in Indicators, NEW state \in {"up", "wrong", "silent"},
               DependencyChanges(i, state)
        PROVE  ReadyInv'
    BY <2>1 DEF DependencyChanges, ReadyInv, ReadinessTypeOK, AskedTimed, ReportInTime,
                HealthyVouched, OkHealthy
  <2>2. CASE UNCHANGED readinessVars
    BY <2>2 DEF readinessVars, ReadyInv, ReadinessTypeOK, AskedTimed, ReportInTime,
                HealthyVouched, OkHealthy
  <2>. QED
    BY <2>1, <2>2, ReadyKeeps, ReportsKeeps, ProbeReadsKeeps, CheckAnswersKeeps,
       CheckTimesOutKeeps, TickKeeps
    DEF NextReadiness
<1>. QED
  BY <1>1, <1>2, PTL DEF SpecReadiness

\* Every state reached is well typed, and no report is made before its checks.
THEOREM ReadinessTypeCorrect == SpecReadiness => []ReadinessTypeOK
<1>1. ReadyInv => ReadinessTypeOK
  BY DEF ReadyInv
<1>. QED
  BY <1>1, ReadyInvariant, PTL

\* No probe takes longer than one check may (health.service.ts:12-15).
THEOREM ReportsInTime == SpecReadiness => []ReportInTime
<1>1. ReadyInv => ReportInTime
  BY DEF ReadyInv
<1>. QED
  BY <1>1, ReadyInvariant, PTL

\* `ok` only on the word of every dependency, given to this very probe.
THEOREM OkIsVouched == SpecReadiness => []OkMeansAll
<1>1. ReadyInv => OkMeansAll
  BY DEF ReadyInv, ReadinessTypeOK, HealthyVouched, OkHealthy, OkMeansAll
<1>. QED
  BY <1>1, ReadyInvariant, PTL
=============================================================================
