---------------------------- MODULE AnalysisJobs ----------------------------
(***************************************************************************)
(* POST /analysis (modules/analysis): from a request to the verdict it is  *)
(* answered with.                                                          *)
(*                                                                         *)
(* With Redis (`queued`) a request adds a job under the hash of its link,  *)
(* workers run AnalysisService.analyze for it, and the request waits for   *)
(* the job with a timeout.  Without Redis each request runs analyze        *)
(* itself.  A run is one call of analyze, cut at its awaits.               *)
(*                                                                         *)
(* BullMQ, Redis and the origins are external.  Of time only the order is  *)
(* kept: a timer may run out, and a finished job and a cache entry may     *)
(* come to their end (an hour, 24 hours) at any moment.  A verdict carries *)
(* the number of the evaluation it comes from and what the origin showed:  *)
(* no barrier where the probe looks (`clean`), a page it refused with 401, *)
(* 402 or 403 (`refused`), where the probe does not look.                  *)
(***************************************************************************)
EXTENDS Eligibility, FiniteSets

CONSTANTS
  Links,          \* the URLs asked for
  LinkOf,         \* what each of them parses to
  Requests,       \* the HTTP requests at work at one time
  Workers,        \* worker slots of all replicas
  OriginFacts,    \* external: what an origin can show
  MaxEvals,       \* bound: evaluations
  MaxChanges      \* bound: changes of an origin

\* "ok" is every status but 401, 403 ("auth") and 402 ("pay").
ASSUME AnalysisAssumption ==
  /\ MaxEvals \in Nat /\ MaxChanges \in Nat
  /\ "nobody" \notin Workers /\ Workers \cap Requests = {}
  /\ \A facts \in OriginFacts :
       /\ facts.status \in {"ok", "auth", "pay"}
       /\ {facts.answers, facts.paywallFlag, facts.drmMarker} \subseteq BOOLEAN

VARIABLES
  queued,         \* REDIS_URL is set
  origin,         \* external: what the origin of each link shows
  changes,        \* how often an origin changed
  jobs,           \* the job of each link, as Redis has it
  runs,           \* what each worker, or each request without Redis, is at
  cache,          \* the entry of each link
  requests,
  evals,          \* how many verdicts were evaluated
  newest,         \* history: the newest verdict answered for each link
  wentBack,       \* history: links answered with an older one later on
  excused         \* history: links two runs of which Redis could not keep apart

analysisVars == <<queued, origin, changes, jobs, runs, cache, requests,
                  evals, newest, wentBack, excused>>

Runners == Workers \cup Requests

Verdict == [eligible : BOOLEAN, clean : BOOLEAN, refused : BOOLEAN, number : 0..MaxEvals]

NoVerdict == [eligible |-> FALSE, clean |-> TRUE, refused |-> FALSE, number |-> 0]

Job == [st : {"none", "waiting", "active", "completed", "failed"},
        owner : Workers \cup {"nobody"}, stalled : BOOLEAN, verdict : Verdict]

NoJob == [st |-> "none", owner |-> "nobody", stalled |-> FALSE, verdict |-> NoVerdict]

\* `at` is the call a run awaits next.
Run == [at : {"idle", "get", "head", "page", "body", "store", "finish"},
        link : Links \cup {"none"}, verdict : Verdict]

RunIdle == [at |-> "idle", link |-> "none", verdict |-> NoVerdict]

Entry == [present : BOOLEAN, verdict : Verdict]

NoEntry == [present |-> FALSE, verdict |-> NoVerdict]

\* `floor`, a history: the newest verdict answered when the request was made.
Request == [at : {"idle", "waiting"}, link : Links \cup {"none"}, floor : 0..MaxEvals]

RequestIdle == [at |-> "idle", link |-> "none", floor |-> 0]

\* Jobs are run by workers, and links without Redis by their requests.
AnalysisTypeOK ==
  /\ queued \in BOOLEAN
  /\ origin \in [Links -> OriginFacts] /\ changes \in 0..MaxChanges
  /\ jobs \in [Links -> Job] /\ cache \in [Links -> Entry]
  /\ runs \in [Runners -> Run] /\ requests \in [Requests -> Request]
  /\ evals \in 0..MaxEvals
  /\ newest \in [Links -> 0..MaxEvals]
  /\ wentBack \subseteq Links /\ excused \subseteq Links
  /\ \A l \in Links : /\ jobs[l].st = "active" <=> jobs[l].owner # "nobody"
                      /\ ~queued => jobs[l].st = "none"
  /\ \A x \in Runners :
       runs[x].at # "idle" => runs[x].link \in Links /\ (queued <=> x \in Workers)
  /\ \A r \in Requests : requests[r].at # "idle" => requests[r].link \in Links

InitAnalysis ==
  /\ queued \in BOOLEAN
  /\ origin \in [Links -> OriginFacts] /\ changes = 0
  /\ jobs = [l \in Links |-> NoJob]
  /\ runs = [x \in Runners |-> RunIdle]
  /\ cache = [l \in Links |-> NoEntry]
  /\ requests = [r \in Requests |-> RequestIdle]
  /\ evals = 0
  /\ newest = [l \in Links |-> 0]
  /\ wentBack = {} /\ excused = {}

------------------------------------------------------------------------------
(* What a request is answered with *)

\* The answer ends the request; what it shows is remembered.
AnswerWith(r, verdict) ==
  LET l == requests[r].link IN
  /\ requests' = [requests EXCEPT ![r] = RequestIdle]
  /\ newest' = IF verdict.number > newest[l] THEN [newest EXCEPT ![l] = verdict.number] ELSE newest
  /\ wentBack' = IF verdict.number < requests[r].floor THEN wentBack \cup {l} ELSE wentBack

\* An error (a failed job, 502, a timeout) shows no verdict.
AnswerError(r) ==
  requests' = [requests EXCEPT ![r] = RequestIdle] /\ UNCHANGED <<newest, wentBack>>

\* analyze begins: an unsafe link is refused before the cache is asked.
Begin(l) == [at |-> IF CheckUrlSafety(LinkOf[l]) THEN "get" ELSE "finish",
             link |-> l, verdict |-> NoVerdict]

------------------------------------------------------------------------------
(* Requests *)

\* A mutant: the job is added whatever there is under its id.
AsksAgain(r, l) ==
  /\ requests[r].at = "idle" /\ queued
  /\ requests' = [requests EXCEPT ![r] = [at |-> "waiting", link |-> l, floor |-> newest[l]]]
  /\ jobs' = [jobs EXCEPT ![l] = [NoJob EXCEPT !.st = "waiting"]]
  /\ UNCHANGED <<queued, origin, changes, runs, cache, evals, newest, wentBack, excused>>

\* A mutant: the executor without a queue is used beside it.
AsksInline(r, l) ==
  /\ requests[r].at = "idle"
  /\ requests' = [requests EXCEPT ![r] = [at |-> "waiting", link |-> l, floor |-> newest[l]]]
  /\ runs' = [runs EXCEPT ![r] = Begin(l)]
  /\ UNCHANGED <<queued, origin, changes, jobs, cache, evals, newest, wentBack, excused>>

\* execute.  Under an id that Redis has, finished or not, add adds nothing.
Asks(r, l) ==
  /\ requests[r].at = "idle"
  /\ requests' = [requests EXCEPT ![r] = [at |-> "waiting", link |-> l, floor |-> newest[l]]]
  /\ IF queued
       THEN /\ jobs' = IF jobs[l].st = "none"
                         THEN [jobs EXCEPT ![l] = [NoJob EXCEPT !.st = "waiting"]] ELSE jobs
            /\ UNCHANGED <<runs, excused>>
       ELSE /\ runs' = [runs EXCEPT ![r] = Begin(l)]
            /\ excused' = IF \E x \in Requests : runs[x].link = l
                            THEN excused \cup {l} ELSE excused
            /\ UNCHANGED jobs
  /\ UNCHANGED <<queued, origin, changes, cache, evals, newest, wentBack>>

\* waitUntilFinished; the job may be gone before its request looked at it.
HearsOfJob(r) ==
  LET job == jobs[requests[r].link] IN
  /\ queued /\ requests[r].at = "waiting"
  /\ \/ job.st = "completed" /\ AnswerWith(r, job.verdict)
     \/ job.st \in {"failed", "none"} /\ AnswerError(r)
  /\ UNCHANGED <<queued, origin, changes, jobs, runs, cache, evals, excused>>

\* JOB_TIMEOUT_MS; the job goes on.
GivesUp(r) ==
  /\ queued /\ requests[r].at = "waiting"
  /\ AnswerError(r)
  /\ UNCHANGED <<queued, origin, changes, jobs, runs, cache, evals, excused>>

------------------------------------------------------------------------------
(* The end of a run *)

\* Only the worker that still owns the job decides how it ended.
EndJob(w, st, verdict) ==
  LET l == runs[w].link IN
  IF jobs[l].owner = w
    THEN jobs' = [jobs EXCEPT ![l] = [NoJob EXCEPT !.st = st, !.verdict = verdict]]
    ELSE UNCHANGED jobs

Finishes(x) ==
  /\ runs[x].at = "finish"
  /\ runs' = [runs EXCEPT ![x] = RunIdle]
  /\ IF x \in Workers
       THEN EndJob(x, "completed", runs[x].verdict) /\ UNCHANGED <<requests, newest, wentBack>>
       ELSE AnswerWith(x, runs[x].verdict) /\ UNCHANGED jobs
  /\ UNCHANGED <<queued, origin, changes, cache, evals, excused>>

\* An awaited call rejects: the job fails, or the request does.
Ends(x) ==
  /\ runs' = [runs EXCEPT ![x] = RunIdle]
  /\ IF x \in Workers
       THEN EndJob(x, "failed", NoVerdict) /\ UNCHANGED <<requests, newest, wentBack>>
       ELSE AnswerError(x) /\ UNCHANGED jobs
  /\ UNCHANGED <<queued, origin, changes, cache, evals, excused>>

\* The cache fails, or the body of the page breaks off.
CallFails(x) == runs[x].at \in {"get", "body", "store"} /\ Ends(x)

\* A mutant: a request to the origin ends when the origin answers or refuses.
RequestRefused(x) ==
  runs[x].at \in {"head", "page"} /\ origin[runs[x].link].answers /\ Ends(x)

\* The origin refuses, or TIMEOUT_MS runs out before it answers.
RequestFails(x) == runs[x].at \in {"head", "page"} /\ Ends(x)

------------------------------------------------------------------------------
(* analyze *)

WorkerTakes(w, l) ==
  /\ queued /\ runs[w].at = "idle" /\ jobs[l].st = "waiting"
  /\ runs' = [runs EXCEPT ![w] = Begin(l)]
  /\ jobs' = [jobs EXCEPT ![l].st = "active", ![l].owner = w]
  /\ UNCHANGED <<queued, origin, changes, cache, requests, evals, newest, wentBack, excused>>

\* cache.get
ReadsCache(x) ==
  LET entry == cache[runs[x].link] IN
  /\ runs[x].at = "get"
  /\ runs' = [runs EXCEPT ![x] =
       IF entry.present
         THEN [@ EXCEPT !.at = "finish", !.verdict = entry.verdict]
         ELSE [@ EXCEPT !.at = "head"]]
  /\ UNCHANGED <<queued, origin, changes, jobs, cache, requests, evals, newest, wentBack, excused>>

\* emptyResult, with the type the origin reported
EmptyResult(type) == [contentType |-> type, paywalled |-> FALSE, drmDetected |-> FALSE,
                      requiresAuthentication |-> FALSE,
                      licenseMetadata |-> [form |-> "none", id |-> "none"]]

\* What the answer to HEAD is taken for, when the page is not asked for.
HeadResult(facts) ==
  CASE facts.status = "auth" -> [EmptyResult("none") EXCEPT !.requiresAuthentication = TRUE]
    [] facts.status = "pay"  -> [EmptyResult("none") EXCEPT !.paywalled = TRUE]
    [] OTHER                 -> EmptyResult(facts.type)

\* What is found in the page; the status of its answer is not looked at.
PageResult(facts) ==
  [EmptyResult("html") EXCEPT !.paywalled = facts.paywallFlag, !.drmDetected = facts.drmMarker,
                              !.licenseMetadata = facts.license]

\* toAnalysisContext: the probe knows of no platform, owner or format.
ToAnalysisContext(l, probe) ==
  [link |-> LinkOf[l], contentType |-> probe.contentType, drm |-> probe.drmDetected,
   paywalled |-> probe.paywalled, requiresAuthentication |-> probe.requiresAuthentication,
   licenseMetadata |-> probe.licenseMetadata,
   platform |-> [present |-> FALSE, officialDownloadEnabled |-> FALSE, formats |-> 0],
   ownership |-> [user |-> 0, owner |-> 0], directFileFormats |-> 0]

\* The verdict on what was gathered, to be stored next.
Decides(x, probe, clean) ==
  /\ evals < MaxEvals /\ evals' = evals + 1
  /\ runs' = [runs EXCEPT ![x].at = "store", ![x].verdict =
       [eligible |-> Evaluate(ToAnalysisContext(runs[x].link, probe)).eligible,
        clean |-> clean, refused |-> runs[x].verdict.refused, number |-> evals + 1]]

HeadAnswers(x) ==
  LET facts == origin[runs[x].link] IN
  /\ runs[x].at = "head" /\ facts.answers
  /\ IF facts.status = "ok" /\ facts.type = "html"
       THEN runs' = [runs EXCEPT ![x].at = "page"] /\ UNCHANGED evals
       ELSE Decides(x, HeadResult(facts), facts.status = "ok")
  /\ UNCHANGED <<queued, origin, changes, jobs, cache, requests, newest, wentBack, excused>>

\* The headers of the page: from here on no timer runs.  Its status goes into
\* the history of the run only.
PageAnswers(x) ==
  LET facts == origin[runs[x].link] IN
  /\ runs[x].at = "page" /\ facts.answers
  /\ runs' = [runs EXCEPT ![x].at = "body", ![x].verdict.refused = facts.status # "ok"]
  /\ UNCHANGED <<queued, origin, changes, jobs, cache, requests, evals, newest, wentBack, excused>>

BodyArrives(x) ==
  LET facts == origin[runs[x].link] IN
  /\ runs[x].at = "body" /\ facts.answers
  /\ Decides(x, PageResult(facts), ~facts.paywallFlag /\ ~facts.drmMarker)
  /\ UNCHANGED <<queued, origin, changes, jobs, cache, requests, newest, wentBack, excused>>

\* cache.set, before the run ends
Stores(x) ==
  /\ runs[x].at = "store"
  /\ cache' = [cache EXCEPT ![runs[x].link] =
                 [present |-> TRUE, verdict |-> runs[x].verdict]]
  /\ runs' = [runs EXCEPT ![x].at = "finish"]
  /\ UNCHANGED <<queued, origin, changes, jobs, requests, evals, newest, wentBack, excused>>

------------------------------------------------------------------------------
(* Time, faults and the origins (external) *)

\* A stalled job is run once more, then it has failed.
StallJob(l) ==
  jobs' = [jobs EXCEPT ![l] = IF jobs[l].stalled THEN [NoJob EXCEPT !.st = "failed"]
                              ELSE [NoJob EXCEPT !.st = "waiting", !.stalled = TRUE]]

WorkerDies(w) ==
  /\ runs[w].at # "idle"
  /\ runs' = [runs EXCEPT ![w] = RunIdle]
  /\ IF jobs[runs[w].link].owner = w THEN StallJob(runs[w].link) ELSE UNCHANGED jobs
  /\ UNCHANGED <<queued, origin, changes, cache, requests, evals, newest, wentBack, excused>>

\* A worker that could not renew its lock runs on beside the next.
LosesLock(w) ==
  LET l == runs[w].link IN
  /\ runs[w].at # "idle" /\ jobs[l].owner = w
  /\ StallJob(l)
  /\ excused' = excused \cup {l}
  /\ UNCHANGED <<queued, origin, changes, runs, cache, requests, evals, newest, wentBack>>

\* Without Redis the cache goes with the process.
ProcessRestarts ==
  /\ ~queued
  /\ runs' = [x \in Runners |-> RunIdle]
  /\ requests' = [r \in Requests |-> RequestIdle]
  /\ cache' = [l \in Links |-> NoEntry]
  /\ UNCHANGED <<queued, origin, changes, jobs, evals, newest, wentBack, excused>>

\* removeOnComplete, removeOnFail: an hour after it ended, when another ends.
JobRemoved(l) ==
  /\ jobs[l].st \in {"completed", "failed"}
  /\ jobs' = [jobs EXCEPT ![l] = NoJob]
  /\ UNCHANGED <<queued, origin, changes, runs, cache, requests, evals, newest, wentBack, excused>>

\* The time to live of an entry is over.
EntryExpires(l) ==
  /\ cache[l].present
  /\ cache' = [cache EXCEPT ![l] = NoEntry]
  /\ UNCHANGED <<queued, origin, changes, jobs, runs, requests, evals, newest, wentBack, excused>>

OriginChanges(l, facts) ==
  /\ changes < MaxChanges /\ changes' = changes + 1 /\ facts # origin[l]
  /\ origin' = [origin EXCEPT ![l] = facts]
  /\ UNCHANGED <<queued, jobs, runs, cache, requests, evals, newest, wentBack, excused>>

NextAnalysis ==
  \/ \E r \in Requests : (\E l \in Links : Asks(r, l)) \/ HearsOfJob(r) \/ GivesUp(r)
  \/ \E w \in Workers : (\E l \in Links : WorkerTakes(w, l)) \/ WorkerDies(w) \/ LosesLock(w)
  \/ \E x \in Runners :
       \/ ReadsCache(x) \/ HeadAnswers(x) \/ PageAnswers(x) \/ BodyArrives(x) \/ Stores(x)
       \/ Finishes(x) \/ CallFails(x) \/ RequestFails(x)
  \/ ProcessRestarts
  \/ \E l \in Links : JobRemoved(l) \/ EntryExpires(l) \/ \E facts \in OriginFacts : OriginChanges(l, facts)

SpecAnalysis == InitAnalysis /\ [][NextAnalysis]_analysisVars

\* Timers run out, Redis answers, and workers take jobs in the order they were
\* added, so that none is passed over for ever.  Nothing makes an origin
\* answer, or a body arrive.
FairAnalysis ==
  /\ \A r \in Requests : WF_analysisVars(GivesUp(r))
  /\ \A l \in Links : SF_analysisVars(\E w \in Workers : WorkerTakes(w, l))
  /\ \A x \in Runners : /\ WF_analysisVars(ReadsCache(x)) /\ WF_analysisVars(Stores(x))
                        /\ WF_analysisVars(Finishes(x)) /\ WF_analysisVars(RequestFails(x))

------------------------------------------------------------------------------
(* Properties *)

\* One link is analyzed once at a time (bullmq-analysis-executor.ts:6-7),
\* unless a worker lost the lock of its job.
OneProbe ==
  \A v, w \in Workers :
    v # w /\ runs[v].at # "idle" /\ runs[w].at # "idle" /\ runs[v].link = runs[w].link
      => runs[v].link \in excused

\* Once a verdict was answered for a link, no request asked later gets an
\* older one, neither from a job that is kept nor from the cache, unless two
\* runs of the link were under way at once and the slower stored last.
NeverGoesBack == wentBack \subseteq excused

\* The golden rule, through the whole pipeline: no verdict that is kept or
\* answered allows a download although the status of the answer to HEAD, or a
\* paywall flag or DRM marker in the page, showed a barrier.  The status of the
\* page itself is another matter: see PageBarriersSeen.
GoldenRule ==
  /\ \A l \in Links : cache[l].verdict.eligible => cache[l].verdict.clean
  /\ \A l \in Links : jobs[l].verdict.eligible => jobs[l].verdict.clean
  /\ \A x \in Runners : runs[x].verdict.eligible => runs[x].verdict.clean

\* A job does not wait for ever, unless every worker reads a body that never
\* ends: the timer of a request is cleared when its headers arrive
\* (http-metadata-probe.ts:52-53, 90-103).
JobsStart ==
  \A l \in Links : jobs[l].st = "waiting" ~>
    \/ jobs[l].st # "waiting"
    \/ \A w \in Workers : runs[w].at = "body"

\* Every request ends; without Redis no timeout covers such a body.
Answered ==
  \A r \in Requests : requests[r].at = "waiting" ~>
    requests[r].at = "idle" \/ (~queued /\ runs[r].at = "body")

------------------------------------------------------------------------------
(* What a comment in the code promises and the code does not keep *)

\* "It detects barriers (401/403, paywall flags, DRM markers)": a page that is
\* answered with 401, 402 or 403 allows no download.  Broken for an origin that
\* answered HEAD with 200 before.
PageBarriersSeen ==
  \A x \in Runners : runs[x].verdict.eligible => ~runs[x].verdict.refused
=============================================================================
