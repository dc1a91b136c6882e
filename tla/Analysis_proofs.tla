---------------------------- MODULE Analysis_proofs ----------------------------
(***************************************************************************)
(* Proofs about AnalysisJobs, for any links, requests, workers and         *)
(* origins and any number of evaluations.                                  *)
(***************************************************************************)
EXTENDS AnalysisJobs, TLAPS

------------------------------------------------------------------------------
(* The inductive invariant *)

\* The job a worker is at is its own, unless its lock was lost.
JobOwned ==
  \A w \in Workers :
    runs[w].at # "idle" /\ runs[w].link \notin excused => jobs[runs[w].link].owner = w

\* Without Redis two requests at one link are marked at once.
InlineAlone ==
  \A r, s \in Requests :
    /\ r # s /\ runs[r].at # "idle" /\ runs[s].at # "idle"
    /\ runs[r].link = runs[s].link
    => runs[r].link \in excused

\* Such a run is that of its request.
InlineAsked ==
  \A r \in Requests : runs[r].at # "idle" =>
    requests[r].at # "idle" /\ requests[r].link = runs[r].link

\* No verdict is newer than the last evaluation.
NumbersKnown ==
  /\ \A l \in Links : /\ newest[l] <= evals
                      /\ jobs[l].verdict.number <= evals
                      /\ cache[l].verdict.number <= evals
  /\ \A x \in Runners : runs[x].verdict.number <= evals

\* What is refused unread is never evaluated.
UnsafeUnread ==
  /\ \A l \in Links : ~CheckUrlSafety(LinkOf[l]) => newest[l] = 0 /\ ~cache[l].present
  /\ \A l \in Links : ~CheckUrlSafety(LinkOf[l]) => jobs[l].verdict.number = 0
  /\ \A x \in Runners : runs[x].at # "idle" /\ ~CheckUrlSafety(LinkOf[runs[x].link])
                          => runs[x].at = "finish" /\ runs[x].verdict.number = 0

FloorsKept ==
  \A r \in Requests : requests[r].at # "idle" => requests[r].floor <= newest[requests[r].link]

\* What is kept for a link is not older than what was answered for it, and
\* the cache not older than the job.
KeptFresh ==
  \A l \in Links \ excused :
    /\ cache[l].present => newest[l] <= cache[l].verdict.number
    /\ jobs[l].st = "completed" =>
         /\ newest[l] <= jobs[l].verdict.number
         /\ cache[l].present => jobs[l].verdict.number <= cache[l].verdict.number

\* Nor is what a run is about to store or to answer.
RunsFresh ==
  \A x \in Runners : runs[x].at # "idle" /\ runs[x].link \notin excused =>
    /\ runs[x].at \in {"store", "finish"} => newest[runs[x].link] <= runs[x].verdict.number
    /\ runs[x].at = "finish" /\ cache[runs[x].link].present
         => runs[x].verdict.number <= cache[runs[x].link].verdict.number

AnalysisInv ==
  /\ AnalysisTypeOK /\ JobOwned /\ InlineAlone /\ InlineAsked /\ NumbersKnown /\ UnsafeUnread
  /\ FloorsKept /\ KeptFresh /\ RunsFresh /\ GoldenRule /\ NeverGoesBack

------------------------------------------------------------------------------
(* The verdict *)

\* Nothing is granted over a barrier, but to the owner of the content.
LEMMA EvaluateBarriers ==
  ASSUME NEW ctx, ctx.ownership.user = 0, Evaluate(ctx).eligible
  PROVE  ~ctx.drm /\ ~ctx.paywalled /\ ~ctx.requiresAuthentication
<1>1. UserOwned(ctx) = Null
  BY DEF UserOwned
<1>2. ~Refusal.eligible
  BY DEF Refusal
<1> QED
  BY <1>1, <1>2 DEF Evaluate

LEMMA EvaluateType ==
  ASSUME NEW ctx
  PROVE  Evaluate(ctx).eligible \in BOOLEAN
<1>1. Refusal.eligible \in BOOLEAN /\ Null.eligible \in BOOLEAN
  BY DEF Refusal, Null
<1>2. \A basis, n : Grant(basis, n).eligible \in BOOLEAN
  BY DEF Grant
<1>3. UserOwned(ctx).eligible \in BOOLEAN
  BY <1>1, <1>2 DEF UserOwned
<1>4. GeneralRegistry(ctx).eligible \in BOOLEAN
  BY <1>1, <1>2 DEF GeneralRegistry, OfficialApi, OpenLicense, DirectFile
<1> QED
  BY <1>1, <1>3, <1>4 DEF Evaluate

\* A barrier where the probe looks, in the status of the answer to HEAD and in
\* the text of the page, reaches the evaluation.
LEMMA ProbeBarriers ==
  ASSUME NEW l, NEW facts \in OriginFacts
  PROVE  /\ Evaluate(ToAnalysisContext(l, HeadResult(facts))).eligible => facts.status = "ok"
         /\ Evaluate(ToAnalysisContext(l, PageResult(facts))).eligible
              => ~facts.paywallFlag /\ ~facts.drmMarker
<1>1. \A probe : ToAnalysisContext(l, probe).ownership.user = 0
  BY DEF ToAnalysisContext
<1>2. \A probe : Evaluate(ToAnalysisContext(l, probe)).eligible =>
        ~probe.drmDetected /\ ~probe.paywalled /\ ~probe.requiresAuthentication
  <2>1. SUFFICES ASSUME NEW probe, Evaluate(ToAnalysisContext(l, probe)).eligible
                 PROVE  ~probe.drmDetected /\ ~probe.paywalled /\ ~probe.requiresAuthentication
    OBVIOUS
  <2>2. /\ ToAnalysisContext(l, probe).drm = probe.drmDetected
        /\ ToAnalysisContext(l, probe).paywalled = probe.paywalled
        /\ ToAnalysisContext(l, probe).requiresAuthentication = probe.requiresAuthentication
    BY DEF ToAnalysisContext
  <2> QED
    BY <1>1, <2>1, <2>2, EvaluateBarriers
<1>3. /\ facts.status = "auth" => HeadResult(facts).requiresAuthentication
      /\ facts.status = "pay" => HeadResult(facts).paywalled
  BY DEF HeadResult, EmptyResult
<1>4. /\ PageResult(facts).paywalled = facts.paywallFlag
      /\ PageResult(facts).drmDetected = facts.drmMarker
  BY DEF PageResult, EmptyResult
<1> QED
  BY <1>2, <1>3, <1>4, AnalysisAssumption

LEMMA VerdictType ==
  /\ NoVerdict \in Verdict /\ NoVerdict.number = 0 /\ ~NoVerdict.eligible
  /\ NoJob \in Job /\ NoJob.verdict = NoVerdict /\ NoJob.st = "none" /\ NoJob.owner = "nobody"
  /\ RunIdle \in Run /\ RunIdle.at = "idle" /\ RunIdle.verdict = NoVerdict
  /\ NoEntry \in Entry /\ ~NoEntry.present /\ NoEntry.verdict = NoVerdict
  /\ RequestIdle \in Request /\ RequestIdle.at = "idle"
<1>1. NoVerdict \in Verdict /\ NoVerdict.number = 0 /\ ~NoVerdict.eligible
  BY AnalysisAssumption DEF NoVerdict, Verdict
<1>2. NoJob \in Job /\ NoJob.verdict = NoVerdict /\ NoJob.st = "none" /\ NoJob.owner = "nobody"
  BY <1>1 DEF NoJob, Job
<1>3. RunIdle \in Run /\ RunIdle.at = "idle" /\ RunIdle.verdict = NoVerdict
  BY <1>1 DEF RunIdle, Run
<1>4. NoEntry \in Entry /\ ~NoEntry.present /\ NoEntry.verdict = NoVerdict
  BY <1>1 DEF NoEntry, Entry
<1>5. RequestIdle \in Request /\ RequestIdle.at = "idle"
  BY AnalysisAssumption DEF RequestIdle, Request
<1> QED
  BY <1>1, <1>2, <1>3, <1>4, <1>5

\* One link has one run, unless it is marked.
LEMMA Alone ==
  ASSUME AnalysisInv, NEW x \in Runners, NEW y \in Runners,
         runs[x].at # "idle", runs[y].at # "idle", runs[x].link = runs[y].link,
         runs[x].link \notin excused
  PROVE  x = y
<1>1. CASE queued
  <2>1. x \in Workers /\ y \in Workers
    BY <1>1 DEF AnalysisInv, AnalysisTypeOK, Runners
  <2> QED
    BY <2>1 DEF AnalysisInv, JobOwned
<1>2. CASE ~queued
  <2>1. x \in Requests /\ y \in Requests
    BY <1>2 DEF AnalysisInv, AnalysisTypeOK, Runners
  <2> QED
    BY <2>1 DEF AnalysisInv, InlineAlone
<1>3. queued \in BOOLEAN
  BY DEF AnalysisInv, AnalysisTypeOK
<1> QED
  BY <1>1, <1>2, <1>3

------------------------------------------------------------------------------
(* Steps of a run *)

\* A run that goes on, with what it has found.
LEMMA RunGoesOn ==
  ASSUME AnalysisInv, NEW x \in Runners, NEW run \in Run,
         runs[x].at \notin {"idle", "finish"}, runs' = [runs EXCEPT ![x] = run],
         run.at # "idle", run.link = runs[x].link,
         UNCHANGED <<queued, origin, changes, jobs, cache, requests, newest, wentBack, excused>>,
         evals' \in 0..MaxEvals, evals <= evals',
         run.verdict.eligible => run.verdict.clean, run.verdict.number <= evals',
         run.link \notin excused /\ run.at \in {"store", "finish"} =>
           newest[run.link] <= run.verdict.number,
         run.link \notin excused /\ run.at = "finish" /\ cache[run.link].present =>
           run.verdict.number <= cache[run.link].verdict.number
  PROVE  AnalysisInv'
<1>1. runs' \in [Runners -> Run] /\ \A y \in Runners : runs'[y] = IF y = x THEN run ELSE runs[y]
  BY DEF AnalysisInv, AnalysisTypeOK
<1>2. AnalysisTypeOK'
  BY <1>1 DEF AnalysisInv, AnalysisTypeOK
<1>3. Workers \subseteq Runners /\ Requests \subseteq Runners
  BY DEF Runners
<1>4. JobOwned' /\ InlineAlone' /\ InlineAsked'
  BY <1>1, <1>3 DEF AnalysisInv, JobOwned, InlineAlone, InlineAsked
<1>5. NumbersKnown'
  <2>1. evals \in Nat /\ evals' \in Nat
    BY AnalysisAssumption DEF AnalysisInv, AnalysisTypeOK
  <2>2. /\ \A l \in Links : newest[l] \in Nat /\ jobs[l].verdict.number \in Nat
                            /\ cache[l].verdict.number \in Nat
        /\ \A y \in Runners : runs[y].verdict.number \in Nat
    BY AnalysisAssumption DEF AnalysisInv, AnalysisTypeOK, Job, Entry, Run, Verdict
  <2> QED
    BY <1>1, <2>1, <2>2 DEF AnalysisInv, NumbersKnown
<1>6. UnsafeUnread'
  BY <1>1 DEF AnalysisInv, UnsafeUnread
<1>7. FloorsKept' /\ KeptFresh'
  BY DEF AnalysisInv, FloorsKept, KeptFresh
<1>8. RunsFresh'
  BY <1>1 DEF AnalysisInv, RunsFresh
<1>9. GoldenRule' /\ NeverGoesBack'
  BY <1>1 DEF AnalysisInv, GoldenRule, NeverGoesBack
<1> QED
  BY <1>2, <1>4, <1>5, <1>6, <1>7, <1>8, <1>9 DEF AnalysisInv

\* Numbers as the invariant bounds them.
LEMMA NumbersTyped ==
  ASSUME AnalysisInv
  PROVE  /\ evals \in Nat
         /\ \A l \in Links : newest[l] \in Nat /\ jobs[l].verdict.number \in Nat
                             /\ cache[l].verdict.number \in Nat
         /\ \A x \in Runners : runs[x].verdict.number \in Nat
         /\ \A r \in Requests : requests[r].floor \in Nat
  BY AnalysisAssumption DEF AnalysisInv, AnalysisTypeOK, Job, Entry, Run, Request, Verdict

\* cache.get: what is found is as new as anything answered.
LEMMA ReadsCacheKeeps ==
  ASSUME AnalysisInv, NEW x \in Runners, ReadsCache(x)
  PROVE  AnalysisInv'
<1> DEFINE l == runs[x].link
           run == IF cache[l].present
                    THEN [runs[x] EXCEPT !.at = "finish", !.verdict = cache[l].verdict]
                    ELSE [runs[x] EXCEPT !.at = "head"]
<1>1. runs[x] \in Run /\ l \in Links /\ cache[l] \in Entry /\ runs[x].at = "get"
  BY DEF ReadsCache, AnalysisInv, AnalysisTypeOK
<1>2. /\ run \in Run /\ run.link = l /\ run.at # "idle" /\ run.at # "store"
      /\ run.verdict = IF cache[l].present THEN cache[l].verdict ELSE runs[x].verdict
      /\ run.at = "finish" => cache[l].present
  BY <1>1 DEF Run, Entry
<1>3. /\ runs' = [runs EXCEPT ![x] = run] /\ evals' = evals
      /\ UNCHANGED <<queued, origin, changes, jobs, cache, requests, newest, wentBack, excused>>
  BY DEF ReadsCache
<1>4. evals' \in 0..MaxEvals /\ evals <= evals'
  BY <1>3, AnalysisAssumption DEF AnalysisInv, AnalysisTypeOK
<1>5. run.verdict.eligible => run.verdict.clean
  BY <1>1, <1>2 DEF AnalysisInv, GoldenRule
<1>6. run.verdict.number <= evals'
  BY <1>1, <1>2, <1>3 DEF AnalysisInv, NumbersKnown
<1>7. l \notin excused /\ run.at = "finish" =>
        newest[l] <= run.verdict.number /\ run.verdict.number <= cache[l].verdict.number
  BY <1>1, <1>2, NumbersTyped DEF AnalysisInv, KeptFresh
<1> HIDE DEF run
<1> QED
  BY <1>1, <1>2, <1>3, <1>4, <1>5, <1>6, <1>7, RunGoesOn

\* The next number is newer than all that is known.
LEMMA DecidesKeeps ==
  ASSUME AnalysisInv, NEW x \in Runners, NEW probe, NEW clean \in BOOLEAN,
         runs[x].at \notin {"idle", "finish"},
         Decides(x, probe, clean),
         Evaluate(ToAnalysisContext(runs[x].link, probe)).eligible => clean,
         UNCHANGED <<queued, origin, changes, jobs, cache, requests, newest, wentBack, excused>>
  PROVE  AnalysisInv'
<1> DEFINE eligible == Evaluate(ToAnalysisContext(runs[x].link, probe)).eligible
           verdict == [eligible |-> eligible, clean |-> clean,
                       refused |-> runs[x].verdict.refused, number |-> evals + 1]
           run == [runs[x] EXCEPT !.at = "store", !.verdict = verdict]
<1>1. runs[x] \in Run /\ runs[x].link \in Links
  BY DEF AnalysisInv, AnalysisTypeOK
<1>2. evals' = evals + 1 /\ evals' \in 0..MaxEvals /\ evals <= evals'
  BY AnalysisAssumption DEF Decides, AnalysisInv, AnalysisTypeOK
<1>3. eligible \in BOOLEAN
  BY EvaluateType
<1> HIDE DEF eligible
<1>4. verdict \in Verdict
  BY <1>1, <1>2, <1>3 DEF Verdict, Run
<1>5. run \in Run /\ run.at = "store" /\ run.link = runs[x].link /\ run.verdict = verdict
  BY <1>1, <1>4 DEF Run
<1>6. runs' = [runs EXCEPT ![x] = run]
  BY <1>1 DEF Decides, eligible, Run
<1>7. run.verdict.eligible => run.verdict.clean
  BY <1>5 DEF eligible
<1>8. run.verdict.number <= evals' /\ newest[run.link] <= run.verdict.number
  <2>1. newest[run.link] <= evals
    BY <1>1, <1>5 DEF AnalysisInv, NumbersKnown
  <2> QED
    BY <1>1, <1>2, <1>5, <2>1, NumbersTyped
<1> HIDE DEF run
<1> QED
  BY <1>2, <1>5, <1>6, <1>7, <1>8, RunGoesOn

\* The answer to HEAD decides, or the page is asked for.
LEMMA HeadAnswersKeeps ==
  ASSUME AnalysisInv, NEW x \in Runners, HeadAnswers(x)
  PROVE  AnalysisInv'
<1> DEFINE facts == origin[runs[x].link]
<1>1. runs[x].at = "head" /\ runs[x] \in Run /\ runs[x].link \in Links /\ facts \in OriginFacts
  BY DEF HeadAnswers, AnalysisInv, AnalysisTypeOK
<1>2. UNCHANGED <<queued, origin, changes, jobs, cache, requests, newest, wentBack, excused>>
  BY DEF HeadAnswers
<1>3. CASE facts.status = "ok" /\ facts.type = "html"
  <2> DEFINE run == [runs[x] EXCEPT !.at = "page"]
  <2>1. runs' = [runs EXCEPT ![x] = run] /\ evals' = evals
    BY <1>3 DEF HeadAnswers
  <2>2. run \in Run /\ run.at = "page" /\ run.link = runs[x].link /\ run.verdict = runs[x].verdict
    BY <1>1 DEF Run
  <2>3. evals' \in 0..MaxEvals /\ evals <= evals'
    BY <2>1, AnalysisAssumption DEF AnalysisInv, AnalysisTypeOK
  <2>4. (run.verdict.eligible => run.verdict.clean) /\ run.verdict.number <= evals'
    BY <2>1, <2>2 DEF AnalysisInv, GoldenRule, NumbersKnown
  <2> HIDE DEF run
  <2> QED
    BY <1>1, <1>2, <2>1, <2>2, <2>3, <2>4, RunGoesOn
<1>4. CASE ~(facts.status = "ok" /\ facts.type = "html")
  <2>1. Decides(x, HeadResult(facts), facts.status = "ok")
    BY <1>4 DEF HeadAnswers
  <2>2. Evaluate(ToAnalysisContext(runs[x].link, HeadResult(facts))).eligible => facts.status = "ok"
    BY <1>1, ProbeBarriers
  <2>3. (facts.status = "ok") \in BOOLEAN
    OBVIOUS
  <2> QED
    BY <1>1, <1>2, <2>1, <2>2, <2>3, DecidesKeeps
<1> QED
  BY <1>3, <1>4

LEMMA PageAnswersKeeps ==
  ASSUME AnalysisInv, NEW x \in Runners, PageAnswers(x)
  PROVE  AnalysisInv'
<1> DEFINE refused == origin[runs[x].link].status # "ok"
           run == [runs[x] EXCEPT !.at = "body", !.verdict.refused = refused]
<1>1. runs[x].at = "page" /\ runs[x] \in Run /\ runs[x].verdict \in Verdict
  BY DEF PageAnswers, AnalysisInv, AnalysisTypeOK, Run
<1>2. /\ UNCHANGED <<queued, origin, changes, jobs, cache, requests, newest, wentBack, excused>>
      /\ runs' = [runs EXCEPT ![x] = run] /\ evals' = evals
  BY DEF PageAnswers
<1>3. /\ run \in Run /\ run.at = "body" /\ run.link = runs[x].link
      /\ run.verdict.eligible = runs[x].verdict.eligible /\ run.verdict.clean = runs[x].verdict.clean
      /\ run.verdict.number = runs[x].verdict.number
  BY <1>1 DEF Run, Verdict
<1>4. evals' \in 0..MaxEvals /\ evals <= evals'
  BY <1>2, AnalysisAssumption DEF AnalysisInv, AnalysisTypeOK
<1>5. (run.verdict.eligible => run.verdict.clean) /\ run.verdict.number <= evals'
  BY <1>2, <1>3 DEF AnalysisInv, GoldenRule, NumbersKnown
<1> HIDE DEF run
<1> QED
  BY <1>1, <1>2, <1>3, <1>4, <1>5, RunGoesOn

LEMMA BodyArrivesKeeps ==
  ASSUME AnalysisInv, NEW x \in Runners, BodyArrives(x)
  PROVE  AnalysisInv'
<1> DEFINE facts == origin[runs[x].link]
           clean == ~facts.paywallFlag /\ ~facts.drmMarker
<1>1. runs[x].at = "body" /\ runs[x].link \in Links /\ facts \in OriginFacts
  BY DEF BodyArrives, AnalysisInv, AnalysisTypeOK
<1>2. /\ UNCHANGED <<queued, origin, changes, jobs, cache, requests, newest, wentBack, excused>>
      /\ Decides(x, PageResult(facts), clean)
  BY DEF BodyArrives
<1>3. Evaluate(ToAnalysisContext(runs[x].link, PageResult(facts))).eligible => clean
  BY <1>1, ProbeBarriers
<1>4. clean \in BOOLEAN
  OBVIOUS
<1> HIDE DEF clean
<1> QED
  BY <1>1, <1>2, <1>3, <1>4, DecidesKeeps

\* cache.set: while a link has one run, no other is in its way.
LEMMA StoresKeeps ==
  ASSUME AnalysisInv, NEW x \in Runners, Stores(x)
  PROVE  AnalysisInv'
<1> DEFINE l == runs[x].link
           entry == [present |-> TRUE, verdict |-> runs[x].verdict]
           run == [runs[x] EXCEPT !.at = "finish"]
<1>1. runs[x].at = "store" /\ runs[x] \in Run /\ l \in Links
  BY DEF Stores, AnalysisInv, AnalysisTypeOK
<1>2. /\ run \in Run /\ run.at = "finish" /\ run.link = l /\ run.verdict = runs[x].verdict
      /\ entry \in Entry /\ entry.present /\ entry.verdict = runs[x].verdict
  BY <1>1 DEF Run, Entry
<1>3. UNCHANGED <<queued, origin, changes, jobs, requests, evals, newest, wentBack, excused>>
  BY DEF Stores
<1>4. runs' = [runs EXCEPT ![x] = run] /\ cache' = [cache EXCEPT ![l] = entry]
  BY DEF Stores
<1> HIDE DEF run, entry
<1>5. /\ runs' \in [Runners -> Run] /\ \A y \in Runners : runs'[y] = IF y = x THEN run ELSE runs[y]
      /\ cache' \in [Links -> Entry] /\ \A k \in Links : cache'[k] = IF k = l THEN entry ELSE cache[k]
  BY <1>2, <1>4 DEF AnalysisInv, AnalysisTypeOK
<1>6. AnalysisTypeOK'
  BY <1>1, <1>2, <1>3, <1>5 DEF AnalysisInv, AnalysisTypeOK
<1>7. Workers \subseteq Runners /\ Requests \subseteq Runners
  BY DEF Runners
<1>8. JobOwned' /\ InlineAlone' /\ InlineAsked'
  BY <1>1, <1>2, <1>3, <1>5, <1>7 DEF AnalysisInv, JobOwned, InlineAlone, InlineAsked
<1>9. NumbersKnown'
  BY <1>2, <1>3, <1>5 DEF AnalysisInv, NumbersKnown
<1>10. UnsafeUnread'
  BY <1>1, <1>2, <1>3, <1>5 DEF AnalysisInv, UnsafeUnread
<1>11. FloorsKept'
  BY <1>3 DEF AnalysisInv, FloorsKept
<1>12. ASSUME l \notin excused
       PROVE  jobs[l].st # "completed" /\ newest[l] <= runs[x].verdict.number
  <2>1. jobs[l].st # "completed"
    <3>1. CASE x \in Workers
      BY <1>1, <1>12, <3>1, AnalysisAssumption DEF AnalysisInv, AnalysisTypeOK, JobOwned
    <3>2. CASE x \notin Workers
      BY <1>1, <3>2 DEF AnalysisInv, AnalysisTypeOK
    <3> QED
      BY <3>1, <3>2
  <2> QED
    BY <1>1, <1>12, <2>1 DEF AnalysisInv, RunsFresh
<1>13. KeptFresh'
  BY <1>2, <1>3, <1>5, <1>12 DEF AnalysisInv, KeptFresh
<1>14. ASSUME NEW y \in Runners, y # x, runs[y].at # "idle", runs[y].link \notin excused
       PROVE  runs[y].link # l
  BY <1>1, <1>14, Alone
<1>15. RunsFresh'
  <2>1. SUFFICES ASSUME NEW y \in Runners, runs'[y].at # "idle", runs'[y].link \notin excused'
                 PROVE  /\ runs'[y].at \in {"store", "finish"} =>
                             newest'[runs'[y].link] <= runs'[y].verdict.number
                        /\ runs'[y].at = "finish" /\ cache'[runs'[y].link].present =>
                             runs'[y].verdict.number <= cache'[runs'[y].link].verdict.number
    BY DEF RunsFresh
  <2>2. CASE y = x
    BY <1>1, <1>2, <1>3, <1>5, <1>12, <2>1, <2>2, NumbersTyped
  <2>3. CASE y # x
    <3>1. runs'[y] = runs[y] /\ runs[y].link \in Links /\ runs[y].link # l
      BY <1>3, <1>5, <1>14, <2>1, <2>3 DEF AnalysisInv, AnalysisTypeOK
    <3> QED
      BY <1>3, <1>5, <2>1, <3>1 DEF AnalysisInv, RunsFresh
  <2> QED
    BY <2>2, <2>3
<1>16. GoldenRule' /\ NeverGoesBack'
  BY <1>2, <1>3, <1>5 DEF AnalysisInv, GoldenRule, NeverGoesBack
<1> QED
  BY <1>6, <1>8, <1>9, <1>10, <1>11, <1>13, <1>15, <1>16 DEF AnalysisInv

\* A run that ends, and what becomes of the job its worker owned.
LEMMA RunEnds ==
  ASSUME AnalysisInv, NEW x \in Runners, runs[x].at # "idle",
         runs' = [runs EXCEPT ![x] = RunIdle],
         UNCHANGED <<queued, origin, changes, cache, evals, newest, wentBack, excused>>,
         requests' \in [Requests -> Request],
         \A r \in Requests : requests'[r] = requests[r] \/ (r = x /\ requests'[r].at = "idle"),
         jobs' \in [Links -> Job],
         \A k \in Links : jobs'[k] = jobs[k] \/
           /\ x \in Workers /\ k = runs[x].link /\ jobs[k].owner = x
           /\ jobs'[k].owner = "nobody" /\ jobs'[k].st # "active"
           /\ IF jobs'[k].st = "completed"
                THEN runs[x].at = "finish" /\ jobs'[k].verdict = runs[x].verdict
                ELSE jobs'[k].verdict = NoVerdict
  PROVE  AnalysisInv'
<1>1. /\ runs' \in [Runners -> Run]
      /\ \A y \in Runners : runs'[y] = IF y = x THEN RunIdle ELSE runs[y]
  BY VerdictType DEF AnalysisInv, AnalysisTypeOK
<1>2. runs[x].link \in Links /\ (x \in Workers => queued)
  BY DEF AnalysisInv, AnalysisTypeOK
<1>3. Workers \subseteq Runners /\ Requests \subseteq Runners
  BY DEF Runners
<1>4. AnalysisTypeOK'
  BY <1>1, <1>2, VerdictType DEF AnalysisInv, AnalysisTypeOK
<1>5. InlineAlone' /\ InlineAsked'
  BY <1>1, <1>3, VerdictType DEF AnalysisInv, InlineAlone, InlineAsked
<1>6. JobOwned'
  <2>1. SUFFICES ASSUME NEW w \in Workers, runs'[w].at # "idle", runs'[w].link \notin excused'
                 PROVE  jobs'[runs'[w].link].owner = w
    BY DEF JobOwned
  <2>2. w # x /\ runs'[w] = runs[w] /\ runs[w].link \in Links
    BY <1>1, <1>3, <2>1, VerdictType DEF AnalysisInv, AnalysisTypeOK
  <2>3. jobs[runs[w].link].owner = w
    BY <2>1, <2>2 DEF AnalysisInv, JobOwned
  <2> QED
    BY <2>2, <2>3
<1>7. NumbersKnown'
  <2>1. NoVerdict.number <= evals
    BY VerdictType, NumbersTyped
  <2> QED
    BY <1>1, <1>2, <2>1, VerdictType DEF AnalysisInv, NumbersKnown
<1>8. UnsafeUnread'
  BY <1>1, <1>2, VerdictType DEF AnalysisInv, UnsafeUnread
<1>9. FloorsKept'
  BY DEF AnalysisInv, FloorsKept
<1>10. KeptFresh'
  BY <1>2 DEF AnalysisInv, KeptFresh, RunsFresh
<1>11. RunsFresh'
  BY <1>1, VerdictType DEF AnalysisInv, RunsFresh
<1>12. GoldenRule' /\ NeverGoesBack'
  BY <1>1, VerdictType DEF AnalysisInv, GoldenRule, NeverGoesBack
<1> QED
  BY <1>4, <1>5, <1>6, <1>7, <1>8, <1>9, <1>10, <1>11, <1>12 DEF AnalysisInv

\* A request that is answered, with a verdict no older than any before it.
LEMMA AnswerKeeps ==
  ASSUME AnalysisInv, NEW r \in Requests, requests[r].at # "idle",
         NEW verdict \in Verdict, AnswerWith(r, verdict),
         UNCHANGED <<queued, origin, changes, jobs, cache, evals, excused>>,
         runs' \in [Runners -> Run],
         \A y \in Runners : runs'[y] = runs[y] \/ runs'[y] = RunIdle,
         runs'[r] = RunIdle \/ runs[r].at = "idle",
         verdict.number <= evals,
         ~CheckUrlSafety(LinkOf[requests[r].link]) => verdict.number = 0,
         requests[r].link \notin excused =>
           /\ newest[requests[r].link] <= verdict.number
           /\ cache[requests[r].link].present =>
                verdict.number <= cache[requests[r].link].verdict.number
           /\ jobs[requests[r].link].st = "completed" =>
                verdict.number <= jobs[requests[r].link].verdict.number
           /\ \A y \in Runners : runs'[y].at # "idle" => runs'[y].link # requests[r].link
  PROVE  AnalysisInv'
<1> DEFINE l == requests[r].link
<1>1. l \in Links /\ newest \in [Links -> 0..MaxEvals] /\ verdict.number \in 0..MaxEvals
  BY DEF AnalysisInv, AnalysisTypeOK, Verdict
<1>2. /\ requests' = [requests EXCEPT ![r] = RequestIdle]
      /\ newest' = IF verdict.number > newest[l] THEN [newest EXCEPT ![l] = verdict.number] ELSE newest
      /\ wentBack' = IF verdict.number < requests[r].floor THEN wentBack \cup {l} ELSE wentBack
  BY DEF AnswerWith
<1>3. /\ newest' \in [Links -> 0..MaxEvals]
      /\ \A k \in Links : newest[k] <= newest'[k] /\ (k # l => newest'[k] = newest[k])
      /\ newest'[l] = IF verdict.number > newest[l] THEN verdict.number ELSE newest[l]
  BY <1>1, <1>2, AnalysisAssumption
<1> HIDE DEF l
<1>4. /\ requests' \in [Requests -> Request]
      /\ \A s \in Requests : requests'[s] = IF s = r THEN RequestIdle ELSE requests[s]
  BY <1>2, VerdictType DEF AnalysisInv, AnalysisTypeOK
<1>5. Workers \subseteq Runners /\ Requests \subseteq Runners
  BY DEF Runners
<1>6. wentBack' \subseteq excused' /\ wentBack' \subseteq Links
  <2>1. l \notin excused => ~(verdict.number < requests[r].floor)
    <3>1. requests[r].floor <= newest[l] /\ requests[r].floor \in Nat /\ newest[l] \in Nat
      BY <1>1, NumbersTyped DEF AnalysisInv, FloorsKept, l
    <3> QED
      BY <1>1, <3>1, AnalysisAssumption DEF l
  <2> QED
    BY <1>1, <1>2, <2>1 DEF AnalysisInv, AnalysisTypeOK, NeverGoesBack
<1>7. AnalysisTypeOK'
  <2>1. \A y \in Runners : runs'[y].at # "idle" => runs'[y] = runs[y]
    BY VerdictType
  <2>2. \A s \in Requests : requests'[s].at # "idle" => requests'[s] = requests[s]
    BY <1>4, VerdictType
  <2> QED
    BY <1>3, <1>4, <1>6, <2>1, <2>2 DEF AnalysisInv, AnalysisTypeOK
<1>8. JobOwned' /\ InlineAlone'
  BY <1>5, VerdictType DEF AnalysisInv, JobOwned, InlineAlone
<1>9. InlineAsked'
  BY <1>4, <1>5, VerdictType DEF AnalysisInv, InlineAsked
<1>10. NumbersKnown'
  <2>1. \A k \in Links : newest'[k] <= evals
    BY <1>1, <1>3 DEF AnalysisInv, NumbersKnown
  <2>2. RunIdle.verdict.number <= evals
    BY VerdictType, NumbersTyped
  <2> QED
    BY <2>1, <2>2 DEF AnalysisInv, NumbersKnown
<1>11. UnsafeUnread'
  <2>1. \A k \in Links : ~CheckUrlSafety(LinkOf[k]) => newest'[k] = 0
    BY <1>1, <1>3 DEF AnalysisInv, UnsafeUnread, l
  <2>2. \A y \in Runners : runs'[y].at # "idle" => runs'[y] = runs[y]
    BY VerdictType
  <2> QED
    BY <2>1, <2>2 DEF AnalysisInv, UnsafeUnread
<1>12. FloorsKept'
  <2>1. SUFFICES ASSUME NEW s \in Requests, requests'[s].at # "idle"
                 PROVE  requests'[s].floor <= newest'[requests'[s].link]
    BY DEF FloorsKept
  <2>2. requests'[s] = requests[s] /\ requests[s].link \in Links
    BY <1>4, <2>1, VerdictType DEF AnalysisInv, AnalysisTypeOK
  <2>3. requests[s].floor <= newest[requests[s].link] /\ requests[s].floor \in Nat
    BY <2>1, <2>2, NumbersTyped DEF AnalysisInv, FloorsKept
  <2>4. newest[requests[s].link] \in Nat /\ newest'[requests[s].link] \in Nat
    BY <1>3, <2>2, NumbersTyped, AnalysisAssumption
  <2> QED
    BY <1>3, <2>2, <2>3, <2>4
<1>13. KeptFresh'
  BY <1>1, <1>3 DEF AnalysisInv, KeptFresh, l
<1>14. RunsFresh'
  <2>1. SUFFICES ASSUME NEW y \in Runners, runs'[y].at # "idle", runs'[y].link \notin excused'
                 PROVE  /\ runs'[y].at \in {"store", "finish"} =>
                             newest'[runs'[y].link] <= runs'[y].verdict.number
                        /\ runs'[y].at = "finish" /\ cache'[runs'[y].link].present =>
                             runs'[y].verdict.number <= cache'[runs'[y].link].verdict.number
    BY DEF RunsFresh
  <2>2. runs'[y] = runs[y] /\ runs[y].link \in Links
    BY <2>1, VerdictType DEF AnalysisInv, AnalysisTypeOK
  <2>3. newest'[runs[y].link] = newest[runs[y].link]
    BY <1>3, <2>1, <2>2 DEF l
  <2> QED
    BY <2>1, <2>2, <2>3 DEF AnalysisInv, RunsFresh
<1>15. GoldenRule'
  BY VerdictType DEF AnalysisInv, GoldenRule
<1> QED
  BY <1>6, <1>7, <1>8, <1>9, <1>10, <1>11, <1>12, <1>13, <1>14, <1>15
     DEF AnalysisInv, NeverGoesBack

LEMMA EndsKeeps ==
  ASSUME AnalysisInv, NEW x \in Runners, runs[x].at # "idle", Ends(x)
  PROVE  AnalysisInv'
<1>1. /\ runs' = [runs EXCEPT ![x] = RunIdle] /\ runs[x].link \in Links
      /\ UNCHANGED <<queued, origin, changes, cache, evals, newest, wentBack, excused>>
  BY DEF Ends, AnswerError, AnalysisInv, AnalysisTypeOK
<1>2. CASE x \in Workers
  <2> DEFINE job == [NoJob EXCEPT !.st = "failed", !.verdict = NoVerdict]
  <2>1. /\ requests' = requests
        /\ jobs' = IF jobs[runs[x].link].owner = x THEN [jobs EXCEPT ![runs[x].link] = job] ELSE jobs
    BY <1>2 DEF Ends, EndJob
  <2>2. job \in Job /\ job.owner = "nobody" /\ job.st = "failed" /\ job.verdict = NoVerdict
    BY VerdictType DEF Job, NoJob
  <2> HIDE DEF job
  <2> QED
    BY <1>1, <1>2, <2>1, <2>2, RunEnds DEF AnalysisInv, AnalysisTypeOK
<1>3. CASE x \notin Workers
  <2>1. x \in Requests /\ jobs' = jobs /\ requests' = [requests EXCEPT ![x] = RequestIdle]
    BY <1>3 DEF Ends, AnswerError, Runners
  <2> QED
    BY <1>1, <2>1, RunEnds, VerdictType DEF AnalysisInv, AnalysisTypeOK
<1> QED
  BY <1>2, <1>3

\* A worker's verdict becomes that of its job; a request without Redis is
\* answered with it at once.
LEMMA FinishesKeeps ==
  ASSUME AnalysisInv, NEW x \in Runners, Finishes(x)
  PROVE  AnalysisInv'
<1>1. /\ runs[x].at = "finish" /\ runs[x].link \in Links /\ runs[x].verdict \in Verdict
      /\ runs' = [runs EXCEPT ![x] = RunIdle]
      /\ UNCHANGED <<queued, origin, changes, cache, evals, excused>>
  BY DEF Finishes, AnalysisInv, AnalysisTypeOK, Run
<1>2. CASE x \in Workers
  <2> DEFINE job == [NoJob EXCEPT !.st = "completed", !.verdict = runs[x].verdict]
  <2>1. /\ UNCHANGED <<requests, newest, wentBack>>
        /\ jobs' = IF jobs[runs[x].link].owner = x THEN [jobs EXCEPT ![runs[x].link] = job] ELSE jobs
    BY <1>2 DEF Finishes, EndJob
  <2>2. job \in Job /\ job.owner = "nobody" /\ job.st = "completed" /\ job.verdict = runs[x].verdict
    BY <1>1, VerdictType DEF Job, NoJob
  <2> HIDE DEF job
  <2> QED
    BY <1>1, <1>2, <2>1, <2>2, RunEnds DEF AnalysisInv, AnalysisTypeOK
<1>3. CASE x \notin Workers
  <2> DEFINE l == requests[x].link
  <2>1. x \in Requests /\ jobs' = jobs /\ AnswerWith(x, runs[x].verdict)
    BY <1>3 DEF Finishes, Runners
  <2>2. ~queued /\ requests[x].at # "idle" /\ runs[x].link = l
    BY <1>1, <1>3, <2>1 DEF AnalysisInv, AnalysisTypeOK, InlineAsked
  <2>3. /\ runs' \in [Runners -> Run] /\ runs'[x] = RunIdle
        /\ \A y \in Runners : runs'[y] = runs[y] \/ runs'[y] = RunIdle
        /\ \A y \in Runners : y # x => runs'[y] = runs[y]
    BY <1>1, VerdictType DEF AnalysisInv, AnalysisTypeOK
  <2>4. /\ runs[x].verdict.number <= evals
        /\ ~CheckUrlSafety(LinkOf[l]) => runs[x].verdict.number = 0
    BY <1>1, <2>2 DEF AnalysisInv, NumbersKnown, UnsafeUnread
  <2>5. ASSUME l \notin excused
        PROVE  /\ newest[l] <= runs[x].verdict.number
               /\ cache[l].present => runs[x].verdict.number <= cache[l].verdict.number
               /\ jobs[l].st = "completed" => runs[x].verdict.number <= jobs[l].verdict.number
               /\ \A y \in Runners : runs'[y].at # "idle" => runs'[y].link # l
    <3>1. jobs[l].st = "none"
      BY <1>1, <2>2 DEF AnalysisInv, AnalysisTypeOK
    <3>2. \A y \in Runners : runs'[y].at # "idle" => runs'[y].link # l
      BY <1>1, <2>2, <2>3, <2>5, Alone, VerdictType
    <3> QED
      BY <1>1, <2>2, <2>5, <3>1, <3>2 DEF AnalysisInv, RunsFresh
  <2> HIDE DEF l
  <2> QED
    BY <1>1, <2>1, <2>2, <2>3, <2>4, <2>5, AnswerKeeps DEF l
<1> QED
  BY <1>2, <1>3

LEMMA WorkerDiesKeeps ==
  ASSUME AnalysisInv, NEW w \in Workers, WorkerDies(w)
  PROVE  AnalysisInv'
<1> DEFINE l == runs[w].link
           job == IF jobs[l].stalled THEN [NoJob EXCEPT !.st = "failed"]
                  ELSE [NoJob EXCEPT !.st = "waiting", !.stalled = TRUE]
<1>1. w \in Runners /\ runs[w].at # "idle" /\ l \in Links
  BY DEF WorkerDies, Runners, AnalysisInv, AnalysisTypeOK
<1>2. /\ runs' = [runs EXCEPT ![w] = RunIdle]
      /\ UNCHANGED <<queued, origin, changes, cache, requests, evals, newest, wentBack, excused>>
      /\ jobs' = IF jobs[l].owner = w THEN [jobs EXCEPT ![l] = job] ELSE jobs
  BY DEF WorkerDies, StallJob
<1>3. job \in Job /\ job.owner = "nobody" /\ job.st \in {"failed", "waiting"} /\ job.verdict = NoVerdict
  BY VerdictType DEF Job, NoJob
<1> HIDE DEF job, l
<1> QED
  BY <1>1, <1>2, <1>3, RunEnds DEF AnalysisInv, AnalysisTypeOK, l

\* The link is marked with it.
LEMMA LosesLockKeeps ==
  ASSUME AnalysisInv, NEW w \in Workers, LosesLock(w)
  PROVE  AnalysisInv'
<1> DEFINE l == runs[w].link
           job == IF jobs[l].stalled THEN [NoJob EXCEPT !.st = "failed"]
                  ELSE [NoJob EXCEPT !.st = "waiting", !.stalled = TRUE]
<1>1. w \in Runners /\ runs[w].at # "idle" /\ l \in Links /\ queued
  BY DEF LosesLock, Runners, AnalysisInv, AnalysisTypeOK
<1>2. /\ jobs' = [jobs EXCEPT ![l] = job] /\ excused' = excused \cup {l}
      /\ UNCHANGED <<queued, origin, changes, runs, cache, requests, evals, newest, wentBack>>
  BY DEF LosesLock, StallJob
<1>3. job \in Job /\ job.owner = "nobody" /\ job.st \in {"failed", "waiting"} /\ job.verdict = NoVerdict
  BY VerdictType DEF Job, NoJob
<1> HIDE DEF job, l
<1>4. jobs' \in [Links -> Job] /\ \A k \in Links : jobs'[k] = IF k = l THEN job ELSE jobs[k]
  BY <1>2, <1>3 DEF AnalysisInv, AnalysisTypeOK
<1>5. AnalysisTypeOK'
  BY <1>1, <1>2, <1>3, <1>4 DEF AnalysisInv, AnalysisTypeOK
<1>6. Workers \subseteq Runners
  BY DEF Runners
<1>7. JobOwned' /\ InlineAlone' /\ InlineAsked' /\ FloorsKept'
  BY <1>2, <1>4, <1>6 DEF AnalysisInv, AnalysisTypeOK, JobOwned, InlineAlone, InlineAsked, FloorsKept
<1>8. NumbersKnown' /\ UnsafeUnread' /\ GoldenRule'
  BY <1>2, <1>3, <1>4, VerdictType, NumbersTyped DEF AnalysisInv, NumbersKnown, UnsafeUnread, GoldenRule
<1>9. KeptFresh' /\ RunsFresh' /\ NeverGoesBack'
  BY <1>2, <1>4 DEF AnalysisInv, KeptFresh, RunsFresh, NeverGoesBack
<1> QED
  BY <1>5, <1>7, <1>8, <1>9 DEF AnalysisInv

------------------------------------------------------------------------------
(* A run begins *)

\* A free worker or request begins a run of a link which no other is at, or
\* which is marked.
LEMMA RunBegins ==
  ASSUME AnalysisInv, NEW x \in Runners, NEW l \in Links,
         runs[x].at = "idle", runs' = [runs EXCEPT ![x] = Begin(l)],
         UNCHANGED <<queued, origin, changes, cache, evals, newest, wentBack>>,
         excused \subseteq excused', excused' \subseteq Links,
         queued <=> x \in Workers,
         requests' \in [Requests -> Request],
         \A r \in Requests : requests'[r] = requests[r] \/
           (r = x /\ requests[r].at = "idle" /\ requests'[r].link = l /\ requests'[r].floor = newest[l]),
         x \in Requests => requests'[x].at # "idle" /\ requests'[x].link = l,
         jobs' \in [Links -> Job],
         \A k \in Links : jobs'[k] = jobs[k] \/
           /\ x \in Workers /\ k = l /\ jobs[k].st = "waiting"
           /\ jobs'[k].st = "active" /\ jobs'[k].owner = x /\ jobs'[k].verdict = jobs[k].verdict,
         x \in Workers => jobs'[l].owner = x,
         l \notin excused' => \A y \in Runners : runs[y].at # "idle" => runs[y].link # l
  PROVE  AnalysisInv'
<1>1. /\ Begin(l) \in Run /\ Begin(l).link = l /\ Begin(l).verdict = NoVerdict
      /\ Begin(l).at \in {"get", "finish"}
      /\ (Begin(l).at = "finish" <=> ~CheckUrlSafety(LinkOf[l]))
  BY VerdictType DEF Begin, Run
<1>2. /\ runs' \in [Runners -> Run]
      /\ \A y \in Runners : runs'[y] = IF y = x THEN Begin(l) ELSE runs[y]
  BY <1>1 DEF AnalysisInv, AnalysisTypeOK
<1>3. Workers \subseteq Runners /\ Requests \subseteq Runners /\ x \in Workers \cup Requests
  BY DEF Runners
<1>4. AnalysisTypeOK'
  BY <1>1, <1>2, <1>3, AnalysisAssumption DEF AnalysisInv, AnalysisTypeOK, NeverGoesBack
<1>5. JobOwned'
  <2>1. SUFFICES ASSUME NEW w \in Workers, runs'[w].at # "idle", runs'[w].link \notin excused'
                 PROVE  jobs'[runs'[w].link].owner = w
    BY DEF JobOwned
  <2>2. CASE w = x
    BY <1>1, <1>2, <1>3, <2>1, <2>2
  <2>3. CASE w # x
    <3>1. runs'[w] = runs[w] /\ runs[w].link \in Links /\ runs[w].link \notin excused
      BY <1>2, <1>3, <2>1, <2>3 DEF AnalysisInv, AnalysisTypeOK
    <3>2. runs[w].link # l /\ jobs[runs[w].link].owner = w
      BY <1>3, <2>1, <3>1 DEF AnalysisInv, JobOwned
    <3> QED
      BY <3>1, <3>2
  <2> QED
    BY <2>2, <2>3
<1>6. InlineAlone'
  BY <1>1, <1>2, <1>3 DEF AnalysisInv, InlineAlone
<1>7. InlineAsked'
  BY <1>1, <1>2, <1>3 DEF AnalysisInv, InlineAsked
<1>8. NumbersKnown'
  BY <1>1, <1>2, VerdictType, NumbersTyped DEF AnalysisInv, NumbersKnown
<1>9. UnsafeUnread'
  BY <1>1, <1>2, VerdictType DEF AnalysisInv, UnsafeUnread
<1>10. FloorsKept'
  <2>1. newest[l] <= newest[l]
    BY NumbersTyped
  <2> QED
    BY <2>1 DEF AnalysisInv, FloorsKept
<1>11. KeptFresh'
  BY DEF AnalysisInv, KeptFresh
<1>12. RunsFresh'
  <2>1. ~CheckUrlSafety(LinkOf[l]) => newest[l] = 0 /\ ~cache[l].present
    BY DEF AnalysisInv, UnsafeUnread
  <2> QED
    BY <1>1, <1>2, <2>1, VerdictType DEF AnalysisInv, RunsFresh
<1>13. GoldenRule' /\ NeverGoesBack'
  BY <1>1, <1>2, VerdictType DEF AnalysisInv, GoldenRule, NeverGoesBack
<1> QED
  BY <1>4, <1>5, <1>6, <1>7, <1>8, <1>9, <1>10, <1>11, <1>12, <1>13 DEF AnalysisInv

LEMMA WorkerTakesKeeps ==
  ASSUME AnalysisInv, NEW w \in Workers, NEW l \in Links, WorkerTakes(w, l)
  PROVE  AnalysisInv'
<1> DEFINE job == [jobs[l] EXCEPT !.st = "active", !.owner = w]
<1>1. /\ w \in Runners /\ queued /\ runs[w].at = "idle" /\ jobs[l].st = "waiting"
      /\ runs' = [runs EXCEPT ![w] = Begin(l)]
      /\ UNCHANGED <<queued, origin, changes, cache, requests, evals, newest, wentBack, excused>>
      /\ w \notin Requests /\ jobs[l] \in Job /\ jobs[l].owner = "nobody"
  BY AnalysisAssumption DEF WorkerTakes, Runners, AnalysisInv, AnalysisTypeOK
<1>2. /\ job \in Job /\ job.st = "active" /\ job.owner = w /\ job.verdict = jobs[l].verdict
      /\ jobs' = [jobs EXCEPT ![l] = job]
  BY <1>1 DEF WorkerTakes, Job
<1> HIDE DEF job
<1>3. /\ jobs' \in [Links -> Job]
      /\ \A k \in Links : jobs'[k] = IF k = l THEN job ELSE jobs[k]
  BY <1>2 DEF AnalysisInv, AnalysisTypeOK
<1>4. ASSUME l \notin excused, NEW y \in Runners, runs[y].at # "idle"
      PROVE  runs[y].link # l
  <2>1. y \in Workers
    BY <1>1, <1>4 DEF AnalysisInv, AnalysisTypeOK
  <2> QED
    BY <1>1, <1>4, <2>1, AnalysisAssumption DEF AnalysisInv, JobOwned
<1>5. /\ requests' \in [Requests -> Request] /\ \A r \in Requests : requests'[r] = requests[r]
      /\ excused \subseteq excused' /\ excused' \subseteq Links
      /\ queued <=> w \in Workers
  BY <1>1 DEF AnalysisInv, AnalysisTypeOK
<1>6. l \notin excused' => \A y \in Runners : runs[y].at # "idle" => runs[y].link # l
  BY <1>1, <1>4
<1>7. /\ jobs'[l].owner = w
      /\ \A k \in Links : jobs'[k] = jobs[k] \/
           /\ w \in Workers /\ k = l /\ jobs[k].st = "waiting"
           /\ jobs'[k].st = "active" /\ jobs'[k].owner = w /\ jobs'[k].verdict = jobs[k].verdict
  BY <1>1, <1>2, <1>3
<1> QED
  BY <1>1, <1>3, <1>5, <1>6, <1>7, RunBegins

------------------------------------------------------------------------------
(* Steps of the requests *)

\* Requests and jobs change while every run goes on.
LEMMA JobsChange ==
  ASSUME AnalysisInv,
         UNCHANGED <<queued, origin, changes, runs, cache, evals, newest, wentBack, excused>>,
         requests' \in [Requests -> Request],
         \A r \in Requests : requests'[r] = requests[r] \/
           (runs[r].at = "idle" /\ (requests'[r].at # "idle" =>
              requests'[r].link \in Links /\ requests'[r].floor = newest[requests'[r].link])),
         jobs' \in [Links -> Job],
         \A k \in Links : jobs'[k] = jobs[k] \/
           /\ queued /\ jobs[k].st # "active"
           /\ jobs'[k].st \in {"none", "waiting"} /\ jobs'[k].owner = "nobody" /\ jobs'[k].verdict = NoVerdict
  PROVE  AnalysisInv'
<1>1. AnalysisTypeOK'
  BY DEF AnalysisInv, AnalysisTypeOK
<1>2. JobOwned'
  <2>1. SUFFICES ASSUME NEW w \in Workers, runs[w].at # "idle", runs[w].link \notin excused
                 PROVE  jobs'[runs[w].link].owner = w
    BY DEF JobOwned
  <2>2. runs[w].link \in Links /\ jobs[runs[w].link].owner = w
    BY <2>1 DEF AnalysisInv, AnalysisTypeOK, JobOwned, Runners
  <2>3. jobs[runs[w].link].st = "active"
    BY <2>2, AnalysisAssumption DEF AnalysisInv, AnalysisTypeOK
  <2> QED
    BY <2>2, <2>3
<1>3. InlineAlone' /\ InlineAsked'
  BY DEF AnalysisInv, InlineAlone, InlineAsked
<1>4. NumbersKnown' /\ UnsafeUnread' /\ GoldenRule'
  BY VerdictType, NumbersTyped DEF AnalysisInv, NumbersKnown, UnsafeUnread, GoldenRule
<1>5. FloorsKept'
  BY NumbersTyped DEF AnalysisInv, FloorsKept
<1>6. KeptFresh' /\ RunsFresh' /\ NeverGoesBack'
  BY DEF AnalysisInv, KeptFresh, RunsFresh, NeverGoesBack
<1> QED
  BY <1>1, <1>2, <1>3, <1>4, <1>5, <1>6 DEF AnalysisInv

LEMMA AsksKeeps ==
  ASSUME AnalysisInv, NEW r \in Requests, NEW l \in Links, Asks(r, l)
  PROVE  AnalysisInv'
<1> DEFINE request == [at |-> "waiting", link |-> l, floor |-> newest[l]]
<1>1. /\ requests[r].at = "idle" /\ r \in Runners /\ r \notin Workers
      /\ newest[l] \in 0..MaxEvals /\ queued \in BOOLEAN
      /\ UNCHANGED <<queued, origin, changes, cache, evals, newest, wentBack>>
      /\ requests' = [requests EXCEPT ![r] = request]
  BY AnalysisAssumption DEF Asks, Runners, AnalysisInv, AnalysisTypeOK
<1>2. request \in Request /\ request.at # "idle" /\ request.link = l /\ request.floor = newest[l]
  BY <1>1 DEF Request
<1> HIDE DEF request
<1>3. /\ requests' \in [Requests -> Request]
      /\ \A s \in Requests : requests'[s] = IF s = r THEN request ELSE requests[s]
      /\ runs[r].at = "idle"
  BY <1>1, <1>2 DEF AnalysisInv, AnalysisTypeOK, InlineAsked
<1>4. CASE queued
  <2> DEFINE job == [NoJob EXCEPT !.st = "waiting"]
  <2>1. /\ UNCHANGED <<runs, excused>>
        /\ jobs' = IF jobs[l].st = "none" THEN [jobs EXCEPT ![l] = job] ELSE jobs
    BY <1>4 DEF Asks
  <2>2. job \in Job /\ job.st = "waiting" /\ job.owner = "nobody" /\ job.verdict = NoVerdict
    BY VerdictType DEF Job, NoJob
  <2> HIDE DEF job
  <2>3. /\ jobs' \in [Links -> Job]
        /\ \A k \in Links : jobs'[k] = jobs[k] \/ (jobs[k].st = "none" /\ jobs'[k] = job)
    BY <2>1, <2>2 DEF AnalysisInv, AnalysisTypeOK
  <2> QED
    BY <1>1, <1>2, <1>3, <1>4, <2>1, <2>2, <2>3, JobsChange
<1>5. CASE ~queued
  <2>1. /\ runs' = [runs EXCEPT ![r] = Begin(l)] /\ jobs' = jobs
        /\ excused' = IF \E x \in Requests : runs[x].link = l THEN excused \cup {l} ELSE excused
    BY <1>5 DEF Asks
  <2>2. jobs \in [Links -> Job] /\ excused \subseteq Links
    BY DEF AnalysisInv, AnalysisTypeOK
  <2>3. ASSUME l \notin excused', NEW y \in Runners, runs[y].at # "idle"
        PROVE  runs[y].link # l
    <3>1. y \in Requests
      BY <1>5, <2>3 DEF AnalysisInv, AnalysisTypeOK, Runners
    <3> QED
      BY <2>1, <2>3, <3>1
  <2>4. excused \subseteq excused' /\ excused' \subseteq Links
    BY <2>1, <2>2
  <2>5. l \notin excused' => \A y \in Runners : runs[y].at # "idle" => runs[y].link # l
    BY <2>3
  <2>6. /\ queued <=> r \in Workers
        /\ jobs' \in [Links -> Job] /\ (r \in Workers => jobs'[l].owner = r)
        /\ \A k \in Links : jobs'[k] = jobs[k] \/
             /\ r \in Workers /\ k = l /\ jobs[k].st = "waiting"
             /\ jobs'[k].st = "active" /\ jobs'[k].owner = r /\ jobs'[k].verdict = jobs[k].verdict
        /\ r \in Requests => requests'[r].at # "idle" /\ requests'[r].link = l
        /\ \A s \in Requests : requests'[s] = requests[s] \/
             (s = r /\ requests[s].at = "idle" /\ requests'[s].link = l /\ requests'[s].floor = newest[l])
    BY <1>1, <1>2, <1>3, <1>5, <2>1, <2>2
  <2> QED
    <3>1. UNCHANGED <<queued, origin, changes, cache, evals, newest, wentBack>>
      BY <1>1
    <3>2. runs[r].at = "idle" /\ r \in Runners /\ requests' \in [Requests -> Request]
      BY <1>1, <1>3
    <3>3. runs' = [runs EXCEPT ![r] = Begin(l)]
      BY <2>1
    <3> QED
      BY <2>4, <2>5, <2>6, <3>1, <3>2, <3>3, RunBegins
<1> QED
  BY <1>1, <1>4, <1>5

\* A job that is kept answers with its verdict.
LEMMA HearsOfJobKeeps ==
  ASSUME AnalysisInv, NEW r \in Requests, HearsOfJob(r)
  PROVE  AnalysisInv'
<1> DEFINE l == requests[r].link
<1>1. /\ queued /\ requests[r].at # "idle" /\ l \in Links /\ jobs[l] \in Job
      /\ UNCHANGED <<queued, origin, changes, jobs, runs, cache, evals, excused>>
      /\ runs \in [Runners -> Run]
  BY DEF HearsOfJob, AnalysisInv, AnalysisTypeOK
<1>2. r \in Runners /\ runs[r].at = "idle"
  BY <1>1, AnalysisAssumption DEF Runners, AnalysisInv, AnalysisTypeOK
<1>3. CASE jobs[l].st = "completed" /\ AnswerWith(r, jobs[l].verdict)
  <2>1. /\ jobs[l].verdict \in Verdict /\ jobs[l].verdict.number <= evals
        /\ ~CheckUrlSafety(LinkOf[l]) => jobs[l].verdict.number = 0
    BY <1>1 DEF Job, AnalysisInv, NumbersKnown, UnsafeUnread
  <2>2. ASSUME l \notin excused, NEW y \in Runners, runs[y].at # "idle"
        PROVE  runs[y].link # l
    <3>1. y \in Workers /\ jobs[l].owner = "nobody"
      BY <1>1, <1>3, <2>2, AnalysisAssumption DEF AnalysisInv, AnalysisTypeOK, Job
    <3> QED
      BY <2>2, <3>1, AnalysisAssumption DEF AnalysisInv, JobOwned
  <2>3. l \notin excused =>
          /\ newest[l] <= jobs[l].verdict.number
          /\ cache[l].present => jobs[l].verdict.number <= cache[l].verdict.number
    BY <1>1, <1>3 DEF AnalysisInv, KeptFresh
  <2>4. jobs[l].verdict.number <= jobs[l].verdict.number
    BY <1>1, NumbersTyped
  <2> QED
    BY <1>1, <1>2, <1>3, <2>1, <2>2, <2>3, <2>4, AnswerKeeps
<1>4. CASE AnswerError(r)
  <2>1. /\ requests' = [requests EXCEPT ![r] = RequestIdle] /\ UNCHANGED <<newest, wentBack>>
        /\ jobs \in [Links -> Job] /\ requests \in [Requests -> Request]
    BY <1>4 DEF AnswerError, AnalysisInv, AnalysisTypeOK
  <2> QED
    BY <1>1, <1>2, <2>1, VerdictType, JobsChange
<1> QED
  BY <1>3, <1>4 DEF HearsOfJob

LEMMA GivesUpKeeps ==
  ASSUME AnalysisInv, NEW r \in Requests, GivesUp(r)
  PROVE  AnalysisInv'
<1>1. /\ queued /\ requests' = [requests EXCEPT ![r] = RequestIdle]
      /\ UNCHANGED <<queued, origin, changes, jobs, runs, cache, evals, excused, newest, wentBack>>
      /\ jobs \in [Links -> Job] /\ requests \in [Requests -> Request]
  BY DEF GivesUp, AnswerError, AnalysisInv, AnalysisTypeOK
<1>2. r \in Runners /\ runs[r].at = "idle"
  BY <1>1, AnalysisAssumption DEF Runners, AnalysisInv, AnalysisTypeOK
<1> QED
  BY <1>1, <1>2, VerdictType, JobsChange

------------------------------------------------------------------------------
(* Steps of the world outside *)

LEMMA ProcessRestartsKeeps ==
  ASSUME AnalysisInv, ProcessRestarts
  PROVE  AnalysisInv'
<1>1. /\ ~queued /\ runs' = [x \in Runners |-> RunIdle]
      /\ requests' = [r \in Requests |-> RequestIdle] /\ cache' = [l \in Links |-> NoEntry]
      /\ UNCHANGED <<queued, origin, changes, jobs, evals, newest, wentBack, excused>>
      /\ Workers \subseteq Runners /\ Requests \subseteq Runners
  BY DEF ProcessRestarts, Runners
<1>2. AnalysisTypeOK'
  BY <1>1, VerdictType DEF AnalysisInv, AnalysisTypeOK
<1>3. JobOwned' /\ InlineAlone' /\ InlineAsked' /\ FloorsKept'
  BY <1>1, VerdictType DEF JobOwned, InlineAlone, InlineAsked, FloorsKept
<1>4. NumbersKnown' /\ UnsafeUnread' /\ GoldenRule'
  BY <1>1, VerdictType, NumbersTyped DEF AnalysisInv, NumbersKnown, UnsafeUnread, GoldenRule
<1>5. KeptFresh' /\ RunsFresh' /\ NeverGoesBack'
  BY <1>1, VerdictType DEF AnalysisInv, KeptFresh, RunsFresh, NeverGoesBack
<1> QED
  BY <1>2, <1>3, <1>4, <1>5 DEF AnalysisInv

LEMMA JobRemovedKeeps ==
  ASSUME AnalysisInv, NEW l \in Links, JobRemoved(l)
  PROVE  AnalysisInv'
<1>1. /\ jobs[l].st \in {"completed", "failed"} /\ jobs' = [jobs EXCEPT ![l] = NoJob]
      /\ UNCHANGED <<queued, origin, changes, runs, cache, requests, evals, newest, wentBack, excused>>
      /\ queued /\ jobs \in [Links -> Job] /\ requests \in [Requests -> Request]
  BY DEF JobRemoved, AnalysisInv, AnalysisTypeOK
<1>2. jobs' \in [Links -> Job] /\ \A k \in Links : jobs'[k] = IF k = l THEN NoJob ELSE jobs[k]
  BY <1>1, VerdictType
<1> QED
  BY <1>1, <1>2, VerdictType, JobsChange

LEMMA EntryExpiresKeeps ==
  ASSUME AnalysisInv, NEW l \in Links, EntryExpires(l)
  PROVE  AnalysisInv'
<1>1. /\ cache' = [cache EXCEPT ![l] = NoEntry]
      /\ UNCHANGED <<queued, origin, changes, jobs, runs, requests, evals, newest, wentBack, excused>>
  BY DEF EntryExpires
<1>2. cache' \in [Links -> Entry] /\ \A k \in Links : cache'[k] = IF k = l THEN NoEntry ELSE cache[k]
  BY <1>1, VerdictType DEF AnalysisInv, AnalysisTypeOK
<1>3. AnalysisTypeOK'
  BY <1>1, <1>2 DEF AnalysisInv, AnalysisTypeOK
<1>4. JobOwned' /\ InlineAlone' /\ InlineAsked' /\ FloorsKept' /\ NeverGoesBack'
  BY <1>1 DEF AnalysisInv, JobOwned, InlineAlone, InlineAsked, FloorsKept, NeverGoesBack
<1>5. NumbersKnown' /\ UnsafeUnread' /\ GoldenRule'
  BY <1>1, <1>2, VerdictType, NumbersTyped DEF AnalysisInv, NumbersKnown, UnsafeUnread, GoldenRule
<1>6. KeptFresh' /\ RunsFresh'
  BY <1>1, <1>2, VerdictType DEF AnalysisInv, AnalysisTypeOK, KeptFresh, RunsFresh
<1> QED
  BY <1>3, <1>4, <1>5, <1>6 DEF AnalysisInv

\* The invariant says nothing of what the origins show.
LEMMA OriginChangesKeeps ==
  ASSUME AnalysisInv, NEW l \in Links, NEW facts \in OriginFacts, OriginChanges(l, facts)
  PROVE  AnalysisInv'
<1>1. UNCHANGED <<queued, jobs, runs, cache, requests, evals, newest, wentBack, excused>>
  BY DEF OriginChanges
<1>2. AnalysisTypeOK'
  BY <1>1, AnalysisAssumption DEF OriginChanges, AnalysisInv, AnalysisTypeOK
<1> QED
  BY <1>1, <1>2 DEF AnalysisInv, JobOwned, InlineAlone, InlineAsked, NumbersKnown, UnsafeUnread,
       FloorsKept, KeptFresh, RunsFresh, GoldenRule, NeverGoesBack

------------------------------------------------------------------------------
(* Theorems *)

\* The inductive invariant holds in every state reached.
THEOREM AnalysisInvariant == SpecAnalysis => []AnalysisInv
<1>1. InitAnalysis => AnalysisInv
  <2>1. SUFFICES ASSUME InitAnalysis PROVE AnalysisInv
    OBVIOUS
  <2>2. AnalysisTypeOK
    BY <2>1, VerdictType, AnalysisAssumption DEF InitAnalysis, AnalysisTypeOK, NoJob
  <2>3. JobOwned /\ InlineAlone /\ InlineAsked /\ FloorsKept /\ NeverGoesBack
    BY <2>1, VerdictType
       DEF InitAnalysis, JobOwned, InlineAlone, InlineAsked, FloorsKept, NeverGoesBack, Runners
  <2>4. NumbersKnown /\ UnsafeUnread /\ GoldenRule
    BY <2>1, VerdictType DEF InitAnalysis, NumbersKnown, UnsafeUnread, GoldenRule
  <2>5. KeptFresh /\ RunsFresh
    BY <2>1, VerdictType DEF InitAnalysis, KeptFresh, RunsFresh
  <2> QED
    BY <2>2, <2>3, <2>4, <2>5 DEF AnalysisInv
<1>2. AnalysisInv /\ [NextAnalysis]_analysisVars => AnalysisInv'
  <2>1. SUFFICES ASSUME AnalysisInv, [NextAnalysis]_analysisVars PROVE AnalysisInv'
    OBVIOUS
  <2>2. CASE UNCHANGED analysisVars
    BY <2>1, <2>2
       DEF analysisVars, AnalysisInv, AnalysisTypeOK, JobOwned, InlineAlone, InlineAsked,
           NumbersKnown, UnsafeUnread, FloorsKept, KeptFresh, RunsFresh, GoldenRule, NeverGoesBack
  <2>3. CASE \E r \in Requests : (\E l \in Links : Asks(r, l)) \/ HearsOfJob(r) \/ GivesUp(r)
    BY <2>1, <2>3, AsksKeeps, HearsOfJobKeeps, GivesUpKeeps
  <2>4. CASE \E w \in Workers : (\E l \in Links : WorkerTakes(w, l)) \/ WorkerDies(w) \/ LosesLock(w)
    BY <2>1, <2>4, WorkerTakesKeeps, WorkerDiesKeeps, LosesLockKeeps
  <2>5. CASE \E x \in Runners :
               \/ ReadsCache(x) \/ HeadAnswers(x) \/ PageAnswers(x) \/ BodyArrives(x) \/ Stores(x)
               \/ Finishes(x) \/ CallFails(x) \/ RequestFails(x)
    <3>1. ASSUME NEW x \in Runners, CallFails(x) \/ RequestFails(x) PROVE AnalysisInv'
      BY <2>1, <3>1, EndsKeeps DEF CallFails, RequestFails
    <3> QED
      BY <2>1, <2>5, <3>1, ReadsCacheKeeps, HeadAnswersKeeps, PageAnswersKeeps,
         BodyArrivesKeeps, StoresKeeps, FinishesKeeps
  <2>6. CASE ProcessRestarts
    BY <2>1, <2>6, ProcessRestartsKeeps
  <2>7. CASE \E l \in Links : JobRemoved(l) \/ EntryExpires(l) \/ \E facts \in OriginFacts : OriginChanges(l, facts)
    BY <2>1, <2>7, JobRemovedKeeps, EntryExpiresKeeps, OriginChangesKeeps
  <2> QED
    BY <2>1, <2>2, <2>3, <2>4, <2>5, <2>6, <2>7 DEF NextAnalysis
<1> QED
  BY <1>1, <1>2, PTL DEF SpecAnalysis

\* Jobs belong to workers and inline runs to requests, whatever dies or is
\* removed.
THEOREM AnalysisTypeCorrect == SpecAnalysis => []AnalysisTypeOK
<1>1. AnalysisInv => AnalysisTypeOK
  BY DEF AnalysisInv
<1> QED
  BY <1>1, AnalysisInvariant, PTL

\* One link is analyzed once at a time, unless a worker lost the lock of its
\* job (bullmq-analysis-executor.ts:6-7).
THEOREM OneProbeAtATime == SpecAnalysis => []OneProbe
<1>1. AnalysisInv => OneProbe
  BY DEF AnalysisInv, JobOwned, OneProbe
<1> QED
  BY <1>1, AnalysisInvariant, PTL

\* No request is answered with a verdict older than one answered before it was
\* made (analysis.service.ts:65-104).
THEOREM VerdictsNeverGoBack == SpecAnalysis => []NeverGoesBack
<1>1. AnalysisInv => NeverGoesBack
  BY DEF AnalysisInv
<1> QED
  BY <1>1, AnalysisInvariant, PTL

\* No verdict allows a download over a status of the answer to HEAD, a paywall
\* flag or a DRM marker that shows a barrier; of the status of the page it says
\* nothing (eligibility.service.ts:42-104, http-metadata-probe.ts:31-88).
THEOREM GoldenRuleKept == SpecAnalysis => []GoldenRule
<1>1. AnalysisInv => GoldenRule
  BY DEF AnalysisInv
<1> QED
  BY <1>1, AnalysisInvariant, PTL
=============================================================================
