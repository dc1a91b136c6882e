--------------------------- MODULE Converter_proofs ---------------------------
(***************************************************************************)
(* Proofs about Converter, for any set of jobs, any settings and any number*)
(* of slots.                                                               *)
(***************************************************************************)
EXTENDS Converter, FiniteSetTheorems, TLAPS

------------------------------------------------------------------------------
(* The inductive invariant *)

\* Its parts are of jobs, runs and order given, for what a pump starts from is
\* in none of the variables.

Taken(rs) == {id \in Ids : rs[id].at # "none"}

Present(js) == {id \in Ids : js[id].st # "none"}

\* The order of insertion is one: strict, total and transitive.
Ordered(order, ids) ==
  /\ order \subseteq ids \X ids
  /\ \A t, u \in ids : t # u <=> <<t, u>> \in order \/ <<u, t>> \in order
  /\ \A t, u, w \in ids : <<t, u>> \in order /\ <<u, w>> \in order => <<t, w>> \in order

Fit(js, rs, order) ==
  /\ js \in [Ids -> Job] /\ rs \in [Ids -> Run]
  /\ Ordered(order, Present(js))
  /\ \A id \in Ids : rs[id].at # "none" => js[id].st \in {"converting", "queued"}
  /\ \A id \in Ids : /\ rs[id].at # "none" => rs[id].setting \in Settings
                     /\ js[id].st # "none" => js[id].setting \in Settings

\* The file of a job is another job's too.
Disputed(id, setting) ==
  \/ output[OutputPath[id][setting]].by \notin {id, "none"}
  \/ output[OutputPath[id][setting]].by = id /\ output[OutputPath[id][setting]].mixed

Opened(id, setting) ==
  \/ Disputed(id, setting)
  \/ /\ output[OutputPath[id][setting]].by = id
     /\ output[OutputPath[id][setting]].setting = setting

Made(id, setting) ==
  \/ Disputed(id, setting)
  \/ /\ output[OutputPath[id][setting]].by = id
     /\ output[OutputPath[id][setting]].setting = setting
     /\ output[OutputPath[id][setting]].whole

\* What is at an output path is of the run that has it, or else of the job that
\* says completed, unless it is disputed.
Shows(js, rs) ==
  \A id \in Ids :
    /\ js[id].st = "completed" => Made(id, js[id].setting)
    /\ rs[id].at \in {"alive", "exited"} => Opened(id, rs[id].setting)
    /\ rs[id].at = "exited" /\ rs[id].good => Made(id, rs[id].setting)

Typed ==
  /\ maxConcurrent \in Nat \ {0}
  /\ canceled \in SUBSET Ids /\ disposed \in BOOLEAN
  /\ output \in [Paths -> Output]

ConverterInv == Typed /\ Fit(jobs, runs, before) /\ Shows(jobs, runs) /\ SlotsUsed

LEMMA TypeFollows == ConverterInv => ConverterTypeOK
BY DEF ConverterInv, Typed, Fit, Ordered, Present, ConverterTypeOK, Listed, Running

\* What is asked of each job and of each run is asked of the setting they have.
LEMMA ShowsEach ==
  ASSUME \A id \in Ids : \A setting :
           /\ jobs'[id].st = "completed" /\ setting = jobs'[id].setting => Made(id, setting)'
           /\ runs'[id].at \in {"alive", "exited"} /\ setting = runs'[id].setting
                => Opened(id, setting)'
           /\ runs'[id].at = "exited" /\ runs'[id].good /\ setting = runs'[id].setting
                => Made(id, setting)'
  PROVE  Shows(jobs, runs)'
<1>1. ASSUME NEW id \in Ids
      PROVE  jobs'[id].st = "completed" => Made(id, jobs[id].setting)'
  BY DEF Made, Disputed
<1>2. ASSUME NEW id \in Ids
      PROVE  runs'[id].at \in {"alive", "exited"} => Opened(id, runs[id].setting)'
  BY DEF Opened, Disputed
<1>3. ASSUME NEW id \in Ids
      PROVE  runs'[id].at = "exited" /\ runs'[id].good => Made(id, runs[id].setting)'
  BY DEF Made, Disputed
<1> QED
  BY <1>1, <1>2, <1>3 DEF Shows

\* What a job and a run show stays shown while no file is touched, nothing
\* becomes completed and no run goes on.
LEMMA ShowsStay ==
  ASSUME NEW js, NEW rs, Shows(js, rs), output' = output,
         \A id \in Ids :
           /\ jobs'[id].st = "completed" => jobs'[id] = js[id]
           /\ runs'[id].at \in {"alive", "exited"} =>
                /\ runs'[id].at = rs[id].at /\ runs'[id].setting = rs[id].setting
                /\ runs'[id].good = rs[id].good
  PROVE  Shows(jobs, runs)'
<1>1. \A id, setting : Made(id, setting)' <=> Made(id, setting)
  BY DEF Made, Disputed
<1>2. \A id, setting : Opened(id, setting)' <=> Opened(id, setting)
  BY DEF Opened, Disputed
<1>3. ASSUME NEW id \in Ids
      PROVE  /\ jobs'[id].st = "completed" => Made(id, jobs'[id].setting)
             /\ runs'[id].at \in {"alive", "exited"} => Opened(id, runs'[id].setting)
             /\ runs'[id].at = "exited" /\ runs'[id].good => Made(id, runs'[id].setting)
  BY DEF Shows
<1> QED
  BY <1>1, <1>2, <1>3, ShowsEach

------------------------------------------------------------------------------
(* The pump *)

LEMMA Finite ==
  ASSUME NEW ids \in SUBSET Ids
  PROVE  IsFiniteSet(ids) /\ Cardinality(ids) \in Nat
BY ConverterAssumption, FS_Subset, FS_CardinalityType

\* The slots are filled, and no more than the slots.
LEMMA FirstFill ==
  ASSUME NEW taken \in SUBSET Ids, NEW waiting \in SUBSET Ids, taken \cap waiting = {},
         NEW slots \in Nat, Cardinality(taken) <= slots, NEW order,
         NEW chosen \in FirstOf(waiting, slots - Cardinality(taken), order)
  PROVE  /\ chosen \subseteq waiting
         /\ Cardinality(taken \cup chosen) <= slots
         /\ chosen # waiting => Cardinality(taken \cup chosen) = slots
<1>1. /\ chosen \subseteq waiting
      /\ chosen # {} => Cardinality(chosen) <= slots - Cardinality(taken)
      /\ chosen # waiting => Cardinality(chosen) >= slots - Cardinality(taken)
  BY DEF FirstOf
<1>2. /\ IsFiniteSet(taken) /\ Cardinality(taken) \in Nat
      /\ IsFiniteSet(chosen) /\ Cardinality(chosen) \in Nat
  BY <1>1, Finite
<1>3. taken \cap chosen = {}
  BY <1>1
<1>4. Cardinality(taken \cup chosen) = Cardinality(taken) + Cardinality(chosen)
  <2>1. /\ Cardinality(taken \cup chosen)
             = Cardinality(taken) + Cardinality(chosen) - Cardinality(taken \cap chosen)
    BY <1>2, FS_Union
  <2>2. Cardinality(taken \cap chosen) = 0
    BY <1>3, FS_EmptySet
  <2> QED
    BY <1>2, <2>1, <2>2
<1>5. Cardinality({}) = 0
  BY FS_EmptySet
<1> QED
  BY <1>1, <1>2, <1>4, <1>5

LEMMA NoneFirst ==
  ASSUME NEW waiting \in SUBSET Ids, NEW order, NEW chosen \in FirstOf(waiting, 0, order)
  PROVE  chosen = {}
<1>1. chosen \subseteq Ids /\ (chosen # {} => Cardinality(chosen) <= 0)
  BY DEF FirstOf
<1> QED
  BY <1>1, Finite, FS_EmptySet

\* A pump that starts from what is in order leaves everything in order.
LEMMA PumpKeeps ==
  ASSUME Typed, NEW js, NEW rs, NEW order, NEW marks \in SUBSET Ids,
         Fit(js, rs, order), Shows(js, rs), Cardinality(Taken(rs)) <= maxConcurrent,
         Pump(js, rs, order, marks), UNCHANGED <<maxConcurrent, disposed, output>>
  PROVE  ConverterInv'
<1>1. js \in [Ids -> Job] /\ rs \in [Ids -> Run]
  BY DEF Fit
<1>2. PICK chosen \in FirstOf(Waiting(js, rs), IF disposed THEN 0 ELSE Free(rs), order) :
        /\ jobs' = [id \in Ids |-> IF id \in chosen THEN [js[id] EXCEPT !.st = "converting"] ELSE js[id]]
        /\ runs' = [id \in Ids |-> IF id \in chosen
                     THEN [NoRun EXCEPT !.at = "starting", !.setting = js[id].setting] ELSE rs[id]]
        /\ canceled' = marks \ chosen
        /\ before' = order
  BY DEF Pump
<1>3. chosen \subseteq Waiting(js, rs)
  BY <1>2 DEF FirstOf
<1>4. \A id \in chosen : id \in Ids /\ js[id].st = "queued" /\ rs[id].at = "none"
  BY <1>3 DEF Waiting
<1>5. \A id \in Ids :
        /\ id \in chosen => /\ jobs'[id] \in Job /\ jobs'[id].st = "converting"
                            /\ jobs'[id].setting = js[id].setting
                            /\ runs'[id] \in Run /\ runs'[id].at = "starting"
                            /\ runs'[id].setting = js[id].setting
        /\ id \notin chosen => jobs'[id] = js[id] /\ runs'[id] = rs[id]
  BY <1>1, <1>2 DEF Job, JobStates, Run, NoRun
<1>6. jobs' \in [Ids -> Job] /\ runs' \in [Ids -> Run]
  BY <1>1, <1>2, <1>5
<1>7. Present(jobs)' = Present(js)
  BY <1>4, <1>5 DEF Present
<1>8. Fit(jobs, runs, before)'
  BY <1>2, <1>4, <1>5, <1>6, <1>7 DEF Fit
<1>9. Shows(jobs, runs)'
  BY <1>4, <1>5, ShowsStay
<1>10. SlotsUsed'
  <2>1. Running' = Taken(rs) \cup chosen
    BY <1>4, <1>5 DEF Running, Taken
  <2>2. Waiting(jobs, runs)' = Waiting(js, rs) \ chosen
    BY <1>4, <1>5 DEF Waiting
  <2>3. /\ Taken(rs) \in SUBSET Ids /\ Waiting(js, rs) \in SUBSET Ids
        /\ Taken(rs) \cap Waiting(js, rs) = {} /\ maxConcurrent \in Nat
    BY DEF Taken, Waiting, Typed
  <2>4. CASE disposed
    <3>1. chosen = {}
      BY <1>2, <2>3, <2>4, NoneFirst
    <3>2. Running' = Taken(rs) /\ maxConcurrent' = maxConcurrent /\ disposed'
      BY <2>1, <2>4, <3>1
    <3> QED
      BY <3>2 DEF SlotsUsed
  <2>5. CASE ~disposed
    <3>1. /\ Cardinality(Taken(rs) \cup chosen) <= maxConcurrent
          /\ chosen # Waiting(js, rs) => Cardinality(Taken(rs) \cup chosen) = maxConcurrent
      <4>1. chosen \in FirstOf(Waiting(js, rs), maxConcurrent - Cardinality(Taken(rs)), order)
        BY <1>2, <2>5 DEF Free, Taken
      <4> QED
        BY <2>3, <4>1, FirstFill
    <3>2. Waiting(jobs, runs)' # {} => chosen # Waiting(js, rs)
      BY <2>2
    <3>3. maxConcurrent' = maxConcurrent
      OBVIOUS
    <3> QED
      BY <2>1, <3>1, <3>2, <3>3 DEF SlotsUsed
  <2> QED
    BY <2>4, <2>5
<1>11. Typed'
  BY <1>2 DEF Typed
<1> QED
  BY <1>8, <1>9, <1>10, <1>11 DEF ConverterInv

------------------------------------------------------------------------------
(* The operations of the manager *)

\* What is inserted last comes after all that is there.
LEMMA OrderedLast ==
  ASSUME NEW ids, NEW order, Ordered(order, ids), NEW id, id \notin ids
  PROVE  Ordered(order \cup (ids \X {id}), ids \cup {id})
<1>1. order \subseteq ids \X ids
  BY DEF Ordered
<1>2. \A t, u : <<t, u>> \in order \cup (ids \X {id}) <=>
                  <<t, u>> \in order \/ (t \in ids /\ u = id)
  OBVIOUS
<1>3. \A t, u : <<t, u>> \in order => t \in ids /\ u \in ids
  BY <1>1
<1>4. order \cup (ids \X {id}) \subseteq (ids \cup {id}) \X (ids \cup {id})
  BY <1>1
<1>5. \A t, u \in ids \cup {id} :
        t # u <=> \/ <<t, u>> \in order \cup (ids \X {id})
                  \/ <<u, t>> \in order \cup (ids \X {id})
  BY <1>2, <1>3 DEF Ordered
<1>6. \A t, u, w \in ids \cup {id} :
        <<t, u>> \in order \cup (ids \X {id}) /\ <<u, w>> \in order \cup (ids \X {id}) =>
          <<t, w>> \in order \cup (ids \X {id})
  BY <1>2, <1>3 DEF Ordered
<1> QED
  BY <1>4, <1>5, <1>6 DEF Ordered

LEMMA OrderedWithout ==
  ASSUME NEW ids, NEW order, Ordered(order, ids), NEW done
  PROVE  Ordered({p \in order : p[1] \notin done /\ p[2] \notin done}, ids \ done)
<1> DEFINE rest == {p \in order : p[1] \notin done /\ p[2] \notin done}
<1>1. order \subseteq ids \X ids
  BY DEF Ordered
<1>2. \A t, u : <<t, u>> \in rest <=> <<t, u>> \in order /\ t \notin done /\ u \notin done
  OBVIOUS
<1>3. rest \subseteq (ids \ done) \X (ids \ done)
  BY <1>1
<1> HIDE DEF rest
<1>4. Ordered(rest, ids \ done)
  BY <1>2, <1>3 DEF Ordered
<1> QED
  BY <1>4 DEF rest

LEMMA SlotsKept ==
  ASSUME ConverterInv
  PROVE  Cardinality(Taken(runs)) <= maxConcurrent
<1>1. Running = Taken(runs)
  BY DEF Running, Taken
<1> QED
  BY <1>1 DEF ConverterInv, SlotsUsed

LEMMA EnqueueKeeps ==
  ASSUME ConverterInv, NEW id \in Ids, NEW setting \in Settings, Enqueue(id, setting)
  PROVE  ConverterInv'
<1> DEFINE js == [jobs EXCEPT ![id] = [st |-> "queued", setting |-> setting]]
           order == IF id \in Listed THEN before ELSE before \cup (Listed \X {id})
<1>1. /\ Pump(js, runs, order, canceled) /\ UNCHANGED <<maxConcurrent, disposed, output>>
      /\ Typed /\ jobs \in [Ids -> Job] /\ runs \in [Ids -> Run]
      /\ Ordered(before, Present(jobs)) /\ Listed = Present(jobs)
  BY DEF Enqueue, ConverterInv, Fit, Listed, Present
<1>2. /\ js \in [Ids -> Job] /\ js[id].st = "queued" /\ js[id].setting = setting
      /\ \A x \in Ids : x # id => js[x] = jobs[x]
  BY <1>1 DEF Job, JobStates
<1> HIDE DEF js
<1>3. Ordered(order, Present(js))
  <2>1. CASE id \in Listed
    <3>1. Present(js) = Present(jobs) /\ order = before
      BY <1>1, <1>2, <2>1 DEF Present
    <3> QED
      BY <1>1, <3>1
  <2>2. CASE id \notin Listed
    <3>1. Present(js) = Listed \cup {id} /\ order = before \cup (Listed \X {id})
      BY <1>1, <1>2, <2>2 DEF Present
    <3> QED
      BY <1>1, <2>2, <3>1, OrderedLast
  <2> QED
    BY <2>1, <2>2
<1> HIDE DEF order
<1>4. Fit(js, runs, order)
  BY <1>1, <1>2, <1>3 DEF Fit, ConverterInv
<1>5. Shows(js, runs)
  BY <1>1, <1>2 DEF Shows, ConverterInv
<1>6. canceled \in SUBSET Ids /\ Cardinality(Taken(runs)) <= maxConcurrent
  BY <1>1, SlotsKept DEF Typed
<1> QED
  BY <1>1, <1>4, <1>5, <1>6, PumpKeeps

LEMMA RetryKeeps ==
  ASSUME ConverterInv, NEW id \in Ids, Retry(id)
  PROVE  ConverterInv'
<1> DEFINE js == [jobs EXCEPT ![id].st = "queued"]
<1>1. /\ Pump(js, runs, before, canceled) /\ UNCHANGED <<maxConcurrent, disposed, output>>
      /\ Typed /\ jobs \in [Ids -> Job] /\ runs \in [Ids -> Run] /\ jobs[id].st = "failed"
  BY DEF Retry, ConverterInv, Fit
<1>2. /\ js \in [Ids -> Job] /\ js[id].st = "queued" /\ js[id].setting = jobs[id].setting
      /\ \A x \in Ids : x # id => js[x] = jobs[x]
  BY <1>1 DEF Job, JobStates
<1> HIDE DEF js
<1>3. Present(js) = Present(jobs)
  BY <1>1, <1>2 DEF Present
<1>4. Fit(js, runs, before)
  BY <1>1, <1>2, <1>3 DEF Fit, ConverterInv
<1>5. Shows(js, runs)
  BY <1>1, <1>2 DEF Shows, ConverterInv
<1>6. canceled \in SUBSET Ids /\ Cardinality(Taken(runs)) <= maxConcurrent
  BY <1>1, SlotsKept DEF Typed
<1> QED
  BY <1>1, <1>4, <1>5, <1>6, PumpKeeps

\* Who has a run and who waits is as it was, so the slots are used as they were.
LEMMA SlotsStay ==
  ASSUME ConverterInv, maxConcurrent' = maxConcurrent, ~disposed' => ~disposed,
         \A id \in Ids : /\ runs'[id].at = "none" <=> runs[id].at = "none"
                         /\ jobs'[id].st = "queued" => jobs[id].st = "queued"
                                                       \/ runs[id].at # "none"
  PROVE  SlotsUsed'
<1>1. Running' = Running
  BY DEF Running
<1>2. \A id : id \in Waiting(jobs, runs)' => id \in Waiting(jobs, runs)
  BY DEF Waiting
<1> QED
  BY <1>1, <1>2 DEF SlotsUsed, ConverterInv

LEMMA CancelsKeep ==
  ASSUME ConverterInv, NEW id \in Ids, CancelRunning(id) \/ CancelQueued(id)
  PROVE  ConverterInv'
<1>1. /\ Typed /\ jobs \in [Ids -> Job] /\ runs \in [Ids -> Run]
      /\ UNCHANGED <<maxConcurrent, before, disposed, output>>
  BY DEF CancelRunning, CancelQueued, ConverterInv, Fit
<1>2. CASE CancelRunning(id)
  <2>1. /\ canceled' = canceled \cup {id} /\ jobs' = jobs
        /\ runs' = IF runs[id].at = "alive" THEN [runs EXCEPT ![id].killed = TRUE] ELSE runs
    BY <1>2 DEF CancelRunning
  <2>2. runs' \in [Ids -> Run] /\ \A x \in Ids :
          runs'[x].at = runs[x].at /\ runs'[x].setting = runs[x].setting /\ runs'[x].good = runs[x].good
    BY <1>1, <2>1 DEF Run
  <2>3. SlotsUsed'
    BY <1>1, <2>1, <2>2, SlotsStay
  <2>4. Fit(jobs, runs, before)'
    BY <1>1, <2>1, <2>2 DEF ConverterInv, Fit, Present
  <2>5. Shows(jobs, runs)'
    BY <1>1, <2>1, <2>2, ShowsStay DEF ConverterInv
  <2>6. canceled' \in SUBSET Ids
    BY <1>1, <2>1 DEF Typed
  <2> QED
    BY <1>1, <2>3, <2>6, <2>4, <2>5 DEF ConverterInv, Typed
<1>3. CASE CancelQueued(id)
  <2>1. /\ jobs' = [jobs EXCEPT ![id].st = "canceled"] /\ UNCHANGED <<runs, canceled>>
        /\ jobs[id].st \in {"queued", "converting"} /\ runs[id].at = "none"
    BY <1>3 DEF CancelQueued, Running
  <2>2. /\ jobs' \in [Ids -> Job] /\ jobs'[id].st = "canceled" /\ jobs'[id].setting = jobs[id].setting
        /\ \A x \in Ids : x # id => jobs'[x] = jobs[x]
    BY <1>1, <2>1 DEF Job, JobStates
  <2>3. Present(jobs)' = Present(jobs)
    BY <2>1, <2>2 DEF Present
  <2>4. SlotsUsed'
    BY <1>1, <2>1, <2>2, SlotsStay
  <2>5. Fit(jobs, runs, before)'
    BY <1>1, <2>1, <2>2, <2>3 DEF ConverterInv, Fit
  <2>6. Shows(jobs, runs)'
    BY <1>1, <2>1, <2>2, ShowsStay DEF ConverterInv
  <2> QED
    BY <1>1, <2>1, <2>4, <2>5, <2>6 DEF ConverterInv, Typed
<1> QED
  BY <1>2, <1>3

LEMMA ClearFinishedKeeps ==
  ASSUME ConverterInv, ClearFinished
  PROVE  ConverterInv'
<1> DEFINE done == {id \in Ids : jobs[id].st = "completed"}
<1>1. /\ Typed /\ jobs \in [Ids -> Job] /\ runs \in [Ids -> Run]
      /\ UNCHANGED <<maxConcurrent, runs, canceled, disposed, output>>
      /\ jobs' = [id \in Ids |-> IF id \in done THEN NoJob ELSE jobs[id]]
      /\ before' = {p \in before : p[1] \notin done /\ p[2] \notin done}
      /\ Ordered(before, Present(jobs))
  BY DEF ClearFinished, ConverterInv, Fit
<1>2. \A id \in done : id \in Ids /\ jobs[id].st = "completed"
  OBVIOUS
<1> HIDE DEF done
<1>3. /\ jobs' \in [Ids -> Job]
      /\ \A id \in Ids : IF id \in done THEN jobs'[id].st = "none" ELSE jobs'[id] = jobs[id]
  BY <1>1 DEF NoJob, Job, JobStates
<1>4. Present(jobs)' = Present(jobs) \ done
  BY <1>1, <1>2, <1>3 DEF Present
<1>5. Ordered(before', Present(jobs)')
  <2>1. Ordered({p \in before : p[1] \notin done /\ p[2] \notin done}, Present(jobs) \ done)
    BY <1>1, OrderedWithout
  <2> QED
    BY <1>1, <1>4, <2>1
<1>6. SlotsUsed'
  BY <1>1, <1>3, SlotsStay
<1>7. Fit(jobs, runs, before)'
  BY <1>1, <1>2, <1>3, <1>5 DEF ConverterInv, Fit
<1>8. Shows(jobs, runs)'
  BY <1>1, <1>2, <1>3, ShowsStay DEF ConverterInv, NoJob
<1> QED
  BY <1>1, <1>6, <1>7, <1>8 DEF ConverterInv, Typed

LEMMA DisposeKeeps ==
  ASSUME ConverterInv, Dispose
  PROVE  ConverterInv'
<1>1. /\ Typed /\ jobs \in [Ids -> Job] /\ runs \in [Ids -> Run]
      /\ UNCHANGED <<maxConcurrent, jobs, before, output>>
      /\ disposed' = TRUE /\ canceled' = canceled \cup Running
      /\ runs' = [id \in Ids |-> IF runs[id].at = "alive"
                   THEN [runs[id] EXCEPT !.killed = TRUE] ELSE runs[id]]
  BY DEF Dispose, ConverterInv, Fit
<1>2. runs' \in [Ids -> Run] /\ \A x \in Ids :
        runs'[x].at = runs[x].at /\ runs'[x].setting = runs[x].setting /\ runs'[x].good = runs[x].good
  BY <1>1 DEF Run
<1>3. SlotsUsed'
  BY <1>1, <1>2, SlotsStay
<1>4. canceled' \in SUBSET Ids
  BY <1>1 DEF Typed, Running
<1>5. Shows(jobs, runs)'
  BY <1>1, <1>2, ShowsStay DEF ConverterInv
<1>6. Fit(jobs, runs, before)'
  BY <1>1, <1>2 DEF ConverterInv, Fit, Present
<1> QED
  BY <1>1, <1>3, <1>4, <1>5, <1>6 DEF ConverterInv, Typed

------------------------------------------------------------------------------
(* A run *)

\* Where a process opens a file, it is disputed for every other job that names it.
LEMMA OpensKeeps ==
  ASSUME ConverterInv, NEW id \in Ids, runs[id].at # "none", Opens(id)
  PROVE  /\ output' \in [Paths -> Output]
         /\ output'[PathOf(id)].by = id /\ output'[PathOf(id)].setting = runs[id].setting
         /\ \A x \in Ids \ {id}, setting \in Settings :
              /\ Opened(x, setting) => Opened(x, setting)'
              /\ Made(x, setting) => Made(x, setting)'
<1>1. PathOf(id) \in Paths /\ runs[id].setting \in Settings /\ output \in [Paths -> Output]
  BY ConverterAssumption DEF ConverterInv, Fit, Typed, PathOf
<1>2. PICK mixed \in BOOLEAN : output' = [output EXCEPT ![PathOf(id)] =
        [by |-> id, setting |-> runs[id].setting, mixed |-> mixed, whole |-> FALSE]]
  BY DEF Opens, Shared
<1>3. /\ output' \in [Paths -> Output]
      /\ output'[PathOf(id)].by = id /\ output'[PathOf(id)].setting = runs[id].setting
      /\ \A path \in Paths : path # PathOf(id) => output'[path] = output[path]
  BY <1>1, <1>2 DEF Output
<1>4. ASSUME NEW x \in Ids \ {id}, NEW setting \in Settings
      PROVE  /\ Opened(x, setting) => Opened(x, setting)'
             /\ Made(x, setting) => Made(x, setting)'
  <2>1. OutputPath[x][setting] \in Paths /\ id \notin {x, "none"}
    BY ConverterAssumption
  <2>2. CASE OutputPath[x][setting] = PathOf(id)
    <3>1. output'[OutputPath[x][setting]].by \notin {x, "none"}
      BY <1>3, <2>1, <2>2
    <3> QED
      BY <3>1 DEF Opened, Made, Disputed
  <2>3. CASE OutputPath[x][setting] # PathOf(id)
    <3>1. output'[OutputPath[x][setting]] = output[OutputPath[x][setting]]
      BY <1>3, <2>1, <2>3
    <3> QED
      BY <3>1 DEF Opened, Made, Disputed
  <2> QED
    BY <2>2, <2>3
<1> QED
  BY <1>3, <1>4

\* The exit of a process finishes the file only where it is the last to have
\* opened it, and was alone then.
LEMMA ExitKeeps ==
  ASSUME ConverterInv, NEW id \in Ids, runs[id].at = "alive", NEW good \in BOOLEAN,
         output' = IF output[PathOf(id)].by = id
                   THEN [output EXCEPT ![PathOf(id)].whole = good /\ ~output[PathOf(id)].mixed]
                   ELSE output
  PROVE  /\ output' \in [Paths -> Output]
         /\ \A x \in Ids, setting \in Settings : Opened(x, setting) => Opened(x, setting)'
         /\ \A x \in Ids \ {id}, setting \in Settings : Made(x, setting) => Made(x, setting)'
         /\ \A setting \in Settings : good /\ setting = runs[id].setting => Made(id, setting)'
<1>1. /\ PathOf(id) \in Paths /\ runs[id].setting \in Settings /\ output \in [Paths -> Output]
      /\ Opened(id, runs[id].setting) /\ OutputPath[id][runs[id].setting] = PathOf(id)
  BY ConverterAssumption DEF ConverterInv, Fit, Typed, Shows, PathOf
<1>2. CASE output[PathOf(id)].by # id
  BY <1>1, <1>2 DEF Opened, Made, Disputed
<1>3. CASE output[PathOf(id)].by = id
  <2>1. /\ output' \in [Paths -> Output]
        /\ \A path \in Paths : path # PathOf(id) => output'[path] = output[path]
        /\ output'[PathOf(id)].by = id
        /\ output'[PathOf(id)].setting = output[PathOf(id)].setting
        /\ output'[PathOf(id)].mixed = output[PathOf(id)].mixed
        /\ output'[PathOf(id)].whole = (good /\ ~output[PathOf(id)].mixed)
    <3>1. PICK path \in Paths : path = PathOf(id)
      BY <1>1
    <3>2. PICK whole \in BOOLEAN : whole = (good /\ ~output[path].mixed)
      OBVIOUS
    <3>3. output' = [output EXCEPT ![path].whole = whole]
      BY <1>3, <3>1, <3>2
    <3>4. /\ output' \in [Paths -> Output] /\ output'[path] = [output[path] EXCEPT !.whole = whole]
          /\ \A q \in Paths : q # path => output'[q] = output[q]
      BY <1>1, <3>3 DEF Output
    <3>5. /\ output'[path].by = output[path].by /\ output'[path].setting = output[path].setting
          /\ output'[path].mixed = output[path].mixed /\ output'[path].whole = whole
      BY <1>1, <3>4 DEF Output
    <3> QED
      BY <1>3, <3>1, <3>2, <3>4, <3>5
  <2>2. \A x \in Ids, setting \in Settings :
          /\ OutputPath[x][setting] \in Paths /\ id # "none"
          /\ OutputPath[x][setting] = PathOf(id) /\ x # id => Disputed(x, setting)'
    BY <1>3, <2>1, ConverterAssumption DEF Disputed
  <2>3. ASSUME NEW x \in Ids, NEW setting \in Settings, Opened(x, setting)
        PROVE  Opened(x, setting)'
    BY <2>1, <2>2, <2>3 DEF Opened, Disputed
  <2>4. ASSUME NEW x \in Ids \ {id}, NEW setting \in Settings, Made(x, setting)
        PROVE  Made(x, setting)'
    BY <2>1, <2>2, <2>4 DEF Made, Disputed
  <2>5. ASSUME good, NEW setting \in Settings, setting = runs[id].setting
        PROVE  Made(id, setting)'
    <3>1. \/ output[PathOf(id)].mixed
          \/ output[PathOf(id)].setting = setting
      BY <1>1, <1>3, <2>5 DEF Opened, Disputed
    <3>2. \/ output'[PathOf(id)].mixed
          \/ output'[PathOf(id)].setting = setting /\ output'[PathOf(id)].whole
      BY <2>1, <2>5, <3>1
    <3>3. OutputPath[id][setting] = PathOf(id)
      BY <1>1, <2>5
    <3> HIDE <2>5
    <3> QED
      BY <2>1, <3>2, <3>3 DEF Made, Disputed
  <2> QED
    BY <2>1, <2>3, <2>4, <2>5
<1> QED
  BY <1>2, <1>3

LEMMA RunsKeep ==
  ASSUME ConverterInv, NEW id \in Ids, ProcessStarts(id) \/ ProcessExits(id) \/ Progresses(id)
  PROVE  ConverterInv'
<1>1. /\ Typed /\ jobs \in [Ids -> Job] /\ runs \in [Ids -> Run]
      /\ UNCHANGED <<maxConcurrent, before, canceled, disposed>>
      /\ runs[id].at # "none" /\ jobs[id].st \in {"converting", "queued"} /\ runs[id] \in Run
  BY DEF ProcessStarts, ProcessExits, Progresses, ConverterInv, Fit, Typed
<1>2. CASE ProcessStarts(id)
  <2>1. /\ runs' = [runs EXCEPT ![id].at = "alive", ![id].killed = id \in canceled]
        /\ Opens(id) /\ jobs' = jobs
    BY <1>2 DEF ProcessStarts
  <2>2. /\ runs' \in [Ids -> Run] /\ runs'[id].at = "alive" /\ runs'[id].setting = runs[id].setting
        /\ \A x \in Ids : x # id => runs'[x] = runs[x]
    <3>1. (id \in canceled) \in BOOLEAN
      OBVIOUS
    <3> QED
      BY <1>1, <2>1, <3>1 DEF Run
  <2>3. /\ output' \in [Paths -> Output]
        /\ output'[PathOf(id)].by = id /\ output'[PathOf(id)].setting = runs[id].setting
        /\ \A x \in Ids \ {id}, setting \in Settings :
             /\ Opened(x, setting) => Opened(x, setting)'
             /\ Made(x, setting) => Made(x, setting)'
    BY <1>1, <2>1, OpensKeeps
  <2>4. SlotsUsed'
    BY <1>1, <2>1, <2>2, SlotsStay
  <2>5. Fit(jobs, runs, before)'
    BY <1>1, <2>1, <2>2 DEF ConverterInv, Fit
  <2>6. \A setting : setting = runs[id].setting => Opened(id, setting)'
    BY <1>1, <2>2, <2>3 DEF Opened, PathOf
  <2>7. Shows(jobs, runs)'
    <3>1. ASSUME NEW x \in Ids, NEW setting
          PROVE  /\ jobs'[x].st = "completed" /\ setting = jobs'[x].setting => Made(x, setting)'
                 /\ runs'[x].at \in {"alive", "exited"} /\ setting = runs'[x].setting
                      => Opened(x, setting)'
                 /\ runs'[x].at = "exited" /\ runs'[x].good /\ setting = runs'[x].setting
                      => Made(x, setting)'
      <4>1. CASE x = id
        BY <1>1, <2>1, <2>2, <2>6, <4>1
      <4>2. CASE x # id
        <5>1. jobs'[x] = jobs[x] /\ runs'[x] = runs[x]
          BY <2>1, <2>2, <4>2
        <5>2. /\ runs[x].at # "none" => runs[x].setting \in Settings
              /\ jobs[x].st # "none" => jobs[x].setting \in Settings
              /\ jobs[x].st = "completed" => Made(x, jobs[x].setting)
              /\ runs[x].at \in {"alive", "exited"} => Opened(x, runs[x].setting)
              /\ runs[x].at = "exited" /\ runs[x].good => Made(x, runs[x].setting)
          BY DEF ConverterInv, Fit, Shows
        <5> QED
          BY <2>3, <4>2, <5>1, <5>2
      <4> QED
        BY <4>1, <4>2
    <3> QED
      BY <3>1, ShowsEach
  <2>8. Typed'
    BY <1>1, <2>3 DEF Typed
  <2> QED
    BY <2>4, <2>5, <2>7, <2>8 DEF ConverterInv
<1>3. CASE ProcessExits(id)
  <2>1. PICK good \in BOOLEAN :
          /\ runs' = [runs EXCEPT ![id].at = "exited", ![id].good = good]
          /\ output' = IF output[PathOf(id)].by = id
                       THEN [output EXCEPT ![PathOf(id)].whole = good /\ ~output[PathOf(id)].mixed]
                       ELSE output
    BY <1>3 DEF ProcessExits
  <2>2. /\ runs' \in [Ids -> Run] /\ runs'[id].at = "exited" /\ runs'[id].setting = runs[id].setting
        /\ runs'[id].good = good /\ \A x \in Ids : x # id => runs'[x] = runs[x]
    BY <1>1, <2>1 DEF Run
  <2>3. jobs' = jobs /\ runs[id].at = "alive"
    BY <1>3 DEF ProcessExits
  <2>4. /\ output' \in [Paths -> Output]
        /\ \A x \in Ids, setting \in Settings : Opened(x, setting) => Opened(x, setting)'
        /\ \A x \in Ids \ {id}, setting \in Settings : Made(x, setting) => Made(x, setting)'
        /\ \A setting \in Settings : good /\ setting = runs[id].setting => Made(id, setting)'
    BY <2>1, <2>3, ExitKeeps
  <2>5. SlotsUsed'
    BY <1>1, <2>2, <2>3, SlotsStay
  <2>6. Fit(jobs, runs, before)'
    BY <1>1, <2>2, <2>3 DEF ConverterInv, Fit
  <2>7. Shows(jobs, runs)'
    <3>1. ASSUME NEW x \in Ids, NEW setting
          PROVE  /\ jobs'[x].st = "completed" /\ setting = jobs'[x].setting => Made(x, setting)'
                 /\ runs'[x].at \in {"alive", "exited"} /\ setting = runs'[x].setting
                      => Opened(x, setting)'
                 /\ runs'[x].at = "exited" /\ runs'[x].good /\ setting = runs'[x].setting
                      => Made(x, setting)'
      <4>1. jobs'[x] = jobs[x] /\ runs'[x].setting = runs[x].setting
        BY <2>2, <2>3
      <4>2. /\ runs[x].at # "none" => runs[x].setting \in Settings
            /\ jobs[x].st # "none" => jobs[x].setting \in Settings
            /\ jobs[x].st = "completed" => Made(x, jobs[x].setting)
            /\ runs[x].at \in {"alive", "exited"} => Opened(x, runs[x].setting)
            /\ runs[x].at = "exited" /\ runs[x].good => Made(x, runs[x].setting)
        BY DEF ConverterInv, Fit, Shows
      <4>3. CASE x = id
        BY <1>1, <2>2, <2>3, <2>4, <4>1, <4>2, <4>3
      <4>4. CASE x # id
        BY <2>2, <2>4, <4>1, <4>2, <4>4
      <4> QED
        BY <4>3, <4>4
    <3> QED
      BY <3>1, ShowsEach
  <2>8. Typed'
    BY <1>1, <2>4 DEF Typed
  <2> QED
    BY <2>5, <2>6, <2>7, <2>8 DEF ConverterInv
<1>4. CASE Progresses(id)
  <2>1. /\ jobs' = [jobs EXCEPT ![id] = [st |-> "converting", setting |-> runs[id].setting]]
        /\ UNCHANGED <<runs, output>>
    BY <1>4 DEF Progresses
  <2>2. /\ jobs' \in [Ids -> Job] /\ jobs'[id].st = "converting"
        /\ \A x \in Ids : x # id => jobs'[x] = jobs[x]
    BY <1>1, <2>1 DEF Job, JobStates, Run
  <2>3. Present(jobs)' = Present(jobs)
    BY <1>1, <2>2 DEF Present
  <2>4. SlotsUsed'
    BY <1>1, <2>1, <2>2, SlotsStay
  <2>5. Shows(jobs, runs)'
    BY <1>1, <2>1, <2>2, ShowsStay DEF ConverterInv
  <2> QED
    BY <1>1, <2>1, <2>2, <2>3, <2>4, <2>5 DEF ConverterInv, Typed, Fit
<1> QED
  BY <1>2, <1>3, <1>4

LEMMA FewerTaken ==
  ASSUME ConverterInv, NEW id \in Ids, NEW rs, rs[id].at = "none",
         \A x \in Ids : x # id => rs[x] = runs[x]
  PROVE  Cardinality(Taken(rs)) <= maxConcurrent
<1>1. Taken(rs) \subseteq Taken(runs) /\ Taken(runs) \in SUBSET Ids
  BY DEF Taken
<1>2. Cardinality(Taken(rs)) <= Cardinality(Taken(runs))
  BY <1>1, Finite, FS_Subset
<1>3. Cardinality(Taken(rs)) \in Nat /\ Cardinality(Taken(runs)) \in Nat /\ maxConcurrent \in Nat
  BY <1>1, Finite DEF ConverterInv, Typed
<1> QED
  BY <1>2, <1>3, SlotsKept

\* The end of a run frees its slot; `completed` is only for what is whole.
LEMMA EndsKeeps ==
  ASSUME ConverterInv, NEW id \in Ids, NEW st \in {"completed", "failed", "canceled"},
         NEW marks \in SUBSET Ids, runs[id].at # "none", EndsAs(id, st, marks),
         st = "completed" => runs[id].at = "exited" /\ runs[id].good
  PROVE  ConverterInv'
<1> DEFINE js == [jobs EXCEPT ![id] = [st |-> st, setting |-> runs[id].setting]]
           rs == [runs EXCEPT ![id] = NoRun]
<1>1. /\ Pump(js, rs, before, marks) /\ UNCHANGED <<maxConcurrent, disposed, output>>
      /\ Typed /\ jobs \in [Ids -> Job] /\ runs \in [Ids -> Run] /\ runs[id] \in Run
      /\ jobs[id].st \in {"converting", "queued"} /\ runs[id].setting \in Settings
  BY DEF EndsAs, ConverterInv, Fit
<1>2. /\ js \in [Ids -> Job] /\ js[id].st = st /\ js[id].setting = runs[id].setting
      /\ \A x \in Ids : x # id => js[x] = jobs[x]
  BY <1>1 DEF Job, JobStates, Run
<1>3. /\ rs \in [Ids -> Run] /\ rs[id].at = "none" /\ \A x \in Ids : x # id => rs[x] = runs[x]
  BY <1>1 DEF Run, NoRun
<1> HIDE DEF js, rs
<1>4. Present(js) = Present(jobs)
  BY <1>1, <1>2 DEF Present
<1>5. Fit(js, rs, before)
  BY <1>1, <1>2, <1>3, <1>4 DEF Fit, ConverterInv
<1>6. Shows(js, rs)
  <2>1. st = "completed" => Made(id, js[id].setting)
    BY <1>1, <1>2 DEF ConverterInv, Shows
  <2> QED
    BY <1>2, <1>3, <2>1 DEF Shows, ConverterInv
<1>7. Cardinality(Taken(rs)) <= maxConcurrent
  BY <1>3, FewerTaken
<1> QED
  BY <1>1, <1>5, <1>6, <1>7, PumpKeeps

\* A run that throws frees its slot and leaves the jobs as they are.
LEMMA StreamsFailKeeps ==
  ASSUME ConverterInv, NEW id \in Ids, StreamsFail(id)
  PROVE  ConverterInv'
<1> DEFINE rs == [runs EXCEPT ![id] = NoRun]
<1>1. /\ Pump(jobs, rs, before, canceled) /\ UNCHANGED <<maxConcurrent, disposed, output>>
      /\ Typed /\ runs \in [Ids -> Run] /\ canceled \in SUBSET Ids
  BY DEF StreamsFail, ConverterInv, Fit, Typed
<1>2. /\ rs \in [Ids -> Run] /\ rs[id].at = "none" /\ \A x \in Ids : x # id => rs[x] = runs[x]
  BY <1>1 DEF Run, NoRun
<1> HIDE DEF rs
<1>3. Fit(jobs, rs, before) /\ Shows(jobs, rs)
  BY <1>2 DEF ConverterInv, Fit, Shows
<1>4. Cardinality(Taken(rs)) <= maxConcurrent
  BY <1>2, FewerTaken
<1> QED
  BY <1>1, <1>3, <1>4, PumpKeeps

LEMMA ConverterInitially == InitConverter => ConverterInv
<1> SUFFICES ASSUME InitConverter PROVE ConverterInv
  OBVIOUS
<1>1. /\ jobs = [id \in Ids |-> NoJob] /\ before = {} /\ runs = [id \in Ids |-> NoRun]
      /\ canceled = {} /\ disposed = FALSE /\ output = [path \in Paths |-> NoOutput]
      /\ \E limit \in Limits : maxConcurrent = IF limit < 1 THEN 1 ELSE limit
  BY DEF InitConverter
<1>2. maxConcurrent \in Nat \ {0}
  BY <1>1, ConverterAssumption
<1>3. /\ jobs \in [Ids -> Job] /\ runs \in [Ids -> Run] /\ output \in [Paths -> Output]
      /\ \A id \in Ids : jobs[id].st = "none" /\ runs[id].at = "none"
  BY <1>1 DEF NoJob, Job, JobStates, NoRun, Run, NoOutput, Output
<1>4. Present(jobs) = {} /\ Running = {} /\ Waiting(jobs, runs) = {}
  BY <1>3 DEF Present, Running, Waiting
<1>5. SlotsUsed
  BY <1>2, <1>4, FS_EmptySet DEF SlotsUsed
<1>6. Fit(jobs, runs, before)
  BY <1>1, <1>3, <1>4 DEF Fit, Ordered
<1> QED
  BY <1>1, <1>2, <1>3, <1>5, <1>6 DEF ConverterInv, Typed, Shows

------------------------------------------------------------------------------
(* The theorems *)

LEMMA RunEndsKeep ==
  ASSUME ConverterInv, NEW id \in Ids, StartFails(id) \/ Settles(id)
  PROVE  ConverterInv'
<1>1. canceled \in SUBSET Ids
  BY DEF ConverterInv, Typed
<1>2. CASE StartFails(id)
  BY <1>1, <1>2, EndsKeeps DEF StartFails
<1>3. CASE Settles(id)
  <2> DEFINE st == IF id \in canceled THEN "canceled" ELSE IF runs[id].good THEN "completed" ELSE "failed"
  <2>1. runs[id].at = "exited" /\ EndsAs(id, st, canceled \ {id})
    BY <1>3 DEF Settles
  <2>2. st \in {"completed", "failed", "canceled"} /\ (st = "completed" => runs[id].good)
    OBVIOUS
  <2> HIDE DEF st
  <2> QED
    BY <1>1, <2>1, <2>2, EndsKeeps
<1> QED
  BY <1>2, <1>3

\* The inductive invariant holds in every state reached.
THEOREM ConverterInvariant == SpecConverter => []ConverterInv
<1>1. ConverterInv /\ [NextConverter]_converterVars => ConverterInv'
  <2> SUFFICES ASSUME ConverterInv, [NextConverter]_converterVars
               PROVE  ConverterInv'
    OBVIOUS
  <2>1. ASSUME NEW id \in Ids, NEW setting \in Settings, Enqueue(id, setting)
        PROVE  ConverterInv'
    BY <2>1, EnqueueKeeps
  <2>2. ASSUME NEW id \in Ids, CancelRunning(id) \/ CancelQueued(id) \/ Retry(id)
        PROVE  ConverterInv'
    BY <2>2, CancelsKeep, RetryKeeps
  <2>3. ASSUME NEW id \in Ids, \/ ProcessStarts(id) \/ StartFails(id) \/ Progresses(id)
                               \/ ProcessExits(id) \/ Settles(id) \/ StreamsFail(id)
        PROVE  ConverterInv'
    BY <2>3, RunsKeep, RunEndsKeep, StreamsFailKeeps
  <2>4. ASSUME ClearFinished \/ Dispose
        PROVE  ConverterInv'
    BY <2>4, ClearFinishedKeeps, DisposeKeeps
  <2>5. CASE UNCHANGED converterVars
    <3>1. Running' = Running /\ Waiting(jobs, runs)' = Waiting(jobs, runs)
      BY <2>5 DEF converterVars, Running, Waiting
    <3>2. Shows(jobs, runs)'
      BY <2>5, ShowsStay DEF ConverterInv, converterVars
    <3> QED
      BY <2>5, <3>1, <3>2 DEF converterVars, ConverterInv, Typed, Fit, Present, SlotsUsed
  <2> QED
    BY <2>1, <2>2, <2>3, <2>4, <2>5 DEF NextConverter
<1> QED
  BY <1>1, ConverterInitially, PTL DEF SpecConverter

\* A job that has a run is converting, or was requested anew meanwhile, and the
\* jobs there are stand in one order, whatever is replaced, retried, cleared or
\* fails.
THEOREM ConverterTypeCorrect == SpecConverter => []ConverterTypeOK
BY ConverterInvariant, TypeFollows, PTL

\* The conversions never exceed the slots, and no job waits beside a free one
\* (conversion_manager.dart:105-118).
THEOREM SlotsAreUsed == SpecConverter => []SlotsUsed
<1>1. ConverterInv => SlotsUsed
  BY DEF ConverterInv
<1> QED
  BY <1>1, ConverterInvariant, PTL

\* What is shown completed is whole and made as its job shows, unless another job
\* names the same file and its process was there too
\* (conversion_manager.dart:132-165).
THEOREM CompletedAreWhole == SpecConverter => []CompletedIsWhole
<1>1. ConverterInv => CompletedIsWhole
  BY DEF ConverterInv, Shows, Made, Disputed, CompletedIsWhole
<1> QED
  BY <1>1, ConverterInvariant, PTL

\* A pump starts nothing that has a run.
LEMMA PumpPasses ==
  ASSUME NEW js, NEW rs, NEW order, NEW marks, Pump(js, rs, order, marks), NEW id \in Ids,
         rs[id].at # "none" \/ js[id].st # "queued"
  PROVE  runs'[id] = rs[id]
BY DEF Pump, FirstOf, Waiting

\* No second process of a job is started beside one at work, and the run at work
\* keeps the settings it was started with (conversion_manager.dart:49-57, 123).
THEOREM OneProcessEach == SpecConverter => OneProcess
<1> DEFINE One == \A id \in Ids : runs[id].at = "alive" =>
                    runs'[id].at \in {"alive", "exited"} /\ runs'[id].setting = runs[id].setting
<1>1. ConverterInv /\ [NextConverter]_converterVars => [One]_converterVars
  <2> SUFFICES ASSUME ConverterInv, NextConverter, NEW id \in Ids, runs[id].at = "alive"
               PROVE  runs'[id].at \in {"alive", "exited"} /\ runs'[id].setting = runs[id].setting
    BY DEF converterVars
  <2>1. /\ jobs \in [Ids -> Job] /\ runs \in [Ids -> Run] /\ runs[id] \in Run
    BY DEF ConverterInv, Fit
  <2>2. ASSUME NEW x \in Ids, NEW setting \in Settings, Enqueue(x, setting)
        PROVE  runs'[id] = runs[id]
    BY <2>2, PumpPasses DEF Enqueue
  <2>3. ASSUME NEW x \in Ids, Retry(x)
        PROVE  runs'[id] = runs[id]
    BY <2>3, PumpPasses DEF Retry
  <2>4. ASSUME NEW x \in Ids, NEW js, NEW marks, x # id, Pump(js, [runs EXCEPT ![x] = NoRun], before, marks)
        PROVE  runs'[id] = runs[id]
    <3> DEFINE rs == [runs EXCEPT ![x] = NoRun]
    <3>1. Pump(js, rs, before, marks)
      BY <2>4
    <3>2. rs[id] = runs[id]
      BY <2>1, <2>4
    <3> HIDE DEF rs
    <3> QED
      BY <3>1, <3>2, PumpPasses
  <2>5. ASSUME NEW x \in Ids, StartFails(x) \/ Settles(x) \/ StreamsFail(x)
        PROVE  runs'[id] = runs[id]
    <3>1. x # id
      BY <2>5 DEF StartFails, Settles, StreamsFail
    <3>2. \E js : \E marks : Pump(js, [runs EXCEPT ![x] = NoRun], before, marks)
      BY <2>5 DEF StartFails, Settles, StreamsFail, EndsAs
    <3> QED
      BY <2>4, <3>1, <3>2
  <2>6. ASSUME NEW x \in Ids, \/ CancelRunning(x) \/ CancelQueued(x) \/ ProcessStarts(x)
                              \/ Progresses(x) \/ ProcessExits(x)
        PROVE  /\ runs'[id].setting = runs[id].setting
               /\ runs'[id].at \in {"alive", "exited"}
    BY <2>1, <2>6 DEF CancelRunning, CancelQueued, ProcessStarts, Progresses, ProcessExits, Run
  <2>7. ASSUME ClearFinished \/ Dispose
        PROVE  runs'[id].setting = runs[id].setting /\ runs'[id].at = runs[id].at
    BY <2>1, <2>7 DEF ClearFinished, Dispose, Run
  <2> QED
    BY <2>2, <2>3, <2>5, <2>6, <2>7 DEF NextConverter
<1> QED
  BY <1>1, ConverterInvariant, PTL DEF SpecConverter, OneProcess
=============================================================================
