------------------------ MODULE DownloadQueue_proofs ------------------------
(***************************************************************************)
(* Proofs about DownloadQueue, for any set of downloads, any number of     *)
(* slots and any budget of retries.                                        *)
(***************************************************************************)
EXTENDS DownloadQueue, FiniteSetTheorems, SequenceTheorems, TLAPS

------------------------------------------------------------------------------
(* Tasks, rows and calls *)

\* A move within the budget yields a task.
LEMMA MovedType ==
  ASSUME NEW task \in Row, NEW next \in States,
         task.st = "failed" => task.retries < MaxRetries
  PROVE  Moved(task, next) \in Task
BY MaxRetriesAssumption DEF Moved, Row, Task, Absent

\* A legal move of a row yields a task.
LEMMA CanMoveMoved ==
  ASSUME NEW task \in Row, NEW next \in States, CanMove(task, next)
  PROVE  Moved(task, next) \in Task
BY MovedType DEF CanMove

\* The kind of a call tells which fields it has.
LEMMA CallKinds ==
  ASSUME NEW call \in Call
  PROVE  /\ call.kind = "pump" => call \in PumpCall
         /\ call.kind \in {"enqueued", "resume", "retry", "retried", "pause",
                           "cancel", "reread", "requeued"} => call \in TaskCall
         /\ call.kind = "restore" => call \in RestoreCall
         /\ call.kind \in {"pauseAll", "resumeAll"} => call \in BulkCall
BY DEF Call, PumpCall, TaskCall, RestoreCall, BulkCall

\* TaskCallOf builds calls.
LEMMA TaskCallType ==
  ASSUME NEW kind \in {"enqueued", "resume", "retry", "retried", "pause",
                       "cancel", "reread", "requeued"},
         NEW t \in Tasks, NEW row \in Row, NEW rest \in SUBSET Tasks
  PROVE  TaskCallOf(kind, t, row, rest) \in Call
BY DEF TaskCallOf, Call, TaskCall

\* The oldest call and the calls behind it.
LEMMA HeadTail ==
  ASSUME calls \in Seq(Call), calls # <<>>
  PROVE  Head(calls) \in Call /\ Tail(calls) \in Seq(Call)
OBVIOUS

\* A bulk operation that goes on leaves calls.
LEMMA GoOnType ==
  ASSUME calls \in Seq(Call), calls # <<>>,
         NEW kind \in {"pauseAll", "resumeAll"}, NEW rest \in SUBSET Tasks
  PROVE  GoOn(kind, rest) \in Seq(Call)
<1>1. [kind |-> kind, todo |-> rest] \in Call
  BY DEF Call, BulkCall
<1>. QED
  BY <1>1, HeadTail DEF GoOn

\* A listing holds rows.
LEMMA ListedType ==
  ASSUME rows' \in [Tasks -> Row], NEW states
  PROVE  Listed(states) \in [Tasks -> Row]
BY DEF Listed, Row

\* _pump keeps the types.
LEMMA PumpType ==
  ASSUME NEW STATE cs, cs \in Seq(Call), Pump(cs), pumping \in BOOLEAN,
         rows' \in [Tasks -> Row], before' \in SUBSET (Tasks \X Tasks)
  PROVE  /\ calls' \in Seq(Call)
         /\ pumping' \in BOOLEAN
         /\ woken' \in BOOLEAN
<1>1. Listing \in Call
  BY ListedType DEF Listing, Call, PumpCall
<1>2. Append(cs, Listing) \in Seq(Call)
  BY <1>1
<1>3. calls' \in Seq(Call)
  BY <1>2 DEF Pump
<1>4. pumping' \in BOOLEAN /\ woken' \in BOOLEAN
  BY Zenon DEF Pump
<1>. QED
  BY <1>3, <1>4

------------------------------------------------------------------------------
(* Types.  A save of the engine needs to know that the copy it moves is not  *)
(* failed, which only its phase tells.                                       *)

EngineWorks ==
  \A t \in Tasks : Active(t) =>
    eng[t].task.st \in {"connecting", "downloading", "verifying"}

TypeInv == TypeOK /\ EngineWorks

\* The end of a run keeps the types.
LEMMA FinishType ==
  ASSUME TypeOK, NEW t \in Tasks, NEW STATE cs, cs \in Seq(Call), Finish(t, cs),
         rows' \in [Tasks -> Row]
  PROVE  /\ before' \in SUBSET (Tasks \X Tasks)
         /\ running' \in SUBSET Tasks
         /\ stopRequested' \in SUBSET Tasks
         /\ resumeRequested' \in SUBSET Tasks
         /\ pumping' \in BOOLEAN
         /\ disposed' \in BOOLEAN
         /\ calls' \in Seq(Call)
         /\ woken' \in BOOLEAN
<1>1. before' = before /\ stopRequested' = stopRequested /\ disposed' = disposed
  BY DEF Finish
<1>2. running' \in SUBSET Tasks /\ resumeRequested' \in SUBSET Tasks
  BY DEF Finish, TypeOK
<1>3. Pump(cs) /\ pumping \in BOOLEAN /\ before' \in SUBSET (Tasks \X Tasks)
  BY <1>1 DEF Finish, TypeOK
<1>4. calls' \in Seq(Call) /\ pumping' \in BOOLEAN /\ woken' \in BOOLEAN
  BY <1>3, PumpType
<1>. QED
  BY <1>1, <1>2, <1>3, <1>4 DEF TypeOK

\* An attempt that is over is an attempt.
LEMMA NoAttemptType ==
  ASSUME TypeInv, NEW t \in Tasks, eng' = [eng EXCEPT ![t] = NoAttempt]
  PROVE  eng' \in [Tasks -> Attempt] /\ EngineWorks'
<1>1. NoAttempt \in Attempt
  BY DEF NoAttempt, Attempt, Row, Phases, Intents
<1>2. eng' \in [Tasks -> Attempt]
  BY <1>1 DEF TypeInv, TypeOK
<1>3. ASSUME NEW u \in Tasks, Active(u)'
      PROVE  eng'[u] = eng[u] /\ Active(u)
  BY <1>3 DEF TypeInv, TypeOK, Active, ActivePhases, NoAttempt
<1>. QED
  BY <1>2, <1>3 DEF TypeInv, EngineWorks

\* A legal move of the engine keeps the types and leaves it at work.
LEMMA EmitType ==
  ASSUME TypeInv, NEW t \in Tasks, Active(t),
         NEW next \in States, NEW phase \in Phases,
         phase \in ActivePhases =>
           next \in {"connecting", "downloading", "verifying"},
         Emit(t, next, phase)
  PROVE  /\ rows' \in [Tasks -> Row]
         /\ eng' \in [Tasks -> Attempt]
         /\ EngineWorks'
<1> DEFINE task == Moved(eng[t].task, next)
           intent == IF phase = "receiving" THEN eng[t].intent ELSE "none"
<1>1. eng[t] \in Attempt /\ eng[t].task \in Row /\ eng[t].task.st # "failed"
  BY DEF TypeInv, TypeOK, Attempt, EngineWorks
<1>2. task \in Task /\ task.st = next
  BY <1>1, MovedType DEF Moved
<1>3. rows' \in [Tasks -> Row]
  BY <1>2 DEF Emit, TypeInv, TypeOK, Row
<1>4. eng' = [eng EXCEPT ![t] = [phase |-> phase, task |-> task,
                                 intent |-> intent]]
  BY DEF Emit
<1>5. [phase |-> phase, task |-> task, intent |-> intent] \in Attempt
  BY <1>1, <1>2 DEF Attempt, Intents, Row
<1>6. eng' \in [Tasks -> Attempt]
  BY <1>4, <1>5 DEF TypeInv, TypeOK
<1>7. ASSUME NEW u \in Tasks, Active(u)'
      PROVE  eng'[u].task.st \in {"connecting", "downloading", "verifying"}
  <2>1. CASE u = t
    BY <2>1, <1>2, <1>4, <1>7 DEF TypeInv, TypeOK, Active
  <2>2. CASE u # t
    BY <2>2, <1>4, <1>7 DEF TypeInv, TypeOK, EngineWorks, Active
  <2>. QED
    BY <2>1, <2>2
<1>. QED
  BY <1>3, <1>6, <1>7 DEF EngineWorks

\* So does a move that ends the attempt,
LEMMA EndsAsType ==
  ASSUME TypeInv, NEW t \in Tasks, Active(t), NEW next \in States,
         EndsAs(t, next)
  PROVE  TypeInv'
<1>1. eng[t].task \in Row /\ eng[t].task.st # "failed"
  BY DEF TypeInv, TypeOK, Attempt, EngineWorks
<1>2. Moved(eng[t].task, next) \in Row
  BY <1>1, MovedType DEF Row
<1>3. rows' \in [Tasks -> Row]
  BY <1>2 DEF EndsAs, TypeInv, TypeOK
<1>4. eng' \in [Tasks -> Attempt] /\ EngineWorks'
  BY NoAttemptType DEF EndsAs
<1>5. parked' \in SUBSET Tasks
  BY DEF EndsAs, TypeInv, TypeOK
<1>6. calls \in Seq(Call) /\ Finish(t, calls) /\ TypeOK
  BY DEF EndsAs, TypeInv, TypeOK
<1>. QED
  BY <1>3, <1>4, <1>5, <1>6, FinishType DEF TypeInv, TypeOK

\* and a failure, from each state that has an edge to `failed`.
LEMMA FailType ==
  ASSUME TypeInv, NEW t \in Tasks, Active(t), Fail(t)
  PROVE  TypeInv'
<1>1. CASE eng[t].task.retries < MaxRetries
  <2>1. Emit(t, "failed", "backoff") /\ EngineOnly
    BY <1>1 DEF Fail
  <2>2. rows' \in [Tasks -> Row] /\ eng' \in [Tasks -> Attempt] /\ EngineWorks'
    BY <2>1, EmitType DEF States, Phases, ActivePhases
  <2>. QED
    BY <2>1, <2>2 DEF EngineOnly, flags, history, TypeInv, TypeOK
<1>2. CASE ~(eng[t].task.retries < MaxRetries)
  BY <1>2, EndsAsType DEF Fail, States
<1>. QED
  BY <1>1, <1>2

\* A step that leaves the tasks' attempts and rows alone.
LEMMA EngUnchangedType ==
  ASSUME TypeInv, UNCHANGED eng
  PROVE  eng' \in [Tasks -> Attempt] /\ EngineWorks'
BY DEF TypeInv, TypeOK, EngineWorks, Active

\* The pump gets its listing.
LEMMA PumpStepType ==
  ASSUME TypeInv, PumpStep
  PROVE  TypeInv'
<1>1. CASE PumpEnds
  BY <1>1, HeadTail, EngUnchangedType
  DEF PumpEnds, Answered, store, flags, history, TypeInv, TypeOK
<1>2. ASSUME NEW t \in Tasks, PumpStarts(t)
      PROVE  TypeInv'
  <2> DEFINE listed == Head(calls).rows
             task   == Started(listed[t])
             next   == IF listed[t].st = "paused" THEN "downloading"
                       ELSE "connecting"
  <2>1. Head(calls) \in PumpCall /\ Tail(calls) \in Seq(Call)
    BY <1>2, HeadTail, CallKinds DEF PumpStarts, Answered, TypeInv, TypeOK
  <2>2. listed \in [Tasks -> Row] /\ listed[t].st \in {"queued", "paused"}
    BY <1>2, <2>1 DEF PumpStarts, NextRunnable, Runnable, PumpCall
  <2>3. task \in Task /\ task.st \in {"connecting", "downloading"}
    BY <2>2, MovedType DEF Started, Moved, States
  <2>4. rows' \in [Tasks -> Row]
    BY <1>2, <2>3 DEF PumpStarts, TypeInv, TypeOK, Row
  <2>5. eng' = [eng EXCEPT ![t] = [phase |-> "opening", task |-> task,
                                   intent |-> "none"]]
    BY <1>2 DEF PumpStarts
  <2>6. eng' \in [Tasks -> Attempt]
    BY <2>3, <2>5 DEF TypeInv, TypeOK, Attempt, Phases, Intents, Row
  <2>7. EngineWorks'
    <3>1. ASSUME NEW u \in Tasks, Active(u)'
          PROVE  eng'[u].task.st \in {"connecting", "downloading", "verifying"}
      <4>1. CASE u = t
        BY <4>1, <2>3, <2>5 DEF TypeInv, TypeOK
      <4>2. CASE u # t
        BY <4>2, <2>5, <3>1 DEF TypeInv, TypeOK, EngineWorks, Active
      <4>. QED
        BY <4>1, <4>2
    <3>. QED
      BY <3>1 DEF EngineWorks
  <2>8. before' \in SUBSET (Tasks \X Tasks)
    BY <1>2 DEF PumpStarts, TypeInv, TypeOK
  <2>9. Listing \in Call
    BY <2>4, <2>8, ListedType DEF Listing, Call, PumpCall
  <2>10. calls' \in Seq(Call) /\ pumping' \in BOOLEAN
    <3>1. CASE Cardinality(running') < MaxConcurrent
      <4>1. calls' = Append(Tail(calls), Listing) /\ pumping' = pumping
        BY <1>2, <3>1 DEF PumpStarts
      <4>2. calls' \in Seq(Call)
        BY <2>1, <2>9, <4>1
      <4>. QED
        BY <4>1, <4>2 DEF TypeInv, TypeOK
    <3>2. CASE ~(Cardinality(running') < MaxConcurrent)
      BY <1>2, <2>1, <3>2 DEF PumpStarts
    <3>. QED
      BY <3>1, <3>2
  <2>11. /\ running' \in SUBSET Tasks
         /\ UNCHANGED <<stopRequested, resumeRequested, disposed, woken, parked>>
    BY <1>2 DEF PumpStarts, flags, history, TypeInv, TypeOK
  <2>. QED
    BY <2>4, <2>6, <2>7, <2>8, <2>10, <2>11 DEF TypeInv, TypeOK
<1>. QED
  BY <1>1, <1>2 DEF PumpStep

\* One step of the attempt of t that is none of the table's.
LEMMA EngineStepType ==
  ASSUME TypeInv, NEW t \in Tasks, EngineStep(t)
  PROVE  TypeInv'
<1>1. CASE Opens(t)
  <2>1. Active(t)
    BY <1>1 DEF Opens, Active, ActivePhases
  <2>2. CASE eng[t].task.st = "connecting"
    BY <1>1, <2>1, <2>2, EmitType
    DEF Opens, EngineOnly, flags, history, States, Phases, TypeInv, TypeOK
  <2>3. CASE eng[t].task.st # "connecting"
    <3>1. /\ rows' = [rows EXCEPT ![t] = eng[t].task]
          /\ eng' = [eng EXCEPT ![t].phase = "receiving"]
          /\ EngineOnly
      BY <1>1, <2>3 DEF Opens
    <3>2. rows' \in [Tasks -> Row] /\ eng' \in [Tasks -> Attempt]
      BY <3>1 DEF TypeInv, TypeOK, Attempt, Phases
    <3>3. EngineWorks'
      BY <2>1, <3>1 DEF TypeInv, TypeOK, Attempt, EngineWorks, Active
    <3>. QED
      BY <3>1, <3>2, <3>3 DEF EngineOnly, flags, history, TypeInv, TypeOK
  <2>. QED
    BY <2>2, <2>3
<1>2. CASE OpenFails(t) \/ Breaks(t) \/ OvershotFails(t) \/ IntegrityFails(t)
  BY <1>2, FailType
  DEF OpenFails, Breaks, OvershotFails, IntegrityFails, Active, ActivePhases
<1>3. CASE Completes(t)
  <2> DEFINE task == Moved(Moved(eng[t].task, "completed"), "verifying")
  <2>1. Active(t) /\ eng[t].task \in Row /\ eng[t].task.st # "failed"
    BY <1>3 DEF Completes, Active, ActivePhases, TypeInv, TypeOK, EngineWorks,
                Attempt
  <2>2. Moved(eng[t].task, "completed") \in Task
    BY <2>1, MovedType DEF States
  <2>3. task \in Task /\ task.st = "verifying"
    BY <2>2, MovedType DEF States, Row, Moved
  <2>4. /\ rows' = [rows EXCEPT ![t] = task]
        /\ eng' = [eng EXCEPT ![t].task = task, ![t].phase = "verifying"]
        /\ EngineOnly
    BY <1>3 DEF Completes
  <2>5. rows' \in [Tasks -> Row] /\ eng' \in [Tasks -> Attempt]
    BY <2>3, <2>4 DEF TypeInv, TypeOK, Attempt, Phases, Row
  <2>6. EngineWorks'
    BY <2>3, <2>4 DEF TypeInv, TypeOK, Attempt, EngineWorks, Active
  <2>. QED
    BY <2>4, <2>5, <2>6 DEF EngineOnly, flags, history, TypeInv, TypeOK
<1>4. CASE Overshoots(t)
  <2>1. /\ eng' = [eng EXCEPT ![t].phase = "overshot"]
        /\ UNCHANGED rows /\ EngineOnly /\ Active(t)
    BY <1>4 DEF Overshoots, Active, ActivePhases
  <2>2. eng' \in [Tasks -> Attempt] /\ EngineWorks'
    BY <2>1 DEF TypeInv, TypeOK, Attempt, Phases, EngineWorks, Active
  <2>. QED
    BY <2>1, <2>2 DEF EngineOnly, flags, history, TypeInv, TypeOK
<1>5. CASE DropsPart(t)
  <2>1. /\ eng' = [eng EXCEPT ![t].phase = "discarding", ![t].intent = "none"]
        /\ UNCHANGED rows /\ EngineOnly /\ Active(t)
    BY <1>5 DEF DropsPart, Active, ActivePhases
  <2>2. eng' \in [Tasks -> Attempt] /\ EngineWorks'
    BY <2>1 DEF TypeInv, TypeOK, Attempt, Phases, Intents, EngineWorks, Active
  <2>. QED
    BY <2>1, <2>2 DEF EngineOnly, flags, history, TypeInv, TypeOK
<1>6. CASE Pauses(t) \/ Cancels(t) \/ Verifies(t)
  BY <1>6, EndsAsType
  DEF Pauses, Cancels, Verifies, Active, ActivePhases, States
<1>. QED
  BY <1>1, <1>2, <1>3, <1>4, <1>5, <1>6 DEF EngineStep

\* A step of the engine or of the backoff.
LEMMA RunStepType ==
  ASSUME TypeInv, NEW t \in Tasks, RunStep(t)
  PROVE  TypeInv'
<1>1. CASE Progresses(t)
  <2>1. rows' \in [Tasks -> Row]
    BY <1>1 DEF Progresses, TypeInv, TypeOK, Attempt
  <2>. QED
    BY <1>1, <2>1, EngUnchangedType
    DEF Progresses, EngineOnly, flags, history, TypeInv, TypeOK
<1>2. CASE Throws(t)
  <2>1. calls \in Seq(Call) /\ rows' \in [Tasks -> Row] /\ parked' = parked
    BY <1>2 DEF Throws, TypeInv, TypeOK
  <2>2. eng' \in [Tasks -> Attempt] /\ EngineWorks'
    BY <1>2, NoAttemptType DEF Throws
  <2>. QED
    BY <1>2, <2>1, <2>2, FinishType DEF Throws, TypeInv, TypeOK
<1>3. CASE BackoffElapses(t)
  <2>1. CASE disposed \/ t \in stopRequested
    <3>1. /\ calls \in Seq(Call) /\ rows' \in [Tasks -> Row] /\ parked' = parked
          /\ Finish(t, calls)
      BY <1>3, <2>1 DEF BackoffElapses, TypeInv, TypeOK
    <3>2. eng' \in [Tasks -> Attempt] /\ EngineWorks'
      BY <1>3, <2>1, NoAttemptType DEF BackoffElapses
    <3>. QED
      BY <3>1, <3>2, FinishType DEF TypeInv, TypeOK
  <2>2. CASE ~(disposed \/ t \in stopRequested)
    <3>1. TaskCallOf("reread", t, rows[t], {}) \in Call
      BY TaskCallType DEF TypeInv, TypeOK
    <3>2. calls' \in Seq(Call)
      BY <1>3, <2>2, <3>1 DEF BackoffElapses, TypeInv, TypeOK
    <3>3. eng' = [eng EXCEPT ![t].phase = "requeueing"]
      BY <1>3, <2>2 DEF BackoffElapses
    <3>4. eng' \in [Tasks -> Attempt] /\ EngineWorks'
      BY <3>3 DEF TypeInv, TypeOK, Attempt, Phases, EngineWorks, Active,
                  ActivePhases
    <3>. QED
      BY <1>3, <2>2, <3>2, <3>4
      DEF BackoffElapses, flags, TypeInv, TypeOK
  <2>. QED
    BY <2>1, <2>2
<1>. QED
  BY <1>1, <1>2, <1>3, EngineStepType DEF RunStep

\* The call a TaskCall continuation is about.
LEMMA AnsweredTask ==
  ASSUME TypeOK,
         NEW kind \in {"enqueued", "resume", "retry", "retried", "pause",
                       "cancel", "reread", "requeued"},
         Answered(kind)
  PROVE  /\ Head(calls).id \in Tasks
         /\ Head(calls).row \in Row
         /\ Head(calls).rest \in SUBSET Tasks
         /\ Tail(calls) \in Seq(Call)
<1>1. Head(calls) \in TaskCall /\ Tail(calls) \in Seq(Call)
  BY HeadTail, CallKinds DEF Answered, TypeOK
<1>. QED
  BY <1>1 DEF TaskCall

\* A continuation that pumps with a flag changed and the rows left alone.
LEMMA PumpAnswerType ==
  ASSUME TypeInv, UNCHANGED <<store, running, disposed, eng>>,
         stopRequested' \in SUBSET Tasks, resumeRequested' \in SUBSET Tasks,
         parked' \in SUBSET Tasks,
         NEW STATE cs, cs \in Seq(Call), Pump(cs)
  PROVE  TypeInv'
<1>1. /\ rows' \in [Tasks -> Row] /\ before' \in SUBSET (Tasks \X Tasks)
      /\ pumping \in BOOLEAN
  BY DEF store, TypeInv, TypeOK
<1>2. calls' \in Seq(Call) /\ pumping' \in BOOLEAN /\ woken' \in BOOLEAN
  BY <1>1, PumpType
<1>3. running' \in SUBSET Tasks /\ disposed' \in BOOLEAN
  BY DEF TypeInv, TypeOK
<1>4. eng' \in [Tasks -> Attempt] /\ EngineWorks'
  BY EngUnchangedType
<1>. QED
  BY <1>1, <1>2, <1>3, <1>4 DEF TypeInv, TypeOK

\* The row is read again after the backoff.
LEMMA RereadType ==
  ASSUME TypeInv, RereadAnswered
  PROVE  TypeInv'
<1> DEFINE t   == Head(calls).id
           row == Head(calls).row
<1>1. t \in Tasks /\ row \in Row /\ Tail(calls) \in Seq(Call)
  BY AnsweredTask DEF RereadAnswered, TypeInv
<1>2. CASE row.st = "failed" /\ CanMove(row, "queued")
  <2>1. Moved(row, "queued") \in Row
    BY <1>1, <1>2, CanMoveMoved DEF States, Row
  <2>2. rows' \in [Tasks -> Row]
    BY <1>2, <2>1 DEF RereadAnswered, TypeInv, TypeOK
  <2>3. TaskCallOf("requeued", t, Absent, {}) \in Call
    BY <1>1, TaskCallType DEF Row
  <2>4. calls' \in Seq(Call)
    BY <1>1, <1>2, <2>3 DEF RereadAnswered
  <2>5. UNCHANGED <<before, running, flags, pumping, disposed, eng, history>>
    BY <1>2 DEF RereadAnswered
  <2>. QED
    BY <2>2, <2>4, <2>5, EngUnchangedType DEF flags, history, TypeInv, TypeOK
<1>3. CASE ~(row.st = "failed" /\ CanMove(row, "queued"))
  <2>1. /\ rows' = rows /\ parked' = parked
        /\ eng' = [eng EXCEPT ![t] = NoAttempt]
        /\ Finish(t, Tail(calls))
    BY <1>3 DEF RereadAnswered
  <2>2. eng' \in [Tasks -> Attempt] /\ EngineWorks'
    BY <1>1, <2>1, NoAttemptType
  <2>3. rows' \in [Tasks -> Row] /\ TypeOK
    BY <2>1 DEF TypeInv, TypeOK
  <2>. QED
    BY <1>1, <2>1, <2>2, <2>3, FinishType DEF TypeInv, TypeOK
<1>. QED
  BY <1>2, <1>3

\* The requeued row is saved.
LEMMA RequeuedType ==
  ASSUME TypeInv, RequeuedAnswered
  PROVE  TypeInv'
<1>1. Head(calls).id \in Tasks /\ Tail(calls) \in Seq(Call)
  BY AnsweredTask DEF RequeuedAnswered, TypeInv
<1>2. eng' \in [Tasks -> Attempt] /\ EngineWorks'
  BY <1>1, NoAttemptType DEF RequeuedAnswered
<1>3. /\ rows' \in [Tasks -> Row] /\ parked' = parked /\ TypeOK
      /\ Finish(Head(calls).id, Tail(calls))
  BY DEF RequeuedAnswered, TypeInv, TypeOK
<1>. QED
  BY <1>1, <1>2, <1>3, FinishType DEF TypeInv, TypeOK

\* A pause or a cancel of a download that does not run.
LEMMA StopAnsweredType ==
  ASSUME TypeInv, NEW why \in {"pause", "cancel"}, StopAnswered(why)
  PROVE  TypeInv'
<1> DEFINE t    == Head(calls).id
           row  == Head(calls).row
           next == Target(why)
           move == CanMove(row, next) /\ ~(why = "pause" /\ row.st = "queued")
<1>1. /\ t \in Tasks /\ row \in Row /\ Head(calls).rest \in SUBSET Tasks
      /\ calls # <<>> /\ calls \in Seq(Call)
  BY AnsweredTask DEF StopAnswered, Answered, TypeInv, TypeOK
<1>2. move => Moved(row, next) \in Row
  BY <1>1, CanMoveMoved DEF Target, States, Row
<1>3. rows' = IF move THEN [rows EXCEPT ![t] = Moved(row, next)] ELSE rows
  BY DEF StopAnswered
<1>4. rows' \in [Tasks -> Row]
  BY <1>1, <1>2, <1>3 DEF TypeInv, TypeOK
<1>5. stopRequested' \in SUBSET Tasks
  BY <1>1 DEF StopAnswered, TypeInv, TypeOK
<1>6. calls' \in Seq(Call)
  BY <1>1, GoOnType DEF StopAnswered
<1>. QED
  BY <1>4, <1>5, <1>6, EngUnchangedType
  DEF StopAnswered, history, TypeInv, TypeOK

\* A resume reads its row.
LEMMA ResumeAnsweredType ==
  ASSUME TypeInv, ResumeAnswered
  PROVE  TypeInv'
<1> DEFINE t   == Head(calls).id
           row == Head(calls).row
           cs  == GoOn("resumeAll", Head(calls).rest)
<1>1. /\ t \in Tasks /\ Head(calls).rest \in SUBSET Tasks
      /\ calls # <<>> /\ calls \in Seq(Call)
  BY AnsweredTask DEF ResumeAnswered, Answered, TypeInv, TypeOK
<1>2. cs \in Seq(Call)
  BY <1>1, GoOnType
<1>3. CASE row.st \in {"paused", "queued"}
  <2>1. /\ stopRequested' \in SUBSET Tasks /\ resumeRequested' \in SUBSET Tasks
        /\ parked' \in SUBSET Tasks
    BY <1>1, <1>3 DEF ResumeAnswered, TypeInv, TypeOK
  <2>2. UNCHANGED <<store, running, disposed, eng>> /\ Pump(cs)
    BY <1>3 DEF ResumeAnswered
  <2>. QED
    BY <1>2, <2>1, <2>2, PumpAnswerType
<1>4. CASE row.st \notin {"paused", "queued"}
  BY <1>2, <1>4, EngUnchangedType
  DEF ResumeAnswered, store, flags, history, TypeInv, TypeOK
<1>. QED
  BY <1>3, <1>4

\* The save of an enqueue or a retry is answered.
LEMMA FlagAnsweredType ==
  ASSUME TypeInv, EnqueueAnswered \/ RetriedAnswered
  PROVE  TypeInv'
<1>1. Head(calls).id \in Tasks /\ Tail(calls) \in Seq(Call)
  BY AnsweredTask DEF EnqueueAnswered, RetriedAnswered, TypeInv
<1>2. /\ UNCHANGED <<store, running, resumeRequested, disposed, eng, parked>>
      /\ stopRequested' = stopRequested \ {Head(calls).id}
      /\ Pump(Tail(calls))
  BY DEF EnqueueAnswered, RetriedAnswered
<1>. QED
  BY <1>1, <1>2, PumpAnswerType DEF TypeInv, TypeOK

\* A retry reads its row.
LEMMA RetryAnsweredType ==
  ASSUME TypeInv, RetryAnswered
  PROVE  TypeInv'
<1> DEFINE t   == Head(calls).id
           row == Head(calls).row
<1>1. t \in Tasks /\ row \in Row /\ Tail(calls) \in Seq(Call)
  BY AnsweredTask DEF RetryAnswered, TypeInv
<1>2. UNCHANGED <<before, running, flags, pumping, disposed, eng, history>>
  BY DEF RetryAnswered
<1>3. CASE CanMove(row, "queued")
  <2>1. Moved(row, "queued") \in Row
    BY <1>1, <1>3, CanMoveMoved DEF States, Row
  <2>2. rows' \in [Tasks -> Row]
    BY <1>3, <2>1 DEF RetryAnswered, TypeInv, TypeOK
  <2>3. TaskCallOf("retried", t, Absent, {}) \in Call
    BY <1>1, TaskCallType DEF Row
  <2>4. calls' \in Seq(Call)
    BY <1>1, <1>3, <2>3 DEF RetryAnswered
  <2>. QED
    BY <1>2, <2>2, <2>4, EngUnchangedType DEF flags, history, TypeInv, TypeOK
<1>4. CASE ~CanMove(row, "queued")
  BY <1>1, <1>2, <1>4, EngUnchangedType
  DEF RetryAnswered, flags, history, TypeInv, TypeOK
<1>. QED
  BY <1>3, <1>4

\* Recording an intent keeps the attempts.
LEMMA StopType ==
  ASSUME TypeInv, NEW t \in Tasks, NEW why \in {"pause", "cancel"},
         Stop(t, why)
  PROVE  eng' \in [Tasks -> Attempt] /\ EngineWorks'
<1>1. CASE ReadsIntent(t)
  <2>1. eng' = [eng EXCEPT ![t].intent = why]
    BY <1>1 DEF Stop
  <2>. QED
    BY <2>1 DEF TypeInv, TypeOK, Attempt, Intents, EngineWorks, Active
<1>2. CASE ~ReadsIntent(t)
  BY <1>2, EngUnchangedType DEF Stop
<1>. QED
  BY <1>1, <1>2

\* A bulk operation turns to its next download.
LEMMA BulkStepType ==
  ASSUME TypeInv, NEW t \in Tasks, PauseNext(t) \/ ResumeNext(t)
  PROVE  TypeInv'
<1>1. /\ calls # <<>> /\ calls \in Seq(Call) /\ Tail(calls) \in Seq(Call)
      /\ Head(calls).todo \in SUBSET Tasks
      /\ rows[t] \in Row
  BY HeadTail, CallKinds
  DEF PauseNext, ResumeNext, Answered, TypeInv, TypeOK, BulkCall
<1>2. UNCHANGED <<store, running, flags, pumping, disposed, history>>
  BY DEF PauseNext, ResumeNext
<1> DEFINE rest == Head(calls).todo \ {t}
<1>3. CASE PauseNext(t) /\ t \in running
  <2>1. Stop(t, "pause") /\ calls' = GoOn("pauseAll", rest)
    BY <1>3 DEF PauseNext
  <2>2. calls' \in Seq(Call)
    BY <1>1, <2>1, GoOnType
  <2>. QED
    BY <1>2, <2>1, <2>2, StopType DEF store, flags, history, TypeInv, TypeOK
<1>4. CASE PauseNext(t) /\ t \notin running
  <2>1. calls' = Append(Tail(calls), TaskCallOf("pause", t, rows[t], rest))
    BY <1>4 DEF PauseNext
  <2>2. TaskCallOf("pause", t, rows[t], rest) \in Call
    BY <1>1, TaskCallType
  <2>3. calls' \in Seq(Call) /\ UNCHANGED eng
    BY <1>1, <1>4, <2>1, <2>2 DEF PauseNext
  <2>. QED
    BY <1>2, <2>3, EngUnchangedType DEF store, flags, history, TypeInv, TypeOK
<1>5. CASE ResumeNext(t)
  <2>1. calls' = Append(Tail(calls), TaskCallOf("resume", t, rows[t], rest))
    BY <1>5 DEF ResumeNext
  <2>2. TaskCallOf("resume", t, rows[t], rest) \in Call
    BY <1>1, TaskCallType
  <2>3. calls' \in Seq(Call) /\ UNCHANGED eng
    BY <1>1, <1>5, <2>1, <2>2 DEF ResumeNext
  <2>. QED
    BY <1>2, <2>3, EngUnchangedType DEF store, flags, history, TypeInv, TypeOK
<1>. QED
  BY <1>3, <1>4, <1>5

\* A restore rewrites the next stale row, or is over.
LEMMA RestoreStepType ==
  ASSUME TypeInv, RestoreStep
  PROVE  TypeInv'
<1>1. CASE RestoreEnds
  <2>1. Tail(calls) \in Seq(Call)
    BY <1>1, HeadTail DEF RestoreEnds, Answered, TypeInv, TypeOK
  <2>2. /\ UNCHANGED <<store, running, disposed, eng>> /\ Pump(Tail(calls))
        /\ stopRequested' \in SUBSET Tasks /\ resumeRequested' \in SUBSET Tasks
        /\ parked' \in SUBSET Tasks
    BY <1>1 DEF RestoreEnds, flags, TypeInv, TypeOK
  <2>. QED
    BY <2>1, <2>2, PumpAnswerType
<1>2. ASSUME NEW t \in Tasks, RestoreNext(t)
      PROVE  TypeInv'
  <2> DEFINE head == Head(calls)
             next == IF head.rows[t].st = "connecting" THEN "failed"
                     ELSE "paused"
             left == [head EXCEPT !.todo = @ \ {t}, !.rows[t] = Absent]
  <2>1. head \in RestoreCall /\ Tail(calls) \in Seq(Call) /\ t \in head.todo
    BY <1>2, HeadTail, CallKinds DEF RestoreNext, Answered, TypeInv, TypeOK
  <2>2. head.rows[t] \in Row /\ head.rows[t].st \in StaleStates
    BY <2>1 DEF RestoreCall
  <2>3. Moved(head.rows[t], next) \in Row
    BY <2>2, MovedType DEF StaleStates, States, Row
  <2>4. rows' = [rows EXCEPT ![t] = Moved(head.rows[t], next)]
    BY <1>2 DEF RestoreNext
  <2>5. rows' \in [Tasks -> Row]
    BY <2>3, <2>4 DEF TypeInv, TypeOK
  <2>6. left \in Call
    BY <2>1 DEF RestoreCall, Call, Row
  <2>7. calls' = Append(Tail(calls), left)
    BY <1>2 DEF RestoreNext
  <2>8. calls' \in Seq(Call)
    BY <2>1, <2>6, <2>7
  <2>9. UNCHANGED <<before, running, flags, pumping, disposed, eng, history>>
    BY <1>2 DEF RestoreNext
  <2>. QED
    BY <2>5, <2>8, <2>9, EngUnchangedType DEF flags, history, TypeInv, TypeOK
<1>. QED
  BY <1>1, <1>2 DEF RestoreStep

\* A handler that only awaits a call.
LEMMA AwaitOnlyType ==
  ASSUME TypeInv, NEW STATE call, call \in Call, AwaitOnly(call),
         rows' \in [Tasks -> Row], before' \in SUBSET (Tasks \X Tasks)
  PROVE  TypeInv'
<1>1. calls' \in Seq(Call)
  BY DEF AwaitOnly, TypeInv, TypeOK
<1>. QED
  BY <1>1, EngUnchangedType DEF AwaitOnly, flags, history, TypeInv, TypeOK

\* An operation of the user.
LEMMA UserStepType ==
  ASSUME TypeInv, UserStep
  PROVE  TypeInv'
<1>1. ASSUME NEW t \in Tasks, Enqueue(t)
      PROVE  TypeInv'
  <2>1. [st |-> "queued", retries |-> 0] \in Row
    BY MaxRetriesAssumption DEF Row, Task, States
  <2>2. rows' \in [Tasks -> Row] /\ before' \in SUBSET (Tasks \X Tasks)
    BY <1>1, <2>1 DEF Enqueue, TypeInv, TypeOK
  <2>3. TaskCallOf("enqueued", t, Absent, {}) \in Call
    BY TaskCallType DEF Row
  <2>. QED
    BY <1>1, <2>2, <2>3, AwaitOnlyType DEF Enqueue
<1>2. ASSUME NEW t \in Tasks, Resume(t) \/ Retry(t)
      PROVE  TypeInv'
  <2>1. /\ TaskCallOf("resume", t, rows[t], {}) \in Call
        /\ TaskCallOf("retry", t, rows[t], {}) \in Call
    BY TaskCallType DEF TypeInv, TypeOK
  <2>2. rows' \in [Tasks -> Row] /\ before' \in SUBSET (Tasks \X Tasks)
    BY <1>2 DEF Resume, Retry, store, TypeInv, TypeOK
  <2>. QED
    BY <1>2, <2>1, <2>2, AwaitOnlyType DEF Resume, Retry
<1>3. ASSUME NEW t \in Tasks, NEW why \in {"pause", "cancel"}, StopTask(t, why)
      PROVE  TypeInv'
  <2>1. CASE t \in running
    BY <1>3, <2>1, StopType DEF StopTask, store, flags, history, TypeInv, TypeOK
  <2>2. CASE t \notin running
    <3>1. TaskCallOf(why, t, rows[t], {}) \in Call
      BY TaskCallType DEF TypeInv, TypeOK
    <3>2. calls' = Append(calls, TaskCallOf(why, t, rows[t], {}))
      BY <1>3, <2>2 DEF StopTask
    <3>3. calls' \in Seq(Call)
      BY <3>1, <3>2 DEF TypeInv, TypeOK
    <3>. QED
      BY <1>3, <2>2, <3>3, EngUnchangedType
      DEF StopTask, store, flags, history, TypeInv, TypeOK
  <2>. QED
    BY <2>1, <2>2
<1>4. ASSUME NEW kind \in {"pauseAll", "resumeAll"}, BulkStart(kind)
      PROVE  TypeInv'
  <2>1. [kind |-> kind, todo |-> BulkTargets(kind)] \in Call
    BY DEF BulkTargets, Call, BulkCall
  <2>2. rows' \in [Tasks -> Row] /\ before' \in SUBSET (Tasks \X Tasks)
    BY <1>4 DEF BulkStart, store, TypeInv, TypeOK
  <2>. QED
    BY <1>4, <2>1, <2>2, AwaitOnlyType DEF BulkStart
<1>5. CASE ClearFinished
  <2>1. rows' \in [Tasks -> Row]
    BY <1>5 DEF ClearFinished, TypeInv, TypeOK, Row
  <2>. QED
    BY <1>5, <2>1, EngUnchangedType
    DEF ClearFinished, flags, history, TypeInv, TypeOK
<1>6. CASE RestoreQueue
  <2> DEFINE call == [kind |-> "restore", rows |-> Listed(StaleStates),
                      todo |-> {t \in Tasks : rows[t].st \in StaleStates}]
  <2>1. rows' = rows /\ rows' \in [Tasks -> Row]
        /\ before' \in SUBSET (Tasks \X Tasks)
    BY <1>6 DEF RestoreQueue, store, TypeInv, TypeOK
  <2>2. Listed(StaleStates) \in [Tasks -> Row]
    BY <2>1, ListedType
  <2>3. \A t \in call.todo : call.rows[t].st \in StaleStates
    BY <2>1 DEF Listed
  <2>4. call \in Call
    BY <2>2, <2>3 DEF Call, RestoreCall
  <2>5. calls' = Append(calls, call)
        /\ UNCHANGED <<running, flags, pumping, disposed, eng, history>>
    BY <1>6 DEF RestoreQueue, AwaitOnly
  <2>6. calls' \in Seq(Call)
    BY <2>4, <2>5 DEF TypeInv, TypeOK
  <2>. QED
    BY <2>1, <2>5, <2>6, EngUnchangedType DEF flags, history, TypeInv, TypeOK
<1>. QED
  BY <1>1, <1>2, <1>3, <1>4, <1>5, <1>6 DEF UserStep, TaskStep

\* The manager is disposed or the process dies.
LEMMA LifeStepType ==
  ASSUME TypeInv, Dispose \/ Crash
  PROVE  TypeInv'
<1>1. CASE Dispose
  <2>1. eng' \in [Tasks -> Attempt]
    BY <1>1 DEF Dispose, TypeInv, TypeOK, Attempt, Intents
  <2>2. EngineWorks'
    BY <1>1 DEF Dispose, TypeInv, TypeOK, Attempt, EngineWorks, Active
  <2>3. disposed' \in BOOLEAN
    BY <1>1, Zenon DEF Dispose
  <2>. QED
    BY <1>1, <2>1, <2>2, <2>3
    DEF Dispose, store, flags, history, TypeInv, TypeOK
<1>2. CASE Crash
  <2>1. PICK torn \in SUBSET {t \in Tasks : eng[t].phase = "verifying"
                                            /\ rows[t].st = "verifying"} :
          rows' = [t \in Tasks |-> IF t \in torn
                                   THEN [rows[t] EXCEPT !.st = "completed"]
                                   ELSE rows[t]]
    BY <1>2 DEF Crash
  <2>2. ASSUME NEW t \in torn
        PROVE  [rows[t] EXCEPT !.st = "completed"] \in Row
    BY <2>2 DEF TypeInv, TypeOK, Row, Task, Absent, States
  <2>3. rows' \in [Tasks -> Row]
    BY <2>1, <2>2 DEF TypeInv, TypeOK
  <2>4. eng' \in [Tasks -> Attempt] /\ EngineWorks'
    BY <1>2 DEF Crash, NoAttempt, Attempt, Row, Phases, Intents, EngineWorks,
                Active, ActivePhases
  <2>5. pumping' \in BOOLEAN /\ disposed' \in BOOLEAN /\ woken' \in BOOLEAN
    BY <1>2, Zenon DEF Crash
  <2>6. calls' \in Seq(Call)
    BY <1>2 DEF Crash
  <2>7. /\ running' \in SUBSET Tasks /\ stopRequested' \in SUBSET Tasks
        /\ resumeRequested' \in SUBSET Tasks /\ parked' \in SUBSET Tasks
        /\ before' \in SUBSET (Tasks \X Tasks)
    BY <1>2 DEF Crash, TypeInv, TypeOK
  <2>. QED
    BY <2>3, <2>4, <2>5, <2>6, <2>7 DEF TypeInv, TypeOK
<1>. QED
  BY <1>1, <1>2

\* The inductive invariant behind TypeCorrect.
THEOREM TypeInvariant == Spec => []TypeInv
<1>1. Init => TypeInv
  <2> SUFFICES ASSUME Init PROVE TypeInv
    OBVIOUS
  <2>1. rows \in [Tasks -> Row] /\ eng \in [Tasks -> Attempt] /\ EngineWorks
    BY DEF Init, NoAttempt, Attempt, Row, Phases, Intents, EngineWorks, Active,
           ActivePhases
  <2>2. pumping \in BOOLEAN /\ disposed \in BOOLEAN /\ woken \in BOOLEAN
    BY Zenon DEF Init
  <2>3. calls \in Seq(Call)
    BY DEF Init
  <2>. QED
    BY <2>1, <2>2, <2>3 DEF Init, TypeInv, TypeOK
<1>2. TypeInv /\ [Next]_vars => TypeInv'
  <2> SUFFICES ASSUME TypeInv, [Next]_vars PROVE TypeInv'
    OBVIOUS
  <2>1. CASE Answer
    <3>1. CASE StopAnswered("pause") \/ StopAnswered("cancel")
      BY <3>1, StopAnsweredType
    <3>2. CASE BulkStep
      BY <3>2, BulkStepType DEF BulkStep
    <3>. QED
      BY <2>1, <3>1, <3>2, PumpStepType, RereadType, RequeuedType,
         ResumeAnsweredType, FlagAnsweredType, RetryAnsweredType,
         RestoreStepType
      DEF Answer
  <2>2. CASE UserStep
    BY <2>2, UserStepType
  <2>3. CASE \E t \in Tasks : RunStep(t)
    BY <2>3, RunStepType
  <2>4. CASE Dispose \/ Crash
    BY <2>4, LifeStepType
  <2>5. CASE UNCHANGED vars
    BY <2>5, EngUnchangedType DEF vars, TypeInv, TypeOK
  <2>. QED
    BY <2>1, <2>2, <2>3, <2>4, <2>5 DEF Next, Step
<1>. QED
  BY <1>1, <1>2, PTL DEF Spec

\* Every variable keeps its type, whatever the user, the origin, the table and
\* the process do.
THEOREM TypeCorrect == Spec => []TypeOK
<1>1. TypeInv => TypeOK
  BY DEF TypeInv
<1>. QED
  BY <1>1, TypeInvariant, PTL

------------------------------------------------------------------------------
(* Slots.  _pump compares _running with the limit before it awaits a listing *)
(* and adds to _running afterwards; what makes that safe is that only one    *)
(* listing is awaited at a time and that only its answer adds.               *)

NoPump(cs) == \A i \in 1 .. Len(cs) : cs[i].kind # "pump"

OnePump(cs) ==
  \A i, j \in 1 .. Len(cs) : cs[i].kind = "pump" /\ cs[j].kind = "pump" => i = j

\* `_pumping` guards the listings awaited in cs.
Guarded(cs) == OnePump(cs) /\ (~pumping => NoPump(cs))

SlotInv ==
  /\ SlotBound
  /\ pumping => Cardinality(running) < MaxConcurrent
  /\ Guarded(calls)

\* Answering the oldest call leaves at most one pump,
LEMMA TailGuarded ==
  ASSUME calls \in Seq(Call), calls # <<>>, Guarded(calls)
  PROVE  Guarded(Tail(calls))
BY DEF Guarded, OnePump, NoPump

\* and none once the pump was answered.
LEMMA TailNoPump ==
  ASSUME calls \in Seq(Call), Answered("pump"), OnePump(calls)
  PROVE  NoPump(Tail(calls))
BY DEF Answered, OnePump, NoPump

\* A call that is no pump may follow,
LEMMA AppendGuarded ==
  ASSUME NEW STATE cs, cs \in Seq(Call), Guarded(cs),
         NEW STATE call, call.kind # "pump"
  PROVE  Guarded(Append(cs, call))
BY DEF Guarded, OnePump, NoPump

\* and a listing where there was none.
LEMMA AppendListing ==
  ASSUME NEW STATE cs, cs \in Seq(Call), NoPump(cs), NEW call
  PROVE  OnePump(Append(cs, call))
BY DEF OnePump, NoPump

\* A run that ends takes no slot.
LEMMA FewerRunning ==
  ASSUME TypeOK, running' \in SUBSET running
  PROVE  Cardinality(running') <= Cardinality(running)
<1>1. IsFiniteSet(running)
  BY QueueAssumption, FS_Subset DEF TypeOK
<1>. QED
  BY <1>1, FS_Subset

\* The running downloads can be counted.
LEMMA RunningNat ==
  ASSUME TypeOK
  PROVE  /\ IsFiniteSet(running)
         /\ Cardinality(running) \in Nat
BY QueueAssumption, FS_Subset, FS_CardinalityType DEF TypeOK

\* A handler that pumps last, starting nothing itself.
LEMMA PumpSlots ==
  ASSUME TypeOK, TypeOK', SlotInv, running' \in SUBSET running,
         NEW STATE cs, cs \in Seq(Call), Guarded(cs), Pump(cs)
  PROVE  SlotInv'
<1>1. /\ Cardinality(running') <= Cardinality(running)
      /\ Cardinality(running) \in Nat /\ Cardinality(running') \in Nat
  <2>1. IsFiniteSet(running')
    BY RunningNat, FS_Subset
  <2>. QED
    BY <2>1, FewerRunning, RunningNat, FS_CardinalityType
<1>2. SlotBound' /\ MaxConcurrent \in Nat
  BY <1>1, QueueAssumption DEF SlotInv, SlotBound
<1>3. CASE ~pumping /\ ~disposed' /\ Cardinality(running') < MaxConcurrent
  <2>1. pumping' /\ calls' = Append(cs, Listing) /\ NoPump(cs)
    BY <1>3 DEF Pump, Guarded
  <2>2. OnePump(calls')
    BY <2>1 DEF OnePump, NoPump
  <2>. QED
    BY <1>2, <1>3, <2>1, <2>2 DEF SlotInv, Guarded, OnePump, NoPump
<1>4. CASE ~(~pumping /\ ~disposed' /\ Cardinality(running') < MaxConcurrent)
  <2>1. pumping' = pumping /\ calls' = cs
    BY <1>4 DEF Pump
  <2>2. pumping' => Cardinality(running') < MaxConcurrent
    BY <1>1, <1>2, <2>1 DEF SlotInv
  <2>3. OnePump(calls') /\ (~pumping' => NoPump(calls'))
    BY <2>1 DEF Guarded
  <2>. QED
    BY <1>2, <2>2, <2>3 DEF SlotInv, Guarded, OnePump, NoPump
<1>. QED
  BY <1>3, <1>4

\* A handler that does not pump.
LEMMA QuietSlots ==
  ASSUME SlotInv, UNCHANGED <<running, pumping>>,
         NEW STATE cs, Guarded(cs), calls' = cs
  PROVE  SlotInv'
BY DEF SlotInv, SlotBound, Guarded, OnePump, NoPump

\* The end of a run keeps the slots bounded.
LEMMA FinishSlots ==
  ASSUME TypeOK, TypeOK', SlotInv, NEW t \in Tasks,
         NEW STATE cs, cs \in Seq(Call), Guarded(cs), Finish(t, cs)
  PROVE  SlotInv'
<1>1. running' \in SUBSET running /\ Pump(cs)
  BY DEF Finish
<1>. QED
  BY <1>1, PumpSlots

\* A bulk operation that goes on adds no pump.
LEMMA GoOnGuarded ==
  ASSUME TypeOK, SlotInv, calls # <<>>,
         NEW STATE rest, rest \in SUBSET Tasks,
         NEW kind \in {"pauseAll", "resumeAll"}
  PROVE  Guarded(GoOn(kind, rest)) /\ GoOn(kind, rest) \in Seq(Call)
<1>1. Guarded(Tail(calls)) /\ Tail(calls) \in Seq(Call) /\ calls \in Seq(Call)
  BY TailGuarded DEF TypeOK, SlotInv
<1>2. Guarded(Append(Tail(calls), [kind |-> kind, todo |-> rest]))
  BY <1>1, AppendGuarded
<1>3. GoOn(kind, rest) \in Seq(Call)
  BY <1>1, GoOnType
<1>. QED
  BY <1>1, <1>2, <1>3 DEF GoOn

\* The pump starts a download only where a slot is free: the check made before
\* the listing still holds, because only a pump adds to `running`.
LEMMA PumpStartsSlots ==
  ASSUME TypeOK, TypeOK', SlotInv, NEW t \in Tasks, PumpStarts(t)
  PROVE  SlotInv'
<1>1. /\ calls \in Seq(Call) /\ calls # <<>> /\ Tail(calls) \in Seq(Call)
      /\ NoPump(Tail(calls)) /\ OnePump(Tail(calls))
  BY TailNoPump, TailGuarded, HeadTail
  DEF PumpStarts, Answered, TypeOK, SlotInv, Guarded
<1>2. pumping /\ Cardinality(running) < MaxConcurrent
  BY <1>1 DEF PumpStarts, Answered, SlotInv, Guarded, NoPump
<1>3. Cardinality(running') <= MaxConcurrent /\ Cardinality(running') \in Nat
  <2>1. running' = running \cup {t}
    BY DEF PumpStarts
  <2>2. Cardinality(running \cup {t}) \in
          {Cardinality(running), Cardinality(running) + 1}
    BY RunningNat, FS_AddElement
  <2>. QED
    BY <1>2, <2>1, <2>2, RunningNat, QueueAssumption
<1>4. CASE Cardinality(running') < MaxConcurrent
  <2>1. calls' = Append(Tail(calls), Listing) /\ pumping' = pumping
    BY <1>4 DEF PumpStarts
  <2>2. OnePump(calls')
    BY <1>1, <2>1 DEF OnePump, NoPump
  <2>. QED
    BY <1>2, <1>3, <1>4, <2>1, <2>2 DEF SlotInv, SlotBound, Guarded, OnePump
<1>5. CASE ~(Cardinality(running') < MaxConcurrent)
  <2>1. calls' = Tail(calls) /\ pumping' = FALSE
    BY <1>5 DEF PumpStarts
  <2>2. OnePump(calls') /\ NoPump(calls')
    BY <1>1, <2>1
  <2>. QED
    BY <1>3, <2>1, <2>2 DEF SlotInv, SlotBound, Guarded, OnePump, NoPump
<1>. QED
  BY <1>4, <1>5

\* Every answer keeps the slots bounded,
LEMMA AnswerSlots ==
  ASSUME TypeOK, TypeOK', SlotInv, Answer
  PROVE  SlotInv'
<1>1. ASSUME calls # <<>>
      PROVE  Guarded(Tail(calls)) /\ Tail(calls) \in Seq(Call)
  BY <1>1, TailGuarded, HeadTail DEF TypeOK, SlotInv
<1>2. CASE PumpStep
  <2>1. CASE PumpEnds
    <3>1. NoPump(Tail(calls)) /\ OnePump(Tail(calls))
      BY <2>1, TailNoPump, TailGuarded
      DEF PumpEnds, Answered, TypeOK, SlotInv, Guarded
    <3>2. calls' = Tail(calls) /\ pumping' = FALSE /\ UNCHANGED running
      BY <2>1 DEF PumpEnds
    <3>. QED
      BY <3>1, <3>2 DEF SlotInv, SlotBound, Guarded, OnePump, NoPump
  <2>. QED
    BY <1>2, <2>1, PumpStartsSlots DEF PumpStep
<1>3. CASE RereadAnswered
  <2> DEFINE t   == Head(calls).id
             row == Head(calls).row
  <2>1. /\ t \in Tasks /\ Tail(calls) \in Seq(Call) /\ Guarded(Tail(calls))
    BY <1>1, <1>3, AnsweredTask DEF RereadAnswered, Answered
  <2>2. CASE row.st = "failed" /\ CanMove(row, "queued")
    <3>1. /\ calls' = Append(Tail(calls), TaskCallOf("requeued", t, Absent, {}))
          /\ UNCHANGED <<running, pumping>>
      BY <1>3, <2>2 DEF RereadAnswered
    <3>2. Guarded(Append(Tail(calls), TaskCallOf("requeued", t, Absent, {})))
      BY <2>1, AppendGuarded DEF TaskCallOf
    <3>. QED
      BY <3>1, <3>2, QuietSlots
  <2>3. CASE ~(row.st = "failed" /\ CanMove(row, "queued"))
    BY <1>3, <2>1, <2>3, FinishSlots DEF RereadAnswered
  <2>. QED
    BY <2>2, <2>3
<1>4. CASE RequeuedAnswered
  BY <1>1, <1>4, AnsweredTask, FinishSlots DEF RequeuedAnswered, Answered
<1>5. CASE EnqueueAnswered \/ RetriedAnswered \/ RestoreEnds
  <2>1. /\ calls # <<>> /\ running' \in SUBSET running /\ Pump(Tail(calls))
    BY <1>5 DEF EnqueueAnswered, RetriedAnswered, RestoreEnds, Answered
  <2>. QED
    BY <1>1, <2>1, PumpSlots
<1>6. ASSUME NEW why \in {"pause", "cancel"}, StopAnswered(why)
      PROVE  SlotInv'
  <2>1. calls # <<>> /\ Head(calls).rest \in SUBSET Tasks
    BY <1>6, AnsweredTask DEF StopAnswered, Answered
  <2>2. Guarded(GoOn("pauseAll", Head(calls).rest))
    BY <2>1, GoOnGuarded
  <2>. QED
    BY <1>6, <2>2, QuietSlots DEF StopAnswered
<1>7. CASE ResumeAnswered
  <2> DEFINE cs == GoOn("resumeAll", Head(calls).rest)
  <2>1. calls # <<>> /\ Head(calls).rest \in SUBSET Tasks
    BY <1>7, AnsweredTask DEF ResumeAnswered, Answered
  <2>2. Guarded(cs) /\ cs \in Seq(Call)
    BY <2>1, GoOnGuarded
  <2>3. UNCHANGED running /\ (Pump(cs) \/ (calls' = cs /\ UNCHANGED pumping))
    BY <1>7 DEF ResumeAnswered
  <2>. QED
    BY <2>2, <2>3, PumpSlots, QuietSlots
<1>8. CASE RetryAnswered
  <2>1. calls # <<>> /\ UNCHANGED <<running, pumping>>
    BY <1>8 DEF RetryAnswered, Answered
  <2>2. Guarded(Append(Tail(calls),
                       TaskCallOf("retried", Head(calls).id, Absent, {})))
    BY <1>1, <2>1, AppendGuarded DEF TaskCallOf
  <2>3. \/ calls' = Tail(calls)
        \/ calls' = Append(Tail(calls),
                           TaskCallOf("retried", Head(calls).id, Absent, {}))
    BY <1>8 DEF RetryAnswered
  <2>. QED
    BY <1>1, <2>1, <2>2, <2>3, QuietSlots
<1>9. ASSUME NEW t \in Tasks, PauseNext(t) \/ ResumeNext(t)
      PROVE  SlotInv'
  <2> DEFINE rest == Head(calls).todo \ {t}
  <2>1. calls # <<>> /\ rest \in SUBSET Tasks /\ UNCHANGED <<running, pumping>>
    BY <1>9, HeadTail, CallKinds
    DEF PauseNext, ResumeNext, Answered, TypeOK, BulkCall
  <2>2. /\ Guarded(GoOn("pauseAll", rest))
        /\ Guarded(Append(Tail(calls), TaskCallOf("pause", t, rows[t], rest)))
        /\ Guarded(Append(Tail(calls), TaskCallOf("resume", t, rows[t], rest)))
    BY <1>1, <2>1, GoOnGuarded, AppendGuarded DEF TaskCallOf
  <2>3. \/ calls' = GoOn("pauseAll", rest)
        \/ calls' = Append(Tail(calls), TaskCallOf("pause", t, rows[t], rest))
        \/ calls' = Append(Tail(calls), TaskCallOf("resume", t, rows[t], rest))
    BY <1>9 DEF PauseNext, ResumeNext
  <2>. QED
    BY <2>1, <2>2, <2>3, QuietSlots
<1>10. ASSUME NEW t \in Tasks, RestoreNext(t)
       PROVE  SlotInv'
  <2> DEFINE left == [Head(calls) EXCEPT !.todo = @ \ {t}, !.rows[t] = Absent]
  <2>1. /\ calls # <<>> /\ UNCHANGED <<running, pumping>>
        /\ calls' = Append(Tail(calls), left)
    BY <1>10 DEF RestoreNext, Answered
  <2>2. left.kind # "pump"
    <3>1. Head(calls) \in RestoreCall
      BY <1>10, HeadTail, CallKinds DEF RestoreNext, Answered, TypeOK
    <3>. QED
      BY <3>1 DEF RestoreCall
  <2>3. Guarded(Append(Tail(calls), left))
    BY <1>1, <2>1, <2>2, AppendGuarded
  <2>. QED
    BY <2>1, <2>3, QuietSlots
<1>. QED
  BY <1>2, <1>3, <1>4, <1>5, <1>6, <1>7, <1>8, <1>9, <1>10
  DEF Answer, BulkStep, RestoreStep

\* every operation of the user,
LEMMA UserSlots ==
  ASSUME TypeOK, SlotInv, UserStep
  PROVE  SlotInv'
<1>1. calls \in Seq(Call) /\ Guarded(calls)
  BY DEF TypeOK, SlotInv
<1>2. ASSUME NEW STATE call, AwaitOnly(call), call.kind # "pump"
      PROVE  SlotInv'
  BY <1>1, <1>2, AppendGuarded, QuietSlots DEF AwaitOnly
<1>3. ASSUME NEW t \in Tasks, Enqueue(t) \/ Resume(t) \/ Retry(t)
      PROVE  SlotInv'
  BY <1>2, <1>3 DEF Enqueue, Resume, Retry, TaskCallOf
<1>4. ASSUME NEW t \in Tasks, NEW why \in {"pause", "cancel"}, StopTask(t, why)
      PROVE  SlotInv'
  <2>1. Guarded(Append(calls, TaskCallOf(why, t, rows[t], {})))
    BY <1>1, AppendGuarded DEF TaskCallOf
  <2>2. \/ UNCHANGED calls
        \/ calls' = Append(calls, TaskCallOf(why, t, rows[t], {}))
    BY <1>4 DEF StopTask
  <2>. QED
    BY <1>1, <1>4, <2>1, <2>2, QuietSlots DEF StopTask
<1>5. ASSUME NEW kind \in {"pauseAll", "resumeAll"}, BulkStart(kind)
      PROVE  SlotInv'
  BY <1>2, <1>5 DEF BulkStart
<1>6. CASE RestoreQueue
  BY <1>2, <1>6 DEF RestoreQueue
<1>7. CASE ClearFinished
  BY <1>1, <1>7, QuietSlots DEF ClearFinished
<1>. QED
  BY <1>3, <1>4, <1>5, <1>6, <1>7 DEF UserStep, TaskStep

\* every step of a run,
LEMMA RunSlots ==
  ASSUME TypeOK, TypeOK', SlotInv, NEW t \in Tasks, RunStep(t)
  PROVE  SlotInv'
<1>1. calls \in Seq(Call) /\ Guarded(calls)
  BY DEF TypeOK, SlotInv
<1>2. CASE EngineOnly
  BY <1>1, <1>2, QuietSlots DEF EngineOnly
<1>3. CASE Finish(t, calls)
  BY <1>1, <1>3, FinishSlots
<1>4. CASE BackoffElapses(t)
  <2>1. \/ Finish(t, calls)
        \/ /\ calls' = Append(calls, TaskCallOf("reread", t, rows[t], {}))
           /\ UNCHANGED <<running, pumping>>
    BY <1>4 DEF BackoffElapses
  <2>2. Guarded(Append(calls, TaskCallOf("reread", t, rows[t], {})))
    BY <1>1, AppendGuarded DEF TaskCallOf
  <2>. QED
    BY <1>3, <2>1, <2>2, QuietSlots
<1>5. EngineStep(t) \/ Progresses(t) \/ Throws(t)
        => EngineOnly \/ Finish(t, calls)
  BY DEF EngineStep, Opens, OpenFails, Completes, Breaks, Overshoots,
         OvershotFails, Pauses, DropsPart, Cancels, Verifies, IntegrityFails,
         Fail, EndsAs, Progresses, Throws
<1>. QED
  BY <1>2, <1>3, <1>4, <1>5 DEF RunStep

\* and the end of the manager or of the process.
LEMMA LifeSlots ==
  ASSUME TypeOK, SlotInv, Dispose \/ Crash
  PROVE  SlotInv'
<1>1. CASE Dispose
  BY <1>1, QuietSlots DEF Dispose, SlotInv
<1>2. CASE Crash
  <2>1. running' = {} /\ calls' = <<>> /\ pumping' = FALSE
    BY <1>2 DEF Crash
  <2>2. Cardinality(running') = 0
    BY <2>1, FS_EmptySet
  <2>. QED
    BY <2>1, <2>2, QueueAssumption DEF SlotInv, SlotBound, Guarded, OnePump,
                                        NoPump
<1>. QED
  BY <1>1, <1>2

\* SlotInv is an invariant.
THEOREM SlotInvariant == Spec => []SlotInv
<1>1. Init => SlotInv
  BY FS_EmptySet, QueueAssumption
  DEF Init, SlotInv, SlotBound, Guarded, OnePump, NoPump
<1>2. TypeOK /\ TypeOK' /\ SlotInv /\ [Next]_vars => SlotInv'
  <2> SUFFICES ASSUME TypeOK, TypeOK', SlotInv, [Next]_vars PROVE SlotInv'
    OBVIOUS
  <2>1. CASE UNCHANGED vars
    BY <2>1, QuietSlots DEF vars, SlotInv
  <2>. QED
    BY <2>1, AnswerSlots, UserSlots, RunSlots, LifeSlots DEF Next, Step
<1>. QED
  BY <1>1, <1>2, TypeCorrect, PTL DEF Spec

\* At no time are more downloads running, backoff included, than the manager
\* has slots for.
THEOREM SlotsBounded == Spec => []SlotBound
<1>1. SlotInv => SlotBound
  BY DEF SlotInv
<1>. QED
  BY <1>1, SlotInvariant, PTL

------------------------------------------------------------------------------
(* Wake-ups.  A trigger that comes while a pump awaits its listing is        *)
(* dropped.  No queued download is lost by that, because whoever writes      *)
(* `queued` to the table pumps again after the write: either the listing     *)
(* already holds the row, or that later pump is still to come.               *)

Comes(cs) == \E i \in 1 .. Len(cs) : cs[i].kind \in Wakers

HasPump(cs) == \E i \in 1 .. Len(cs) : cs[i].kind = "pump"

\* A pump that comes after the i-th call.
ComesAfter(cs, i) == \E j \in 1 .. Len(cs) : j > i /\ cs[j].kind \in Wakers

\* What a listing awaited in cs does not show as queued, a later pump will.
Covers(cs, table) ==
  \A i \in 1 .. Len(cs) : cs[i].kind = "pump" =>
    \A t \in Tasks : table[t].st = "queued" =>
      cs[i].rows[t].st = "queued" \/ ComesAfter(cs, i)

\* What must hold of the calls a handler leaves behind before it pumps.
Holds(cs) == (pumping => HasPump(cs)) /\ Covers(cs, rows)

WakeInv == NoLostWakeup /\ Holds(calls)

\* No row becomes queued.
NoneQueued ==
  \A t \in Tasks : rows'[t].st = "queued" => rows[t].st = "queued"

\* Taking an answered call away, if it is no pump, uncovers nothing.
LEMMA TailHolds ==
  ASSUME calls \in Seq(Call), calls # <<>>, Head(calls).kind # "pump",
         Holds(calls)
  PROVE  Holds(Tail(calls))
<1> DEFINE tail == Tail(calls)
<1>1. /\ Len(tail) = Len(calls) - 1 /\ Len(calls) \in Nat \ {0}
      /\ \A i \in 1 .. Len(tail) : tail[i] = calls[i + 1]
  OBVIOUS
<1>2. calls[1].kind # "pump"
  OBVIOUS
<1>3. ASSUME pumping
      PROVE  HasPump(tail)
  <2>1. PICK i \in 1 .. Len(calls) : calls[i].kind = "pump"
    BY <1>3 DEF Holds, HasPump
  <2>2. i - 1 \in 1 .. Len(tail) /\ tail[i - 1].kind = "pump"
    BY <1>1, <1>2, <2>1
  <2>. QED
    BY <2>2 DEF HasPump
<1>4. ASSUME NEW i \in 1 .. Len(tail), tail[i].kind = "pump",
             NEW t \in Tasks, rows[t].st = "queued"
      PROVE  tail[i].rows[t].st = "queued" \/ ComesAfter(tail, i)
  <2>1. i + 1 \in 1 .. Len(calls) /\ calls[i + 1] = tail[i]
    BY <1>1
  <2>2. CASE calls[i + 1].rows[t].st = "queued"
    BY <2>1, <2>2
  <2>3. CASE ComesAfter(calls, i + 1)
    <3>1. PICK j \in 1 .. Len(calls) : j > i + 1 /\ calls[j].kind \in Wakers
      BY <2>3 DEF ComesAfter
    <3>2. /\ j - 1 \in 1 .. Len(tail) /\ j - 1 > i
          /\ tail[j - 1].kind \in Wakers
      BY <1>1, <3>1
    <3>. QED
      BY <3>2 DEF ComesAfter
  <2>. QED
    BY <1>4, <2>1, <2>2, <2>3 DEF Holds, Covers
<1>. QED
  BY <1>3, <1>4 DEF Holds, Covers

\* Neither does awaiting one more.
LEMMA AppendHolds ==
  ASSUME NEW STATE cs, cs \in Seq(Call), Holds(cs),
         NEW STATE call, call.kind # "pump"
  PROVE  Holds(Append(cs, call))
<1> DEFINE more == Append(cs, call)
<1>1. /\ Len(more) = Len(cs) + 1 /\ Len(cs) \in Nat
      /\ \A i \in 1 .. Len(cs) : more[i] = cs[i]
      /\ more[Len(cs) + 1] = call
  OBVIOUS
<1>2. pumping => HasPump(more)
  BY <1>1 DEF Holds, HasPump
<1>3. ASSUME NEW i \in 1 .. Len(more), more[i].kind = "pump",
             NEW t \in Tasks, rows[t].st = "queued"
      PROVE  more[i].rows[t].st = "queued" \/ ComesAfter(more, i)
  <2>1. i \in 1 .. Len(cs) /\ more[i] = cs[i]
    BY <1>1, <1>3
  <2>2. cs[i].rows[t].st = "queued" \/ ComesAfter(cs, i)
    BY <1>3, <2>1 DEF Holds, Covers
  <2>3. ComesAfter(cs, i) => ComesAfter(more, i)
    BY <1>1 DEF ComesAfter
  <2>. QED
    BY <2>1, <2>2, <2>3
<1>. QED
  BY <1>2, <1>3 DEF Holds, Covers

\* A pump to come still comes when a call is added,
LEMMA AppendComes ==
  ASSUME NEW STATE cs, cs \in Seq(Call), NEW STATE call
  PROVE  /\ call.kind \in Wakers => Comes(Append(cs, call))
         /\ Comes(cs) => Comes(Append(cs, call))
<1>1. /\ Len(Append(cs, call)) = Len(cs) + 1 /\ Len(cs) \in Nat
      /\ \A i \in 1 .. Len(cs) : Append(cs, call)[i] = cs[i]
      /\ Append(cs, call)[Len(cs) + 1] = call
  OBVIOUS
<1>. QED
  BY <1>1 DEF Comes

\* and when a call that was no waker is answered.
LEMMA TailComes ==
  ASSUME calls \in Seq(Call), calls # <<>>, Head(calls).kind \notin Wakers,
         PumpComes
  PROVE  Comes(Tail(calls))
<1>1. PICK i \in 1 .. Len(calls) : calls[i].kind \in Wakers
  BY DEF PumpComes
<1>2. i # 1 /\ i - 1 \in 1 .. Len(Tail(calls)) /\ Tail(calls)[i - 1] = calls[i]
  BY <1>1
<1>. QED
  BY <1>1, <1>2 DEF Comes

\* Both hold of a bulk operation that goes on.
LEMMA GoOnHolds ==
  ASSUME TypeOK, Holds(calls), calls # <<>>, Head(calls).kind \notin Wakers,
         NEW STATE rest, rest \in SUBSET Tasks,
         NEW kind \in {"pauseAll", "resumeAll"}
  PROVE  /\ GoOn(kind, rest) \in Seq(Call)
         /\ Holds(GoOn(kind, rest))
         /\ PumpComes => Comes(GoOn(kind, rest))
<1> DEFINE call == [kind |-> kind, todo |-> rest]
<1>1. calls \in Seq(Call) /\ Tail(calls) \in Seq(Call)
  BY HeadTail DEF TypeOK
<1>2. Holds(Tail(calls)) /\ (PumpComes => Comes(Tail(calls)))
  BY <1>1, TailHolds, TailComes DEF Wakers
<1>3. Holds(Append(Tail(calls), call))
  BY <1>1, <1>2, AppendHolds
<1>4. PumpComes => Comes(Append(Tail(calls), call))
  BY <1>1, <1>2, AppendComes
<1>5. GoOn(kind, rest) \in Seq(Call)
  BY <1>1, GoOnType
<1>. QED
  BY <1>2, <1>3, <1>4, <1>5 DEF GoOn

\* A handler that pumps last and queues nothing.
LEMMA PumpWakes ==
  ASSUME NEW STATE cs, cs \in Seq(Call), Holds(cs), Guarded(cs), NoneQueued,
         pumping \in BOOLEAN, Pump(cs)
  PROVE  WakeInv'
<1>1. CASE ~pumping /\ ~disposed' /\ Cardinality(running') < MaxConcurrent
  <2>1. pumping' /\ calls' = Append(cs, Listing) /\ NoPump(cs)
    BY <1>1 DEF Pump, Guarded
  <2>2. /\ Len(calls') = Len(cs) + 1 /\ Len(cs) \in Nat
        /\ \A i \in 1 .. Len(cs) : calls'[i] = cs[i]
        /\ calls'[Len(cs) + 1] = Listing
    BY <2>1
  <2>3. Listing.kind = "pump"
    BY DEF Listing
  <2>4. HasPump(calls') /\ Comes(calls')
    BY <2>2, <2>3 DEF HasPump, Comes, Wakers
  <2>5. ASSUME NEW t \in Tasks, rows'[t].st = "queued"
        PROVE  Listing.rows[t].st = "queued"
    BY <2>5 DEF Listing, Listed
  <2>6. Covers(calls', rows')
    BY <2>1, <2>2, <2>5 DEF Covers, NoPump
  <2>. QED
    BY <2>1, <2>4, <2>6
    DEF WakeInv, Holds, NoLostWakeup, PumpComes, HasPump, Covers, Comes,
        ComesAfter
<1>2. CASE ~(~pumping /\ ~disposed' /\ Cardinality(running') < MaxConcurrent)
  <2>1. pumping' = pumping /\ calls' = cs
    BY <1>2 DEF Pump
  <2>2. Covers(cs, rows')
    BY DEF Holds, Covers, NoneQueued
  <2>3. CASE pumping
    <3>1. HasPump(cs) /\ Comes(cs)
      BY <2>3 DEF Holds, HasPump, Comes, Wakers
    <3>. QED
      BY <2>1, <2>2, <3>1
      DEF WakeInv, Holds, NoLostWakeup, PumpComes, HasPump, Covers, Comes,
          ComesAfter
  <2>4. CASE ~pumping
    <3>1. ~Idle'
      BY <1>2, <2>4 DEF Idle
    <3>. QED
      BY <2>1, <2>2, <2>4, <3>1
      DEF WakeInv, Holds, NoLostWakeup, HasPump, Covers, ComesAfter
  <2>. QED
    BY <2>3, <2>4
<1>. QED
  BY <1>1, <1>2

\* A handler that leaves the manager's fields alone, or holds a download back.
LEMMA QuietWakes ==
  ASSUME WakeInv, UNCHANGED <<running, pumping, disposed, woken>>,
         stopRequested \subseteq stopRequested', NoneQueued,
         NEW STATE cs, Holds(cs), PumpComes => Comes(cs),
         calls' = cs
  PROVE  WakeInv'
<1>1. Covers(cs, rows') /\ (pumping => HasPump(cs))
  BY DEF Holds, Covers, NoneQueued
<1>2. ASSUME Idle', NEW t \in Tasks, Runnable(t, rows)', rows'[t].st = "queued"
      PROVE  Comes(cs)
  <2>1. Idle /\ Runnable(t, rows) /\ rows[t].st = "queued"
    BY <1>2 DEF Idle, Runnable, NoneQueued
  <2>. QED
    BY <2>1 DEF WakeInv, NoLostWakeup
<1>3. NoLostWakeup'
  BY <1>2 DEF NoLostWakeup, PumpComes, Comes
<1>. QED
  BY <1>1, <1>3 DEF WakeInv, Holds, HasPump, Covers, ComesAfter

\* A handler that only awaits a call.
LEMMA AwaitWakes ==
  ASSUME WakeInv, UNCHANGED <<running, pumping, disposed, woken, stopRequested>>,
         NoneQueued,
         NEW STATE cs, cs \in Seq(Call), Holds(cs), PumpComes => Comes(cs),
         NEW STATE call, call.kind # "pump",
         calls' = Append(cs, call)
  PROVE  WakeInv'
<1> DEFINE more == Append(cs, call)
<1>1. Holds(more)
  BY AppendHolds
<1>2. PumpComes => Comes(more)
  BY AppendComes
<1>3. stopRequested \subseteq stopRequested' /\ calls' = more
  OBVIOUS
<1>4. UNCHANGED <<running, pumping, disposed, woken>>
  OBVIOUS
<1> HIDE DEF more
<1>. QED
  BY <1>1, <1>2, <1>3, <1>4, QuietWakes

\* A handler that leaves a call behind whose answer will pump: it may queue
\* what it likes.
LEMMA WakerWakes ==
  ASSUME NEW STATE cs, cs \in Seq(Call), Holds(cs), UNCHANGED pumping,
         NEW STATE call, call.kind \in Wakers \ {"pump"},
         calls' = Append(cs, call)
  PROVE  WakeInv'
<1>1. /\ Len(calls') = Len(cs) + 1 /\ Len(cs) \in Nat
      /\ \A i \in 1 .. Len(cs) : calls'[i] = cs[i]
      /\ calls'[Len(cs) + 1] = call
  OBVIOUS
<1>2. Comes(calls') /\ (pumping => HasPump(calls'))
  BY <1>1 DEF Comes, HasPump, Holds
<1>3. \A i \in 1 .. Len(cs) : ComesAfter(calls', i)
  BY <1>1 DEF ComesAfter
<1>4. Covers(calls', rows')
  BY <1>1, <1>3 DEF Covers
<1>. QED
  BY <1>2, <1>4
  DEF WakeInv, Holds, NoLostWakeup, PumpComes, Comes, HasPump, Covers,
      ComesAfter

\* The pump gets its listing: what it does not start now it either listed again,
\* or a later pump covers.
LEMMA PumpStepWakes ==
  ASSUME TypeInv, TypeOK', SlotInv, WakeInv, PumpStep
  PROVE  WakeInv'
<1>1. /\ calls \in Seq(Call) /\ calls # <<>> /\ Tail(calls) \in Seq(Call)
      /\ Head(calls).kind = "pump" /\ NoPump(Tail(calls)) /\ pumping
  <2>1. calls \in Seq(Call) /\ Answered("pump")
    BY DEF PumpStep, PumpEnds, PumpStarts, TypeInv, TypeOK
  <2>2. Tail(calls) \in Seq(Call) /\ NoPump(Tail(calls))
    BY <2>1, HeadTail, TailNoPump DEF Answered, SlotInv, Guarded
  <2>. QED
    BY <2>1, <2>2 DEF Answered, SlotInv, Guarded, NoPump
<1>2. CASE PumpEnds
  <2>1. /\ calls' = Tail(calls) /\ pumping' = FALSE
        /\ UNCHANGED <<rows, running, stopRequested, disposed, woken>>
    BY <1>2 DEF PumpEnds, store, flags, history
  <2>2. Holds(calls)'
    BY <1>1, <2>1 DEF Holds, Covers, NoPump, HasPump
  <2>3. ASSUME NEW t \in Tasks, rows[t].st = "queued",
               t \notin running \cup stopRequested
        PROVE  Comes(Tail(calls))
    <3>1. Head(calls).rows[t].st # "queued"
      BY <1>2, <2>3 DEF PumpEnds, Runnable
    <3>2. 1 \in 1 .. Len(calls) /\ calls[1] = Head(calls)
      BY <1>1
    <3>3. ComesAfter(calls, 1)
      BY <1>1, <2>3, <3>1, <3>2 DEF WakeInv, Holds, Covers
    <3>4. PICK j \in 1 .. Len(calls) : j > 1 /\ calls[j].kind \in Wakers
      BY <3>3 DEF ComesAfter
    <3>5. j - 1 \in 1 .. Len(Tail(calls)) /\ Tail(calls)[j - 1] = calls[j]
      BY <1>1, <3>4
    <3>. QED
      BY <3>4, <3>5 DEF Comes
  <2>4. NoLostWakeup'
    BY <2>1, <2>3 DEF NoLostWakeup, PumpComes, Comes, Runnable
  <2>. QED
    BY <2>2, <2>4 DEF WakeInv
<1>3. ASSUME NEW t \in Tasks, PumpStarts(t)
      PROVE  WakeInv'
  <2>1. CASE Cardinality(running') < MaxConcurrent
    <3>1. calls' = Append(Tail(calls), Listing) /\ pumping' = pumping
      BY <1>3, <2>1 DEF PumpStarts
    <3>2. /\ Len(calls') = Len(Tail(calls)) + 1 /\ Len(Tail(calls)) \in Nat
          /\ \A i \in 1 .. Len(Tail(calls)) : calls'[i] = Tail(calls)[i]
          /\ calls'[Len(Tail(calls)) + 1] = Listing
      BY <1>1, <3>1
    <3>3. Listing.kind = "pump"
      BY DEF Listing
    <3>4. HasPump(calls') /\ Comes(calls')
      BY <3>2, <3>3 DEF HasPump, Comes, Wakers
    <3>5. ASSUME NEW u \in Tasks, rows'[u].st = "queued"
          PROVE  Listing.rows[u].st = "queued"
      BY <3>5 DEF Listing, Listed
    <3>6. Covers(calls', rows')
      BY <1>1, <3>2, <3>5 DEF Covers, NoPump
    <3>. QED
      BY <3>1, <3>4, <3>6
      DEF WakeInv, Holds, NoLostWakeup, PumpComes, HasPump, Covers, Comes,
          ComesAfter
  <2>2. CASE ~(Cardinality(running') < MaxConcurrent)
    <3>1. calls' = Tail(calls) /\ pumping' = FALSE
      BY <1>3, <2>2 DEF PumpStarts
    <3>2. Holds(calls)'
      BY <1>1, <3>1 DEF Holds, Covers, NoPump, HasPump
    <3>3. ~Idle'
      BY <2>2 DEF Idle
    <3>. QED
      BY <3>2, <3>3 DEF WakeInv, NoLostWakeup
  <2>. QED
    BY <2>1, <2>2
<1>. QED
  BY <1>2, <1>3 DEF PumpStep

\* The calls left when a call is answered that is not the pump's.
LEMMA AnsweredHolds ==
  ASSUME TypeOK, SlotInv, WakeInv, calls # <<>>, Head(calls).kind # "pump"
  PROVE  /\ Tail(calls) \in Seq(Call)
         /\ Holds(Tail(calls))
         /\ Guarded(Tail(calls))
         /\ Head(calls).kind \notin Wakers /\ PumpComes => Comes(Tail(calls))
BY HeadTail, TailHolds, TailGuarded, TailComes DEF TypeOK, SlotInv, WakeInv

\* The state of a task that moved.
LEMMA MovedSt ==
  ASSUME NEW task, NEW next
  PROVE  Moved(task, next).st = next
BY DEF Moved

\* Answers that requeue, start or clear a download: they pump or leave a waker.
LEMMA TaskAnswerWakes ==
  ASSUME TypeInv, SlotInv, WakeInv,
         RereadAnswered \/ RequeuedAnswered \/ EnqueueAnswered
           \/ RetryAnswered \/ RetriedAnswered
  PROVE  WakeInv'
<1>1. /\ calls # <<>> /\ pumping \in BOOLEAN /\ TypeOK
      /\ Head(calls).kind \in {"reread", "requeued", "enqueued", "retry",
                               "retried"}
  BY DEF RereadAnswered, RequeuedAnswered, EnqueueAnswered, RetryAnswered,
         RetriedAnswered, Answered, TypeInv, TypeOK
<1>2. /\ Tail(calls) \in Seq(Call)
      /\ Holds(Tail(calls)) /\ Guarded(Tail(calls))
      /\ Head(calls).kind \notin Wakers /\ PumpComes => Comes(Tail(calls))
  BY <1>1, AnsweredHolds
<1> DEFINE t   == Head(calls).id
           row == Head(calls).row
<1>3. CASE RereadAnswered
  <2>1. CASE row.st = "failed" /\ CanMove(row, "queued")
    <3>1. /\ calls' = Append(Tail(calls), TaskCallOf("requeued", t, Absent, {}))
          /\ UNCHANGED pumping
      BY <1>3, <2>1 DEF RereadAnswered
    <3>2. TaskCallOf("requeued", t, Absent, {}).kind \in Wakers \ {"pump"}
      BY DEF TaskCallOf, Wakers
    <3>. QED
      BY <1>2, <3>1, <3>2, WakerWakes
  <2>2. CASE ~(row.st = "failed" /\ CanMove(row, "queued"))
    <3>1. Pump(Tail(calls)) /\ NoneQueued
      BY <1>3, <2>2 DEF RereadAnswered, Finish, NoneQueued
    <3>. QED
      BY <1>1, <1>2, <3>1, PumpWakes
  <2>. QED
    BY <2>1, <2>2
<1>4. CASE RequeuedAnswered \/ EnqueueAnswered \/ RetriedAnswered
  <2>1. Pump(Tail(calls)) /\ NoneQueued
    BY <1>4 DEF RequeuedAnswered, EnqueueAnswered, RetriedAnswered, Finish,
                store, NoneQueued
  <2>. QED
    BY <1>1, <1>2, <2>1, PumpWakes
<1>5. CASE RetryAnswered
  <2>1. CASE CanMove(row, "queued")
    <3>1. /\ calls' = Append(Tail(calls), TaskCallOf("retried", t, Absent, {}))
          /\ UNCHANGED pumping
      BY <1>5, <2>1 DEF RetryAnswered
    <3>2. TaskCallOf("retried", t, Absent, {}).kind \in Wakers \ {"pump"}
      BY DEF TaskCallOf, Wakers
    <3>. QED
      BY <1>2, <3>1, <3>2, WakerWakes
  <2>2. CASE ~CanMove(row, "queued")
    <3>1. /\ calls' = Tail(calls) /\ NoneQueued
          /\ UNCHANGED <<running, pumping, disposed, woken, stopRequested>>
      BY <1>5, <2>2 DEF RetryAnswered, flags, history, NoneQueued
    <3>2. Head(calls).kind \notin Wakers
      BY <1>5 DEF RetryAnswered, Answered, Wakers
    <3>. QED
      BY <1>2, <3>1, <3>2, QuietWakes
  <2>. QED
    BY <2>1, <2>2
<1>. QED
  BY <1>3, <1>4, <1>5

\* Answers to a pause, a cancel or a resume.
LEMMA HoldAnswerWakes ==
  ASSUME TypeInv, SlotInv, WakeInv,
         StopAnswered("pause") \/ StopAnswered("cancel") \/ ResumeAnswered
  PROVE  WakeInv'
<1>1. /\ calls # <<>> /\ pumping \in BOOLEAN /\ TypeOK
      /\ Head(calls).kind \notin Wakers
      /\ Head(calls).rest \in SUBSET Tasks
  BY AnsweredTask
  DEF StopAnswered, ResumeAnswered, Answered, Wakers, TypeInv, TypeOK
<1> DEFINE rest == Head(calls).rest
<1>2. ASSUME NEW why \in {"pause", "cancel"}, StopAnswered(why)
      PROVE  WakeInv'
  <2> DEFINE t    == Head(calls).id
             row  == Head(calls).row
             next == Target(why)
             cs   == GoOn("pauseAll", rest)
  <2>1. /\ cs \in Seq(Call) /\ Holds(cs) /\ (PumpComes => Comes(cs))
    BY <1>1, GoOnHolds DEF WakeInv
  <2>2. /\ calls' = cs
        /\ UNCHANGED <<running, pumping, disposed, woken>>
        /\ stopRequested \subseteq stopRequested'
    BY <1>2 DEF StopAnswered, history
  <2>3. \/ rows' = rows
        \/ rows' = [rows EXCEPT ![t] = Moved(row, next)]
    BY <1>2 DEF StopAnswered
  <2>4. Moved(row, next).st # "queued"
    BY MovedSt DEF Target
  <2>5. NoneQueued
    BY <2>3, <2>4 DEF NoneQueued, TypeInv, TypeOK
  <2>. QED
    BY <2>1, <2>2, <2>5, QuietWakes
<1>3. CASE ResumeAnswered
  <2> DEFINE cs == GoOn("resumeAll", rest)
  <2>1. /\ cs \in Seq(Call) /\ Holds(cs) /\ (PumpComes => Comes(cs))
        /\ Guarded(cs)
    BY <1>1, GoOnHolds, GoOnGuarded DEF WakeInv
  <2>2. NoneQueued
    BY <1>3 DEF ResumeAnswered, store, NoneQueued
  <2>3. CASE Head(calls).row.st \in {"paused", "queued"}
    BY <1>1, <1>3, <2>1, <2>2, <2>3, PumpWakes DEF ResumeAnswered
  <2>4. CASE Head(calls).row.st \notin {"paused", "queued"}
    <3>1. calls' = cs
          /\ UNCHANGED <<running, pumping, disposed, woken, stopRequested>>
      BY <1>3, <2>4 DEF ResumeAnswered, flags, history
    <3>. QED
      BY <2>1, <2>2, <3>1, QuietWakes
  <2>. QED
    BY <2>3, <2>4
<1>. QED
  BY <1>2, <1>3

\* Bulk operations.
LEMMA BulkWakes ==
  ASSUME TypeInv, SlotInv, WakeInv, NEW t \in Tasks,
         PauseNext(t) \/ ResumeNext(t)
  PROVE  WakeInv'
<1> DEFINE rest == Head(calls).todo \ {t}
<1>1. /\ calls # <<>> /\ TypeOK /\ Head(calls).kind \notin Wakers
      /\ rest \in SUBSET Tasks
  BY HeadTail, CallKinds
  DEF PauseNext, ResumeNext, Answered, Wakers, TypeInv, TypeOK, BulkCall
<1>2. /\ UNCHANGED <<running, pumping, disposed, woken, stopRequested>>
      /\ NoneQueued
  BY DEF PauseNext, ResumeNext, flags, history, store, NoneQueued
<1>3. /\ Tail(calls) \in Seq(Call) /\ Holds(Tail(calls))
      /\ PumpComes => Comes(Tail(calls))
  BY <1>1, AnsweredHolds DEF Wakers
<1>4. ASSUME NEW STATE call, call.kind # "pump",
             calls' = Append(Tail(calls), call)
      PROVE  WakeInv'
  BY <1>2, <1>3, <1>4, AwaitWakes
<1>5. CASE calls' = GoOn("pauseAll", rest)
  BY <1>1, <1>2, <1>5, GoOnHolds, QuietWakes DEF WakeInv
<1>6. \/ calls' = GoOn("pauseAll", rest)
      \/ calls' = Append(Tail(calls), TaskCallOf("pause", t, rows[t], rest))
      \/ calls' = Append(Tail(calls), TaskCallOf("resume", t, rows[t], rest))
  BY DEF PauseNext, ResumeNext
<1>. QED
  BY <1>4, <1>5, <1>6 DEF TaskCallOf

\* A restore: its own call is a waker until it pumps.
LEMMA RestoreWakes ==
  ASSUME TypeInv, SlotInv, WakeInv, RestoreStep
  PROVE  WakeInv'
<1>1. /\ calls # <<>> /\ pumping \in BOOLEAN /\ TypeOK
      /\ Head(calls).kind = "restore" /\ Head(calls) \in RestoreCall
  BY HeadTail, CallKinds
  DEF RestoreStep, RestoreEnds, RestoreNext, Answered, TypeInv, TypeOK
<1>2. /\ Tail(calls) \in Seq(Call)
      /\ Holds(Tail(calls)) /\ Guarded(Tail(calls))
  BY <1>1, AnsweredHolds
<1>3. CASE RestoreEnds
  <2>1. Pump(Tail(calls)) /\ NoneQueued
    BY <1>3 DEF RestoreEnds, store, NoneQueued
  <2>. QED
    BY <1>1, <1>2, <2>1, PumpWakes
<1>4. ASSUME NEW t \in Tasks, RestoreNext(t)
      PROVE  WakeInv'
  <2> DEFINE left == [Head(calls) EXCEPT !.todo = @ \ {t}, !.rows[t] = Absent]
  <2>1. calls' = Append(Tail(calls), left) /\ UNCHANGED pumping
    BY <1>4 DEF RestoreNext
  <2>2. left.kind \in Wakers \ {"pump"}
    BY <1>1 DEF RestoreCall, Wakers
  <2>. QED
    BY <1>2, <2>1, <2>2, WakerWakes
<1>. QED
  BY <1>3, <1>4 DEF RestoreStep

\* Operations of the user: only an enqueue queues, and its answer pumps.
LEMMA UserWakes ==
  ASSUME TypeInv, SlotInv, WakeInv, UserStep
  PROVE  WakeInv'
<1>1. calls \in Seq(Call) /\ Holds(calls) /\ (PumpComes => Comes(calls))
  BY DEF TypeInv, TypeOK, WakeInv, PumpComes, Comes
<1>2. ASSUME NEW STATE call, AwaitOnly(call), call.kind # "pump", UNCHANGED rows
      PROVE  WakeInv'
  <2>1. /\ UNCHANGED <<running, pumping, disposed, woken, stopRequested>>
        /\ calls' = Append(calls, call) /\ NoneQueued
    BY <1>2 DEF AwaitOnly, flags, history, NoneQueued
  <2>. QED
    BY <1>1, <1>2, <2>1, AwaitWakes
<1>3. ASSUME NEW t \in Tasks, Enqueue(t)
      PROVE  WakeInv'
  <2>1. calls' = Append(calls, TaskCallOf("enqueued", t, Absent, {}))
        /\ UNCHANGED pumping
    BY <1>3 DEF Enqueue, AwaitOnly
  <2>2. TaskCallOf("enqueued", t, Absent, {}).kind \in Wakers \ {"pump"}
    BY DEF TaskCallOf, Wakers
  <2>. QED
    BY <1>1, <2>1, <2>2, WakerWakes
<1>4. ASSUME NEW t \in Tasks, Resume(t) \/ Retry(t)
      PROVE  WakeInv'
  BY <1>2, <1>4 DEF Resume, Retry, store, TaskCallOf
<1>5. ASSUME NEW t \in Tasks, NEW why \in {"pause", "cancel"}, StopTask(t, why)
      PROVE  WakeInv'
  <2> DEFINE call == TaskCallOf(why, t, rows[t], {})
  <2>1. /\ UNCHANGED <<running, pumping, disposed, woken, stopRequested>>
        /\ NoneQueued
    BY <1>5 DEF StopTask, store, flags, history, NoneQueued
  <2>2. calls' = calls \/ calls' = Append(calls, call)
    BY <1>5 DEF StopTask
  <2>3. call.kind # "pump"
    BY DEF TaskCallOf
  <2>4. CASE calls' = calls
    BY <1>1, <2>1, <2>4, QuietWakes
  <2>5. CASE calls' = Append(calls, call)
    BY <1>1, <2>1, <2>3, <2>5, AwaitWakes
  <2>. QED
    BY <2>2, <2>4, <2>5
<1>6. ASSUME NEW kind \in {"pauseAll", "resumeAll"}, BulkStart(kind)
      PROVE  WakeInv'
  BY <1>2, <1>6 DEF BulkStart, store
<1>7. CASE RestoreQueue
  BY <1>2, <1>7 DEF RestoreQueue, store
<1>8. CASE ClearFinished
  <2>1. /\ UNCHANGED <<running, pumping, disposed, woken, stopRequested, calls>>
        /\ NoneQueued
    BY <1>8 DEF ClearFinished, flags, history, NoneQueued, Absent
  <2>. QED
    BY <1>1, <2>1, QuietWakes
<1>. QED
  BY <1>3, <1>4, <1>5, <1>6, <1>7, <1>8 DEF UserStep, TaskStep

\* The engine saves nothing as queued.
LEMMA RunQueuesNone ==
  ASSUME TypeInv, NEW t \in Tasks, RunStep(t)
  PROVE  NoneQueued
<1>1. CASE UNCHANGED rows
  BY <1>1 DEF NoneQueued
<1>2. ASSUME NEW task, rows' = [rows EXCEPT ![t] = task], task.st # "queued"
      PROVE  NoneQueued
  BY <1>2 DEF NoneQueued, TypeInv, TypeOK
<1>3. ASSUME NEW next, next # "queued",
             rows' = [rows EXCEPT ![t] = Moved(eng[t].task, next)]
      PROVE  NoneQueued
  BY <1>3, <1>2, MovedSt
<1>4. ASSUME Fail(t)
      PROVE  NoneQueued
  BY <1>4, <1>3 DEF Fail, Emit, EndsAs
<1>5. CASE Opens(t)
  <2>1. eng[t].task.st # "queued"
    BY <1>5 DEF Opens, Active, ActivePhases, TypeInv, EngineWorks
  <2>. QED
    BY <1>5, <1>2, <1>3, <2>1 DEF Opens, Emit
<1>6. CASE Progresses(t)
  <2>1. eng[t].task.st # "queued"
    BY <1>6 DEF Progresses, Active, ActivePhases, TypeInv, EngineWorks
  <2>. QED
    BY <1>6, <1>2, <2>1 DEF Progresses
<1>7. CASE OpenFails(t) \/ Breaks(t) \/ OvershotFails(t) \/ IntegrityFails(t)
  BY <1>7, <1>4 DEF OpenFails, Breaks, OvershotFails, IntegrityFails
<1>8. CASE Completes(t)
  BY <1>8, <1>2, MovedSt DEF Completes
<1>9. CASE Pauses(t) \/ Cancels(t) \/ Verifies(t)
  BY <1>9, <1>3 DEF Pauses, Cancels, Verifies, EndsAs
<1>10. CASE Overshoots(t) \/ DropsPart(t) \/ Throws(t) \/ BackoffElapses(t)
  BY <1>10, <1>1 DEF Overshoots, DropsPart, Throws, BackoffElapses
<1>. QED
  BY <1>5, <1>6, <1>7, <1>8, <1>9, <1>10 DEF RunStep, EngineStep

\* Steps of a run: every one that frees a slot pumps.
LEMMA RunWakes ==
  ASSUME TypeInv, SlotInv, WakeInv, NEW t \in Tasks, RunStep(t)
  PROVE  WakeInv'
<1>1. /\ calls \in Seq(Call) /\ Holds(calls) /\ (PumpComes => Comes(calls))
      /\ Guarded(calls) /\ pumping \in BOOLEAN /\ NoneQueued
  BY RunQueuesNone DEF TypeInv, TypeOK, WakeInv, PumpComes, Comes, SlotInv
<1>2. CASE EngineOnly
  <2>1. UNCHANGED <<running, pumping, disposed, woken, stopRequested, calls>>
    BY <1>2 DEF EngineOnly, flags, history
  <2>. QED
    BY <1>1, <2>1, QuietWakes
<1>3. CASE Finish(t, calls)
  BY <1>1, <1>3, PumpWakes DEF Finish
<1>4. CASE BackoffElapses(t)
  <2> DEFINE call == TaskCallOf("reread", t, rows[t], {})
  <2>1. CASE Finish(t, calls)
    BY <1>3, <2>1
  <2>2. CASE calls' = Append(calls, call)
             /\ UNCHANGED <<running, flags, pumping, disposed, woken>>
    <3>1. call.kind # "pump"
      BY DEF TaskCallOf
    <3>2. UNCHANGED <<running, pumping, disposed, woken, stopRequested>>
      BY <2>2 DEF flags
    <3>. QED
      BY <1>1, <2>2, <3>1, <3>2, AwaitWakes
  <2>. QED
    BY <1>4, <2>1, <2>2 DEF BackoffElapses
<1>5. EngineStep(t) \/ Progresses(t) \/ Throws(t)
        => EngineOnly \/ Finish(t, calls)
  BY DEF EngineStep, Opens, OpenFails, Completes, Breaks, Overshoots,
         OvershotFails, Pauses, DropsPart, Cancels, Verifies, IntegrityFails,
         Fail, EndsAs, Progresses, Throws
<1>. QED
  BY <1>2, <1>3, <1>4, <1>5 DEF RunStep

\* Disposal and death: nothing is owed any more.
LEMMA LifeWakes ==
  ASSUME WakeInv, Dispose \/ Crash
  PROVE  WakeInv'
<1>1. CASE Dispose
  <2>1. UNCHANGED <<rows, calls, pumping>> /\ disposed'
    BY <1>1 DEF Dispose, store
  <2>. QED
    BY <2>1 DEF WakeInv, Holds, NoLostWakeup, Idle, HasPump, Covers, ComesAfter
<1>2. CASE Crash
  <2>1. calls' = <<>> /\ pumping' = FALSE /\ woken' = FALSE
    BY <1>2 DEF Crash
  <2>. QED
    BY <2>1 DEF WakeInv, Holds, NoLostWakeup, Idle, Covers
<1>. QED
  BY <1>1, <1>2

\* No queued download is left waiting beside a free slot without a pump on its
\* way, for any number of downloads, slots and calls in flight.
THEOREM WakeupsKept == Spec => []NoLostWakeup
<1>1. Init => WakeInv
  BY DEF Init, WakeInv, Holds, NoLostWakeup, Covers, Absent
<1>2. TypeInv /\ TypeInv' /\ SlotInv /\ WakeInv /\ [Next]_vars => WakeInv'
  <2> SUFFICES ASSUME TypeInv, TypeInv', SlotInv, WakeInv, [Next]_vars
               PROVE  WakeInv'
    OBVIOUS
  <2>1. CASE Answer
    <3>1. CASE BulkStep
      BY <3>1, BulkWakes DEF BulkStep
    <3>2. CASE PumpStep
      BY <3>2, PumpStepWakes DEF TypeInv
    <3>. QED
      BY <2>1, <3>1, <3>2, TaskAnswerWakes, HoldAnswerWakes, RestoreWakes
      DEF Answer
  <2>2. CASE UNCHANGED vars
    BY <2>2
    DEF vars, WakeInv, NoLostWakeup, Idle, Runnable, PumpComes, Holds, HasPump,
        Covers, ComesAfter
  <2>. QED
    BY <2>1, <2>2, UserWakes, RunWakes, LifeWakes DEF Next, Step
<1>3. WakeInv => NoLostWakeup
  BY DEF WakeInv
<1>. QED
  BY <1>1, <1>2, <1>3, SlotInvariant, TypeInvariant, PTL DEF Spec

------------------------------------------------------------------------------
(* Permissions to resume.  A resume takes the pause back and permits the run *)
(* at once; the end of the run withdraws the permission before it parks.     *)

PermitInv == resumeRequested \cap parked = {}

\* A step of a run gives no permission, and parks only what it takes it from.
LEMMA RunPermits ==
  ASSUME PermitInv, NEW t \in Tasks, RunStep(t)
  PROVE  PermitInv'
<1>1. CASE EngineOnly
  BY <1>1 DEF EngineOnly, flags, history, PermitInv
<1>2. CASE Finish(t, calls) /\ parked' \in {parked, parked \cup {t}}
  BY <1>2 DEF Finish, PermitInv
<1>3. CASE BackoffElapses(t)
  BY <1>3, <1>2 DEF BackoffElapses, flags, PermitInv
<1>4. EngineStep(t) \/ Progresses(t) \/ Throws(t)
        => \/ EngineOnly
           \/ Finish(t, calls) /\ parked' \in {parked, parked \cup {t}}
  BY DEF EngineStep, Opens, OpenFails, Completes, Breaks, Overshoots,
         OvershotFails, Pauses, DropsPart, Cancels, Verifies, IntegrityFails,
         Fail, EndsAs, Progresses, Throws
<1>. QED
  BY <1>1, <1>2, <1>3, <1>4 DEF RunStep

\* Rewriting a stale row touches nothing but the table and the calls.
LEMMA RestoreNextLeaves ==
  ASSUME NEW t \in Tasks, RestoreNext(t)
  PROVE  UNCHANGED <<running, resumeRequested, eng, parked>>
<1>1. UNCHANGED <<before, running, flags, pumping, disposed, eng, history>>
  BY Zenon DEF RestoreNext
<1>. QED
  BY <1>1 DEF flags, history

\* Of the other steps only the answer to a resume permits anything.
LEMMA OthersPermit ==
  ASSUME PermitInv, Answer \/ UserStep \/ Dispose \/ Crash
  PROVE  PermitInv'
<1>1. CASE UNCHANGED <<resumeRequested, parked>>
  BY <1>1 DEF PermitInv
<1>2. CASE RereadAnswered \/ RequeuedAnswered
  BY <1>2 DEF RereadAnswered, RequeuedAnswered, Finish, flags, history, PermitInv
<1>3. CASE ResumeAnswered
  BY <1>3 DEF ResumeAnswered, flags, history, PermitInv
<1>4. CASE Crash
  BY <1>4 DEF Crash, PermitInv
<1>5. PumpStep \/ EnqueueAnswered \/ RetryAnswered \/ RetriedAnswered
        => UNCHANGED <<resumeRequested, parked>>
  BY DEF PumpStep, PumpEnds, PumpStarts, EnqueueAnswered, RetryAnswered,
         RetriedAnswered, flags, history
<1>6. BulkStep => UNCHANGED <<resumeRequested, parked>>
  BY DEF BulkStep, PauseNext, ResumeNext, flags, history
<1>7. RestoreStep => UNCHANGED <<resumeRequested, parked>>
  BY RestoreNextLeaves DEF RestoreStep, RestoreEnds, flags
<1>8. StopAnswered("pause") \/ StopAnswered("cancel")
        => UNCHANGED <<resumeRequested, parked>>
  BY DEF StopAnswered, history
<1>9. UserStep \/ Dispose => UNCHANGED <<resumeRequested, parked>>
  BY DEF UserStep, TaskStep, Enqueue, Resume, Retry, StopTask, BulkStart,
         ClearFinished, RestoreQueue, AwaitOnly, Dispose, flags, history
<1>. QED
  BY <1>1, <1>2, <1>3, <1>4, <1>5, <1>6, <1>7, <1>8, <1>9 DEF Answer

\* A download whose run the user paused is taken up again only after the user
\* resumed it (download_manager.dart:125-143, 265-280).
THEOREM PausedStaysPaused == Spec => PausedUntilResumed
<1>1. Init => PermitInv
  BY DEF Init, PermitInv
<1>2. PermitInv /\ [Next]_vars => PermitInv'
  <2>1. UNCHANGED vars /\ PermitInv => PermitInv'
    BY DEF vars, PermitInv
  <2>. QED
    BY <2>1, RunPermits, OthersPermit DEF Next, Step
<1>3. ASSUME TypeInv, PermitInv, [Next]_vars, NEW t \in Tasks,
             t \notin running, t \in running', rows'[t].st = "downloading"
      PROVE  t \notin parked
  <2>1. PICK u \in Tasks : PumpStarts(u)
    <3>1. UserStep \/ Dispose \/ UNCHANGED vars \/ Crash => running' \subseteq running
      BY DEF UserStep, TaskStep, Enqueue, Resume, Retry, StopTask, BulkStart,
             ClearFinished, RestoreQueue, AwaitOnly, Dispose, vars, Crash
    <3>2. (\E u \in Tasks : RunStep(u)) => running' \subseteq running
      BY DEF RunStep, EngineStep, Opens, OpenFails, Completes, Breaks,
             Overshoots, OvershotFails, Pauses, DropsPart, Cancels, Verifies,
             IntegrityFails, Fail, EndsAs, Progresses, Throws, BackoffElapses,
             EngineOnly, Finish
    <3>3. BulkStep \/ RestoreStep => UNCHANGED running
      <4>1. BulkStep => UNCHANGED running
        BY DEF BulkStep, PauseNext, ResumeNext
      <4>2. RestoreStep => UNCHANGED running
        BY RestoreNextLeaves DEF RestoreStep, RestoreEnds
      <4>. QED
        BY <4>1, <4>2
    <3>4. EnqueueAnswered \/ ResumeAnswered \/ RetryAnswered \/ RetriedAnswered
            \/ StopAnswered("pause") \/ StopAnswered("cancel")
          => UNCHANGED running
      BY DEF EnqueueAnswered, ResumeAnswered, RetryAnswered, RetriedAnswered,
             StopAnswered
    <3>5. PumpEnds \/ RereadAnswered \/ RequeuedAnswered => running' \subseteq running
      BY DEF PumpEnds, RereadAnswered, RequeuedAnswered, Finish
    <3>6. Answer => \/ running' \subseteq running
                    \/ \E u \in Tasks : PumpStarts(u)
      BY <3>3, <3>4, <3>5 DEF Answer, PumpStep
    <3>. QED
      BY <1>3, <3>1, <3>2, <3>6 DEF Next, Step
  <2> DEFINE row == Head(calls).rows[t]
  <2>2. u = t /\ rows'[t] = Started(row) /\ Runnable(t, Head(calls).rows)
    BY <1>3, <2>1 DEF PumpStarts, NextRunnable, TypeInv, TypeOK
  <2>3. row.st = "paused"
    BY <1>3, <2>2 DEF Started, Moved
  <2>. QED
    BY <1>3, <2>2, <2>3 DEF Runnable, PermitInv
<1>4. TypeInv /\ PermitInv /\ [Next]_vars =>
        \A t \in Tasks :
          (t \notin running /\ t \in running' /\ rows'[t].st = "downloading")
            => t \notin parked
  BY <1>3
<1>5. TypeInv /\ PermitInv /\ [Next]_vars =>
        [\A t \in Tasks :
           (t \notin running /\ t \in running' /\ rows'[t].st = "downloading")
             => t \notin parked]_vars
  BY <1>4
<1>. QED
  BY <1>1, <1>2, <1>5, TypeInvariant, PTL DEF Spec, PausedUntilResumed

------------------------------------------------------------------------------
(* Rows in flight.  Only an attempt puts a row in flight, and only of a task *)
(* that is running; it leaves it at rest when it ends, and from the backoff  *)
(* until the task is requeued nobody moves it.                               *)

RunKinds == {"reread", "requeued"}

\* Of the calls in cs, those of a run are of one that is being requeued, and
\* the only one.
OneEach(cs) ==
  \A i, j \in 1 .. Len(cs) :
    cs[i].kind \in RunKinds /\ cs[j].kind \in RunKinds /\ cs[i].id = cs[j].id => i = j

Requeueing(cs, t) == \E i \in 1 .. Len(cs) : cs[i].kind \in RunKinds /\ cs[i].id = t

RunCalls(cs, attempts) ==
  /\ OneEach(cs)
  /\ \A t \in Tasks : Requeueing(cs, t) => attempts[t].phase = "requeueing"

RowsRest ==
  \A t \in Tasks :
    /\ eng[t].phase # "off" => t \in running
    /\ eng[t].phase \in {"backoff", "requeueing"} => rows[t].st \notin InFlight

FlightInv == RowsRest /\ RunCalls(calls, eng)

\* What the action property says of a step.
NoOrphan == \A t \in Tasks : Orphan(t)' => Orphan(t) \/ Throws(t) \/ Crash

\* No row is put in flight.
NoneTakesOff ==
  \A t \in Tasks : rows'[t].st \in InFlight => rows[t].st \in InFlight

PhasesStay == \A t \in Tasks : eng'[t].phase = eng[t].phase

\* An answered call is one less,
LEMMA TailCalls ==
  ASSUME calls \in Seq(Call), calls # <<>>, RunCalls(calls, eng)
  PROVE  /\ RunCalls(Tail(calls), eng)
         /\ Head(calls).kind \in RunKinds => ~Requeueing(Tail(calls), Head(calls).id)
         /\ \A t \in Tasks : Requeueing(Tail(calls), t) => Requeueing(calls, t)
<1> DEFINE tail == Tail(calls)
<1>1. /\ Len(tail) = Len(calls) - 1 /\ Len(calls) \in Nat \ {0}
      /\ \A i \in 1 .. Len(tail) : tail[i] = calls[i + 1]
      /\ Head(calls) = calls[1]
  OBVIOUS
<1> HIDE DEF tail
<1>2. OneEach(tail)
  BY <1>1 DEF RunCalls, OneEach
<1>3. \A t \in Tasks : Requeueing(tail, t) => Requeueing(calls, t)
  BY <1>1 DEF Requeueing
<1>4. ASSUME Head(calls).kind \in RunKinds
      PROVE  ~Requeueing(tail, Head(calls).id)
  <2>1. SUFFICES ASSUME NEW i \in 1 .. Len(tail), tail[i].kind \in RunKinds,
                        tail[i].id = Head(calls).id
                 PROVE  FALSE
    BY DEF Requeueing
  <2>2. i + 1 \in 1 .. Len(calls) /\ 1 \in 1 .. Len(calls) /\ calls[i + 1] = tail[i]
    BY <1>1
  <2>3. i + 1 = 1
    BY <1>1, <1>4, <2>1, <2>2 DEF RunCalls, OneEach
  <2>. QED
    BY <2>3
<1>. QED
  BY <1>2, <1>3, <1>4 DEF RunCalls, tail

\* and an awaited one that is not of a run changes nothing.
LEMMA AppendCalls ==
  ASSUME NEW STATE cs, cs \in Seq(Call), NEW STATE attempts, RunCalls(cs, attempts),
         NEW call, call.kind \notin RunKinds
  PROVE  RunCalls(Append(cs, call), attempts)
<1> DEFINE more == Append(cs, call)
<1>1. /\ Len(more) = Len(cs) + 1 /\ Len(cs) \in Nat
      /\ \A i \in 1 .. Len(cs) : more[i] = cs[i]
      /\ more[Len(cs) + 1] = call
  OBVIOUS
<1> HIDE DEF more
<1>2. \A i \in 1 .. Len(more) : more[i].kind \in RunKinds => i \in 1 .. Len(cs) /\ more[i] = cs[i]
  BY <1>1
<1>3. OneEach(more)
  BY <1>2 DEF RunCalls, OneEach
<1>4. \A t \in Tasks : Requeueing(more, t) => Requeueing(cs, t)
  BY <1>2 DEF Requeueing
<1>. QED
  BY <1>3, <1>4 DEF RunCalls, more

\* The call of a run whose attempt is being requeued may follow.
LEMMA AppendRunCall ==
  ASSUME NEW STATE cs, cs \in Seq(Call), NEW STATE attempts, NEW later,
         RunCalls(cs, attempts), NEW call, NEW t \in Tasks, call.id = t,
         ~Requeueing(cs, t), later[t].phase = "requeueing",
         \A u \in Tasks \ {t} : later[u].phase = attempts[u].phase
  PROVE  RunCalls(Append(cs, call), later)
<1> DEFINE more == Append(cs, call)
<1>1. /\ Len(more) = Len(cs) + 1 /\ Len(cs) \in Nat
      /\ \A i \in 1 .. Len(cs) : more[i] = cs[i]
      /\ more[Len(cs) + 1] = call
  OBVIOUS
<1> HIDE DEF more
<1>2. \A i \in 1 .. Len(more) : \/ i \in 1 .. Len(cs) /\ more[i] = cs[i]
                                \/ i = Len(cs) + 1 /\ more[i] = call
  BY <1>1
<1>3. \A i \in 1 .. Len(cs) : cs[i].kind \in RunKinds => cs[i].id # t
  BY DEF Requeueing
<1>4. OneEach(more)
  BY <1>2, <1>3 DEF RunCalls, OneEach
<1>5. \A u \in Tasks : Requeueing(more, u) => u = t \/ Requeueing(cs, u)
  BY <1>2 DEF Requeueing
<1>. QED
  BY <1>4, <1>5 DEF RunCalls, more

\* A pump adds a listing at most.
LEMMA PumpCalls ==
  ASSUME NEW STATE cs, cs \in Seq(Call), NEW STATE attempts, RunCalls(cs, attempts), Pump(cs)
  PROVE  RunCalls(calls', attempts)
<1>1. Listing.kind \notin RunKinds
  BY DEF Listing, RunKinds
<1>2. calls' = cs \/ calls' = Append(cs, Listing)
  BY DEF Pump
<1>. QED
  BY <1>1, <1>2, AppendCalls

\* A step of a run moves one task: the attempt goes on, or it ends at rest.
LEMMA RunMoves ==
  ASSUME TypeOK, NEW t \in Tasks, EngineStep(t) \/ Progresses(t) \/ Throws(t)
  PROVE  /\ Active(t)
         /\ \A u \in Tasks \ {t} : rows'[u] = rows[u] /\ eng'[u] = eng[u]
         /\ \/ /\ EngineOnly
               /\ eng'[t].phase # "requeueing"
               /\ eng'[t].phase = "backoff" => rows'[t].st = "failed"
            \/ /\ Finish(t, calls)
               /\ eng'[t].phase = "off"
               /\ rows'[t].st \notin InFlight \/ Throws(t)
<1> DEFINE Goes == /\ EngineOnly
                   /\ eng'[t].phase # "requeueing"
                   /\ eng'[t].phase = "backoff" => rows'[t].st = "failed"
           Ends == /\ Finish(t, calls)
                   /\ eng'[t].phase = "off"
                   /\ rows'[t].st \notin InFlight \/ Throws(t)
           Alone == \A u \in Tasks \ {t} : rows'[u] = rows[u] /\ eng'[u] = eng[u]
<1>1. rows \in [Tasks -> Row] /\ eng \in [Tasks -> Attempt]
  BY DEF TypeOK
<1>2. ASSUME NEW next \in States, NEW phase \in ActivePhases \cup {"backoff"},
             Emit(t, next, phase), EngineOnly, phase = "backoff" => next = "failed"
      PROVE  Alone /\ Goes
  BY <1>1, <1>2, MovedSt DEF Emit, Attempt, ActivePhases
<1>3. ASSUME NEW next \in {"failed", "paused", "canceled", "done"}, EndsAs(t, next)
      PROVE  Alone /\ Ends
  <2>1. rows'[t] = Moved(eng[t].task, next) /\ eng'[t] = NoAttempt /\ Alone
    BY <1>1, <1>3 DEF EndsAs
  <2>. QED
    BY <1>3, <2>1, MovedSt DEF EndsAs, NoAttempt, InFlight
<1>4. ASSUME Fail(t)
      PROVE  Alone /\ (Goes \/ Ends)
  BY <1>2, <1>3, <1>4 DEF Fail, States
<1>5. CASE Opens(t)
  <2>1. CASE eng[t].task.st = "connecting"
    BY <1>2, <1>5, <2>1 DEF Opens, Active, ActivePhases, States
  <2>2. CASE eng[t].task.st # "connecting"
    BY <1>1, <1>5, <2>2 DEF Opens, Active, ActivePhases, Attempt
  <2>. QED
    BY <2>1, <2>2
<1>6. CASE Progresses(t)
  BY <1>1, <1>6 DEF Progresses, Active, ActivePhases
<1>7. CASE OpenFails(t) \/ Breaks(t) \/ OvershotFails(t) \/ IntegrityFails(t)
  BY <1>4, <1>7
  DEF OpenFails, Breaks, OvershotFails, IntegrityFails, Active, ActivePhases
<1>8. CASE Completes(t) \/ Overshoots(t) \/ DropsPart(t)
  BY <1>1, <1>8 DEF Completes, Overshoots, DropsPart, Active, ActivePhases, Attempt
<1>9. CASE Pauses(t) \/ Cancels(t) \/ Verifies(t)
  BY <1>3, <1>9 DEF Pauses, Cancels, Verifies, Active, ActivePhases
<1>10. CASE Throws(t)
  BY <1>1, <1>10 DEF Throws, NoAttempt
<1>. QED
  BY <1>5, <1>6, <1>7, <1>8, <1>9, <1>10 DEF EngineStep

\* A run keeps the invariant and orphans nothing unless it throws.
LEMMA RunFlight ==
  ASSUME TypeOK, TypeOK', FlightInv, NEW t \in Tasks, RunStep(t)
  PROVE  FlightInv' /\ NoOrphan
<1>1. /\ calls \in Seq(Call) /\ RunCalls(calls, eng) /\ running \in SUBSET Tasks
      /\ eng \in [Tasks -> Attempt]
      /\ \A u \in Tasks :
           /\ eng[u].phase # "off" => u \in running
           /\ eng[u].phase \in {"backoff", "requeueing"} => rows[u].st \notin InFlight
  BY DEF FlightInv, RowsRest, TypeOK
<1>2. CASE EngineStep(t) \/ Progresses(t) \/ Throws(t)
  <2>1. /\ eng[t].phase \in ActivePhases
        /\ \A u \in Tasks \ {t} : rows'[u] = rows[u] /\ eng'[u] = eng[u]
    BY <1>2, RunMoves DEF Active
  <2>2. RunCalls(calls, eng')
    BY <1>1, <2>1 DEF RunCalls, ActivePhases
  <2>3. t \in running
    BY <1>1, <2>1 DEF ActivePhases
  <2>4. CASE /\ EngineOnly
             /\ eng'[t].phase # "requeueing"
             /\ eng'[t].phase = "backoff" => rows'[t].st = "failed"
    <3>1. running' = running /\ calls' = calls
      BY <2>4 DEF EngineOnly
    <3>2. RowsRest'
      BY <1>1, <2>1, <2>3, <2>4, <3>1 DEF RowsRest, InFlight
    <3>3. NoOrphan
      BY <2>1, <2>3, <3>1 DEF NoOrphan, Orphan
    <3>. QED
      BY <2>2, <3>1, <3>2, <3>3 DEF FlightInv, RunCalls, OneEach, Requeueing
  <2>5. CASE /\ Finish(t, calls)
             /\ eng'[t].phase = "off"
             /\ rows'[t].st \notin InFlight \/ Throws(t)
    <3>1. running' = running \ {t} /\ RunCalls(calls', eng') /\ Pump(calls)
      BY <1>1, <2>2, <2>5, PumpCalls DEF Finish
    <3>2. RowsRest'
      BY <1>1, <2>1, <2>5, <3>1 DEF RowsRest
    <3>3. NoOrphan
      BY <2>1, <2>5, <3>1 DEF NoOrphan, Orphan
    <3>. QED
      BY <3>1, <3>2, <3>3 DEF FlightInv, RunCalls, OneEach, Requeueing
  <2>. QED
    BY <1>2, <2>4, <2>5, RunMoves
<1>3. CASE BackoffElapses(t)
  <2>1. /\ eng[t].phase = "backoff" /\ rows' = rows
        /\ t \in running /\ rows[t].st \notin InFlight
        /\ ~Requeueing(calls, t)
    BY <1>1, <1>3 DEF BackoffElapses, RunCalls
  <2>2. CASE disposed \/ t \in stopRequested
    <3>1. eng' = [eng EXCEPT ![t] = NoAttempt] /\ Finish(t, calls)
      BY <1>3, <2>2 DEF BackoffElapses
    <3>2. /\ \A u \in Tasks \ {t} : eng'[u] = eng[u]
          /\ eng'[t].phase = "off" /\ running' = running \ {t}
      BY <1>1, <3>1 DEF NoAttempt, Finish
    <3>3. RunCalls(calls, eng')
      BY <1>1, <2>1, <3>2 DEF RunCalls
    <3>4. RunCalls(calls', eng')
      BY <1>1, <3>1, <3>3, PumpCalls DEF Finish
    <3>5. RowsRest'
      BY <1>1, <2>1, <3>2 DEF RowsRest
    <3>6. NoOrphan
      BY <2>1, <3>2 DEF NoOrphan, Orphan
    <3>. QED
      BY <3>4, <3>5, <3>6 DEF FlightInv, RunCalls, OneEach, Requeueing
  <2>3. CASE ~(disposed \/ t \in stopRequested)
    <3>1. /\ eng' = [eng EXCEPT ![t].phase = "requeueing"] /\ running' = running
          /\ calls' = Append(calls, TaskCallOf("reread", t, rows[t], {}))
      BY <1>3, <2>3 DEF BackoffElapses
    <3>2. /\ \A u \in Tasks \ {t} : eng'[u] = eng[u]
          /\ eng'[t].phase = "requeueing"
      BY <1>1, <3>1 DEF Attempt
    <3>3. TaskCallOf("reread", t, rows[t], {}).id = t
      BY DEF TaskCallOf
    <3>4. RunCalls(calls', eng')
      BY <1>1, <2>1, <3>1, <3>2, <3>3, AppendRunCall
    <3>5. RowsRest'
      BY <1>1, <2>1, <3>1, <3>2 DEF RowsRest
    <3>6. NoOrphan
      BY <2>1, <3>1 DEF NoOrphan, Orphan
    <3>. QED
      BY <3>4, <3>5, <3>6 DEF FlightInv, RunCalls, OneEach, Requeueing
  <2>. QED
    BY <2>2, <2>3
<1>. QED
  BY <1>2, <1>3 DEF RunStep

\* The manager's handlers put no row in flight and leave the attempts alone.
LEMMA ManagerFlight ==
  ASSUME TypeOK, FlightInv, running' = running, NoneTakesOff, PhasesStay,
         RunCalls(calls', eng)
  PROVE  FlightInv' /\ NoOrphan
<1>1. RunCalls(calls', eng')
  BY DEF PhasesStay, RunCalls
<1>2. RowsRest' /\ NoOrphan
  BY DEF FlightInv, RowsRest, PhasesStay, NoneTakesOff, NoOrphan, Orphan
<1>. QED
  BY <1>1, <1>2 DEF FlightInv, RunCalls, OneEach, Requeueing

\* A row that stays, or moves to a state of rest, is not put in flight.
LEMMA RowsStay ==
  ASSUME rows' = rows
  PROVE  NoneTakesOff
BY DEF NoneTakesOff

LEMMA RowMoves ==
  ASSUME TypeOK, NEW t \in Tasks, NEW row, row.st \notin InFlight,
         rows' = [rows EXCEPT ![t] = row]
  PROVE  NoneTakesOff
BY DEF NoneTakesOff, TypeOK

\* Telling the engine to stop starts or ends no attempt.
LEMMA StopStays ==
  ASSUME TypeOK, NEW t \in Tasks, NEW why, Stop(t, why)
  PROVE  PhasesStay
BY DEF Stop, PhasesStay, TypeOK, Attempt

\* What the user does.
LEMMA UserFlight ==
  ASSUME TypeOK, FlightInv, UserStep
  PROVE  FlightInv' /\ NoOrphan
<1>1. calls \in Seq(Call) /\ RunCalls(calls, eng)
  BY DEF TypeOK, FlightInv
<1>2. ASSUME NEW call, AwaitOnly(call), call.kind \notin RunKinds, NoneTakesOff
      PROVE  FlightInv' /\ NoOrphan
  <2>1. RunCalls(calls', eng)
    BY <1>1, <1>2, AppendCalls DEF AwaitOnly
  <2>2. running' = running /\ PhasesStay
    BY <1>2 DEF AwaitOnly, PhasesStay
  <2>. QED
    BY <1>2, <2>1, <2>2, ManagerFlight
<1>3. ASSUME NEW t \in Tasks, Enqueue(t)
      PROVE  FlightInv' /\ NoOrphan
  <2>1. NoneTakesOff
    BY <1>3, RowMoves DEF Enqueue, InFlight
  <2>. QED
    BY <1>2, <1>3, <2>1 DEF Enqueue, TaskCallOf, RunKinds
<1>4. ASSUME NEW t \in Tasks, Resume(t) \/ Retry(t)
      PROVE  FlightInv' /\ NoOrphan
  BY <1>2, <1>4, RowsStay DEF Resume, Retry, store, TaskCallOf, RunKinds
<1>5. ASSUME NEW t \in Tasks, NEW why \in {"pause", "cancel"}, StopTask(t, why)
      PROVE  FlightInv' /\ NoOrphan
  <2>1. rows' = rows /\ running' = running
    BY <1>5 DEF StopTask, store
  <2>2. PhasesStay
    BY <1>5, StopStays DEF StopTask, PhasesStay
  <2>3. RunCalls(calls', eng)
    <3>1. TaskCallOf(why, t, rows[t], {}).kind \notin RunKinds
      BY DEF TaskCallOf, RunKinds
    <3>2. calls' = calls \/ calls' = Append(calls, TaskCallOf(why, t, rows[t], {}))
      BY <1>5 DEF StopTask
    <3>. QED
      BY <1>1, <3>1, <3>2, AppendCalls
  <2>. QED
    BY <2>1, <2>2, <2>3, RowsStay, ManagerFlight
<1>6. ASSUME NEW kind \in {"pauseAll", "resumeAll"}, BulkStart(kind)
      PROVE  FlightInv' /\ NoOrphan
  BY <1>2, <1>6, RowsStay DEF BulkStart, store, RunKinds
<1>7. CASE RestoreQueue
  BY <1>2, <1>7, RowsStay DEF RestoreQueue, store, RunKinds
<1>8. CASE ClearFinished
  <2>1. NoneTakesOff
    BY <1>8 DEF ClearFinished, NoneTakesOff, Absent, InFlight
  <2>2. running' = running /\ calls' = calls /\ PhasesStay
    BY <1>8 DEF ClearFinished, PhasesStay
  <2>. QED
    BY <1>1, <2>1, <2>2, ManagerFlight
<1>. QED
  BY <1>3, <1>4, <1>5, <1>6, <1>7, <1>8 DEF UserStep, TaskStep

\* What the oldest call leaves behind when it is answered.
LEMMA LeavesCalls ==
  ASSUME TypeOK, FlightInv, calls # <<>>
  PROVE  /\ Tail(calls) \in Seq(Call) /\ RunCalls(Tail(calls), eng)
         /\ \A kind \in {"pauseAll", "resumeAll"} : \A rest \in SUBSET Tasks :
              GoOn(kind, rest) \in Seq(Call) /\ RunCalls(GoOn(kind, rest), eng)
<1>1. Tail(calls) \in Seq(Call) /\ RunCalls(Tail(calls), eng) /\ calls \in Seq(Call)
  BY HeadTail, TailCalls DEF TypeOK, FlightInv
<1>2. ASSUME NEW kind \in {"pauseAll", "resumeAll"}, NEW rest \in SUBSET Tasks
      PROVE  GoOn(kind, rest) \in Seq(Call) /\ RunCalls(GoOn(kind, rest), eng)
  <2>1. [kind |-> kind, todo |-> rest].kind \notin RunKinds
    BY DEF RunKinds
  <2>2. RunCalls(Append(Tail(calls), [kind |-> kind, todo |-> rest]), eng)
    BY <1>1, <2>1, AppendCalls
  <2>. QED
    BY <1>1, <2>2, GoOnType DEF GoOn
<1>. QED
  BY <1>1, <1>2

\* The continuations that pump, permit or queue.
LEMMA HandlerFlight ==
  ASSUME TypeOK, FlightInv,
         \/ PumpEnds \/ EnqueueAnswered \/ ResumeAnswered
         \/ RetryAnswered \/ RetriedAnswered
  PROVE  FlightInv' /\ NoOrphan
<1>1. calls # <<>>
  BY DEF PumpEnds, EnqueueAnswered, ResumeAnswered, RetryAnswered,
         RetriedAnswered, Answered
<1>2. /\ Tail(calls) \in Seq(Call) /\ RunCalls(Tail(calls), eng)
      /\ \A kind \in {"pauseAll", "resumeAll"} : \A rest \in SUBSET Tasks :
           GoOn(kind, rest) \in Seq(Call) /\ RunCalls(GoOn(kind, rest), eng)
  BY <1>1, LeavesCalls
<1>3. CASE PumpEnds \/ EnqueueAnswered \/ RetriedAnswered
  <2>1. rows' = rows /\ running' = running /\ PhasesStay
    BY <1>3 DEF PumpEnds, EnqueueAnswered, RetriedAnswered, store, PhasesStay
  <2>2. calls' = Tail(calls) \/ Pump(Tail(calls))
    BY <1>3 DEF PumpEnds, EnqueueAnswered, RetriedAnswered
  <2>3. RunCalls(calls', eng)
    BY <1>2, <2>2, PumpCalls
  <2>. QED
    BY <2>1, <2>3, RowsStay, ManagerFlight
<1>4. CASE ResumeAnswered
  <2>1. rows' = rows /\ running' = running /\ PhasesStay
    BY <1>4 DEF ResumeAnswered, store, PhasesStay
  <2>2. Head(calls).rest \in SUBSET Tasks
    BY <1>4, AnsweredTask DEF ResumeAnswered
  <2> DEFINE cs == GoOn("resumeAll", Head(calls).rest)
  <2>3. calls' = cs \/ Pump(cs)
    BY <1>4 DEF ResumeAnswered
  <2>4. cs \in Seq(Call) /\ RunCalls(cs, eng)
    BY <1>2, <2>2
  <2>5. RunCalls(calls', eng)
    BY <2>3, <2>4, PumpCalls
  <2>. QED
    BY <2>1, <2>5, RowsStay, ManagerFlight
<1>5. CASE RetryAnswered
  <2> DEFINE t   == Head(calls).id
             row == Head(calls).row
  <2>1. t \in Tasks /\ running' = running /\ PhasesStay
    BY <1>5, AnsweredTask DEF RetryAnswered, PhasesStay
  <2>2. CASE CanMove(row, "queued")
    <3>1. /\ rows' = [rows EXCEPT ![t] = Moved(row, "queued")]
          /\ calls' = Append(Tail(calls), TaskCallOf("retried", t, Absent, {}))
      BY <1>5, <2>2 DEF RetryAnswered
    <3>2. NoneTakesOff
      BY <2>1, <3>1, MovedSt, RowMoves DEF InFlight
    <3>3. TaskCallOf("retried", t, Absent, {}).kind \notin RunKinds
      BY DEF TaskCallOf, RunKinds
    <3>4. RunCalls(calls', eng)
      BY <1>2, <3>1, <3>3, AppendCalls
    <3>. QED
      BY <2>1, <3>2, <3>4, ManagerFlight
  <2>3. CASE ~CanMove(row, "queued")
    <3>1. rows' = rows /\ calls' = Tail(calls)
      BY <1>5, <2>3 DEF RetryAnswered
    <3>. QED
      BY <1>2, <2>1, <3>1, RowsStay, ManagerFlight
  <2>. QED
    BY <2>2, <2>3
<1>. QED
  BY <1>3, <1>4, <1>5

\* The continuations that hold, cancel or go on with a bulk operation.
LEMMA HoldFlight ==
  ASSUME TypeOK, FlightInv,
         StopAnswered("pause") \/ StopAnswered("cancel") \/ BulkStep
  PROVE  FlightInv' /\ NoOrphan
<1>1. calls # <<>>
  BY DEF StopAnswered, BulkStep, PauseNext, ResumeNext, Answered
<1>2. /\ Tail(calls) \in Seq(Call) /\ RunCalls(Tail(calls), eng)
      /\ \A kind \in {"pauseAll", "resumeAll"} : \A rest \in SUBSET Tasks :
           GoOn(kind, rest) \in Seq(Call) /\ RunCalls(GoOn(kind, rest), eng)
  BY <1>1, LeavesCalls
<1>3. ASSUME NEW why \in {"pause", "cancel"}, StopAnswered(why)
      PROVE  FlightInv' /\ NoOrphan
  <2> DEFINE t   == Head(calls).id
             row == Head(calls).row
  <2>1. t \in Tasks /\ Head(calls).rest \in SUBSET Tasks
    BY <1>3, AnsweredTask DEF StopAnswered
  <2>2. rows' = rows \/ rows' = [rows EXCEPT ![t] = Moved(row, Target(why))]
    BY <1>3 DEF StopAnswered
  <2>3. Moved(row, Target(why)).st \notin InFlight
    BY MovedSt DEF Target, InFlight
  <2>4. NoneTakesOff
    BY <2>1, <2>2, <2>3, RowsStay, RowMoves
  <2>5. running' = running /\ PhasesStay /\ calls' = GoOn("pauseAll", Head(calls).rest)
    BY <1>3 DEF StopAnswered, PhasesStay
  <2>. QED
    BY <1>2, <2>1, <2>4, <2>5, ManagerFlight
<1>4. ASSUME NEW t \in Tasks, PauseNext(t)
      PROVE  FlightInv' /\ NoOrphan
  <2> DEFINE rest == Head(calls).todo \ {t}
             call == TaskCallOf("pause", t, rows[t], rest)
  <2>1. rows' = rows /\ running' = running
    BY <1>4 DEF PauseNext, store
  <2>2. rest \in SUBSET Tasks
    <3>1. Head(calls) \in BulkCall
      BY <1>4, HeadTail, CallKinds DEF PauseNext, Answered, TypeOK
    <3>. QED
      BY <3>1 DEF BulkCall
  <2>3. \/ Stop(t, "pause") /\ calls' = GoOn("pauseAll", rest)
        \/ calls' = Append(Tail(calls), call) /\ eng' = eng
    BY <1>4 DEF PauseNext
  <2>4. PhasesStay
    BY <2>3, StopStays DEF PhasesStay
  <2>5. call.kind \notin RunKinds
    BY DEF TaskCallOf, RunKinds
  <2>6. RunCalls(calls', eng)
    BY <1>2, <2>2, <2>3, <2>5, AppendCalls
  <2>. QED
    BY <2>1, <2>4, <2>6, RowsStay, ManagerFlight
<1>5. ASSUME NEW t \in Tasks, ResumeNext(t)
      PROVE  FlightInv' /\ NoOrphan
  <2> DEFINE call == TaskCallOf("resume", t, rows[t], Head(calls).todo \ {t})
  <2>1. rows' = rows /\ running' = running /\ PhasesStay /\ calls' = Append(Tail(calls), call)
    BY <1>5 DEF ResumeNext, store, PhasesStay
  <2>2. call.kind \notin RunKinds
    BY DEF TaskCallOf, RunKinds
  <2>3. RunCalls(calls', eng)
    BY <1>2, <2>1, <2>2, AppendCalls
  <2>. QED
    BY <2>1, <2>3, RowsStay, ManagerFlight
<1>. QED
  BY <1>3, <1>4, <1>5 DEF BulkStep

\* A restore takes stale rows down, to failed or paused.
LEMMA RestoreFlight ==
  ASSUME TypeOK, FlightInv, RestoreStep
  PROVE  FlightInv' /\ NoOrphan
<1>1. calls # <<>>
  BY Zenon DEF RestoreStep, RestoreNext, RestoreEnds, Answered
<1>2. Tail(calls) \in Seq(Call) /\ RunCalls(Tail(calls), eng)
  BY <1>1, LeavesCalls
<1>3. CASE RestoreEnds
  <2>1. rows' = rows /\ running' = running /\ PhasesStay /\ Pump(Tail(calls))
    BY <1>3 DEF RestoreEnds, store, PhasesStay
  <2>. QED
    BY <1>2, <2>1, RowsStay, PumpCalls, ManagerFlight
<1>4. ASSUME NEW t \in Tasks, RestoreNext(t)
      PROVE  FlightInv' /\ NoOrphan
  <2> DEFINE row  == Head(calls).rows[t]
             next == IF row.st = "connecting" THEN "failed" ELSE "paused"
             rest == [Head(calls) EXCEPT !.todo = @ \ {t}, !.rows[t] = Absent]
  <2>1. running' = running /\ PhasesStay
    BY <1>4, RestoreNextLeaves DEF PhasesStay
  <2>2. rows' = [rows EXCEPT ![t] = Moved(row, next)]
    BY <1>4, Zenon DEF RestoreNext
  <2>3. calls' = Append(Tail(calls), rest)
    BY <1>4, Zenon DEF RestoreNext
  <2>4. rest.kind \notin RunKinds
    <3>1. Head(calls) \in RestoreCall /\ Head(calls).kind = "restore"
      BY <1>1, <1>4, HeadTail, CallKinds DEF RestoreNext, Answered, TypeOK
    <3>2. rest.kind = Head(calls).kind
      BY <3>1 DEF RestoreCall
    <3>. QED
      BY <3>1, <3>2 DEF RunKinds
  <2>5. Moved(row, next).st \notin InFlight
    BY MovedSt DEF InFlight
  <2> HIDE DEF row, next, rest
  <2>6. RunCalls(calls', eng)
    BY <1>2, <2>3, <2>4, AppendCalls
  <2>7. NoneTakesOff
    BY <2>2, <2>5, RowMoves
  <2>. QED
    BY <2>1, <2>6, <2>7, ManagerFlight
<1>. QED
  BY <1>3, <1>4 DEF RestoreStep

\* A start puts the row in flight with a run to account for it.
LEMMA StartFlight ==
  ASSUME TypeOK, FlightInv, NEW t \in Tasks, PumpStarts(t)
  PROVE  FlightInv' /\ NoOrphan
<1>1. Tail(calls) \in Seq(Call) /\ RunCalls(Tail(calls), eng)
  BY LeavesCalls DEF PumpStarts, Answered
<1>2. /\ running' = running \cup {t} /\ t \notin running
      /\ \A u \in Tasks \ {t} : rows'[u] = rows[u] /\ eng'[u] = eng[u]
      /\ eng'[t].phase = "opening"
  BY DEF PumpStarts, NextRunnable, Runnable, TypeOK
<1>3. eng[t].phase = "off"
  BY <1>2 DEF FlightInv, RowsRest
<1>4. RunCalls(Tail(calls), eng')
  BY <1>1, <1>2, <1>3 DEF RunCalls
<1>5. RunCalls(calls', eng')
  <2>1. Listing.kind \notin RunKinds
    BY DEF Listing, RunKinds
  <2>2. calls' = Tail(calls) \/ calls' = Append(Tail(calls), Listing)
    BY DEF PumpStarts
  <2>3. RunCalls(Append(Tail(calls), Listing), eng)
    BY <1>1, <2>1, AppendCalls
  <2>. QED
    BY <1>2, <1>3, <1>4, <2>2, <2>3 DEF RunCalls
<1>6. RowsRest'
  BY <1>2 DEF FlightInv, RowsRest
<1>7. NoOrphan
  BY <1>2 DEF NoOrphan, Orphan
<1>. QED
  BY <1>5, <1>6, <1>7 DEF FlightInv, RunCalls, OneEach, Requeueing

\* The rest of a run after the backoff: the row is at rest when it ends.
LEMMA RequeueFlight ==
  ASSUME TypeOK, FlightInv, RereadAnswered \/ RequeuedAnswered
  PROVE  FlightInv' /\ NoOrphan
<1> DEFINE t   == Head(calls).id
           row == Head(calls).row
<1>1. t \in Tasks /\ calls # <<>> /\ Head(calls).kind \in RunKinds
  BY AnsweredTask DEF RereadAnswered, RequeuedAnswered, Answered, RunKinds
<1>2. /\ Tail(calls) \in Seq(Call) /\ RunCalls(Tail(calls), eng)
      /\ ~Requeueing(Tail(calls), t)
  BY <1>1, LeavesCalls, TailCalls DEF TypeOK, FlightInv
<1>3. eng[t].phase = "requeueing" /\ t \in running /\ rows[t].st \notin InFlight
  <2>1. Requeueing(calls, t)
    BY <1>1 DEF Requeueing, TypeOK
  <2>. QED
    BY <1>1, <2>1 DEF FlightInv, RunCalls, RowsRest
<1> HIDE DEF t, row
<1>4. ASSUME rows' = rows, eng' = [eng EXCEPT ![t] = NoAttempt], Finish(t, Tail(calls))
      PROVE  FlightInv' /\ NoOrphan
  <2>1. /\ \A u \in Tasks \ {t} : eng'[u] = eng[u]
        /\ eng'[t].phase = "off" /\ running' = running \ {t} /\ Pump(Tail(calls))
    BY <1>1, <1>4 DEF NoAttempt, Finish, TypeOK
  <2>2. RunCalls(Tail(calls), eng')
    BY <1>2, <2>1 DEF RunCalls
  <2>3. RunCalls(calls', eng')
    BY <1>2, <2>1, <2>2, PumpCalls
  <2>4. RowsRest'
    BY <1>4, <2>1 DEF FlightInv, RowsRest
  <2>5. NoOrphan
    BY <1>3, <1>4, <2>1 DEF NoOrphan, Orphan
  <2>. QED
    BY <2>3, <2>4, <2>5 DEF FlightInv, RunCalls, OneEach, Requeueing
<1>5. CASE RereadAnswered
  <2>1. CASE row.st = "failed" /\ CanMove(row, "queued")
    <3> DEFINE call == TaskCallOf("requeued", t, Absent, {})
    <3>1. /\ rows' = [rows EXCEPT ![t] = Moved(row, "queued")]
          /\ calls' = Append(Tail(calls), call)
          /\ running' = running /\ eng' = eng
      BY <1>5, <2>1 DEF RereadAnswered, t, row
    <3>2. call.id = t
      BY DEF TaskCallOf
    <3> HIDE DEF call
    <3>3. RunCalls(calls', eng)
      BY <1>1, <1>2, <1>3, <3>1, <3>2, AppendRunCall
    <3>4. NoneTakesOff
      <4>1. Moved(row, "queued").st \notin InFlight
        BY MovedSt DEF InFlight
      <4>. QED
        BY <1>1, <3>1, <4>1, RowMoves
    <3>. QED
      BY <3>1, <3>3, <3>4, ManagerFlight DEF PhasesStay
  <2>2. CASE ~(row.st = "failed" /\ CanMove(row, "queued"))
    BY <1>4, <1>5, <2>2 DEF RereadAnswered, t, row
  <2>. QED
    BY <2>1, <2>2
<1>6. CASE RequeuedAnswered
  BY <1>4, <1>6 DEF RequeuedAnswered, t
<1>. QED
  BY <1>5, <1>6

\* The end of the manager or of the process.
LEMMA LifeFlight ==
  ASSUME TypeOK, FlightInv, Dispose \/ Crash
  PROVE  FlightInv' /\ NoOrphan
<1>1. CASE Dispose
  <2>1. rows' = rows /\ running' = running /\ calls' = calls
    BY <1>1 DEF Dispose, store
  <2>2. PhasesStay
    BY <1>1 DEF Dispose, PhasesStay, TypeOK, Attempt
  <2>. QED
    BY <2>1, <2>2, RowsStay, ManagerFlight DEF FlightInv
<1>2. CASE Crash
  <2>1. calls' = <<>> /\ \A t \in Tasks : eng'[t].phase = "off"
    BY <1>2 DEF Crash, NoAttempt
  <2>. QED
    BY <1>2, <2>1 DEF FlightInv, RowsRest, RunCalls, OneEach, Requeueing, NoOrphan
<1>. QED
  BY <1>1, <1>2

\* A row is left in flight without a run only by an exception thrown out of the
\* engine or by the end of the process (download_manager.dart:265-280).
THEOREM OrphansAreFaults == Spec => OnlyFaultsOrphan
<1>1. Init => FlightInv
  BY DEF Init, FlightInv, RowsRest, RunCalls, OneEach, Requeueing, NoAttempt
<1>2. TypeOK /\ TypeOK' /\ FlightInv /\ [Next]_vars => FlightInv' /\ [NoOrphan]_vars
  <2> SUFFICES ASSUME TypeOK, TypeOK', FlightInv, [Next]_vars
               PROVE  FlightInv' /\ [NoOrphan]_vars
    OBVIOUS
  <2>1. CASE Answer
    BY <2>1, StartFlight, HandlerFlight, HoldFlight, RestoreFlight, RequeueFlight
    DEF Answer, PumpStep
  <2>2. CASE UNCHANGED vars
    BY <2>2 DEF vars, FlightInv, RowsRest, RunCalls, OneEach, Requeueing
  <2>. QED
    BY <2>1, <2>2, UserFlight, RunFlight, LifeFlight DEF Next, Step
<1>. QED
  BY <1>1, <1>2, TypeCorrect, PTL DEF Spec, OnlyFaultsOrphan, NoOrphan
=============================================================================
