---------------------------- MODULE DownloadQueue ----------------------------
(***************************************************************************)
(* The download manager (download_manager.dart) with the control part of   *)
(* the engine it drives (download_engine.dart) and the table both persist  *)
(* to (drift_download_repository.dart).                                    *)
(*                                                                         *)
(* Everything runs on one event loop, so a handler is atomic up to its     *)
(* next await.  The table lives behind an isolate that serves its calls in *)
(* the order they were issued.  A statement is therefore applied here when *)
(* it is issued, a query carries the answer it will get, and `calls` holds *)
(* the awaited calls whose continuation has not run yet.  The continuation *)
(* sees the rows as they were when the call was issued and the fields of   *)
(* the manager as they are when it runs.                                   *)
(*                                                                         *)
(* Left out: bytes and files (DownloadTransfer), failing table calls, the  *)
(* priority column (always 0), setMaxConcurrent and a second manager on    *)
(* the same engine (nothing in app/lib causes either), and the createdAt   *)
(* that a run's older copy of the task brings back over an enqueued row:   *)
(* the order of the listing is kept per id, from the last enqueue.         *)
(***************************************************************************)
EXTENDS DownloadStates, Sequences, FiniteSets

CONSTANTS
  Tasks,            \* ids of the downloads, "<item>:<format>"
  MaxConcurrent,    \* the slots of the manager
  MaxCalls          \* bound: calls of user operations awaiting their answer

ASSUME QueueAssumption ==
  /\ IsFiniteSet(Tasks)
  /\ MaxConcurrent \in Nat \ {0}
  /\ MaxCalls \in Nat

VARIABLES
  rows,             \* the table
  before,           \* <<u, t>>: row u was created before row t
  running,          \* _running
  stopRequested,    \* _stopRequested
  resumeRequested,  \* _resumeRequested
  pumping,          \* _pumping
  disposed,         \* _disposed
  eng,              \* the attempt of each running task
  calls,            \* table calls awaited, oldest first
  woken,            \* history: _pump was called since the process started
  parked            \* history: a pause ended the last run, no resume since

store == <<rows, before>>
flags == <<stopRequested, resumeRequested>>
history == <<woken, parked>>
vars == <<rows, before, running, stopRequested, resumeRequested, pumping,
          disposed, eng, calls, woken, parked>>

------------------------------------------------------------------------------
(* Types *)

Phases == {"off", "opening", "receiving", "overshot", "verifying",
           "discarding", "backoff", "requeueing"}

\* Phases in which the engine holds the task in `_active`.
ActivePhases == {"opening", "receiving", "overshot", "verifying", "discarding"}

Intents == {"none", "pause", "cancel"}

Attempt == [phase : Phases, task : Row, intent : Intents]

NoAttempt == [phase |-> "off", task |-> Absent, intent |-> "none"]

\* The states a restore rewrites.
StaleStates == {"connecting", "downloading"}

PumpCall == [kind : {"pump"}, rows : [Tasks -> Row],
             before : SUBSET (Tasks \X Tasks)]

TaskCall == [kind : {"enqueued", "resume", "retry", "retried", "pause",
                     "cancel", "reread", "requeued"},
             id : Tasks, row : Row, rest : SUBSET Tasks]

RestoreCall ==
  {call \in [kind : {"restore"}, rows : [Tasks -> Row], todo : SUBSET Tasks] :
     \A t \in call.todo : call.rows[t].st \in StaleStates}

BulkCall == [kind : {"pauseAll", "resumeAll"}, todo : SUBSET Tasks]

Call == PumpCall \cup TaskCall \cup RestoreCall \cup BulkCall

TypeOK ==
  /\ rows \in [Tasks -> Row]
  /\ before \in SUBSET (Tasks \X Tasks)
  /\ running \in SUBSET Tasks
  /\ stopRequested \in SUBSET Tasks
  /\ resumeRequested \in SUBSET Tasks
  /\ pumping \in BOOLEAN
  /\ disposed \in BOOLEAN
  /\ eng \in [Tasks -> Attempt]
  /\ calls \in Seq(Call)
  /\ woken \in BOOLEAN
  /\ parked \in SUBSET Tasks

Init ==
  /\ rows = [t \in Tasks |-> Absent]
  /\ before = {}
  /\ running = {}
  /\ stopRequested = {}
  /\ resumeRequested = {}
  /\ pumping = FALSE
  /\ disposed = FALSE
  /\ eng = [t \in Tasks |-> NoAttempt]
  /\ calls = <<>>
  /\ woken = TRUE
  /\ parked = {}

------------------------------------------------------------------------------
(* Calls and the scheduler *)

\* A call about one task; `row` is what it reads, Absent when that is not used.
TaskCallOf(kind, t, row, rest) ==
  [kind |-> kind, id |-> t, row |-> row, rest |-> rest]

\* The continuation of the oldest awaited call, of this kind, is due.
Answered(kind) == calls # <<>> /\ Head(calls).kind = kind

\* Of a listing, the rows its reader goes on to look at.
Listed(states) == [t \in Tasks |-> IF rows'[t].st \in states THEN rows'[t]
                                   ELSE Absent]

Listing == [kind |-> "pump", rows |-> Listed({"queued", "paused"}),
            before |-> before']

PumpUnguarded(cs) ==
  /\ woken' = TRUE
  /\ IF ~disposed' /\ Cardinality(running') < MaxConcurrent
       THEN /\ pumping' = TRUE
            /\ calls' = Append(cs, Listing)
       ELSE /\ pumping' = pumping
            /\ calls' = cs

\* _pump up to its first await: list the table when a slot is free.  `cs` are
\* the calls the handler that pumps leaves pending.
Pump(cs) ==
  /\ woken' = TRUE
  /\ IF ~pumping /\ ~disposed' /\ Cardinality(running') < MaxConcurrent
       THEN /\ pumping' = TRUE
            /\ calls' = Append(cs, Listing)
       ELSE /\ pumping' = pumping
            /\ calls' = cs

\* What _nextRunnable accepts of a listing: its rows, today's flags.
Runnable(t, listed) ==
  /\ t \notin running \cup stopRequested
  /\ \/ listed[t].st = "queued"
     \/ listed[t].st = "paused" /\ t \in resumeRequested

NextRunnable(t, listed, order) ==
  /\ Runnable(t, listed)
  /\ \A u \in Tasks : Runnable(u, listed) => <<u, t>> \notin order

\* A fresh task connects, a paused one goes straight back to downloading.
Started(task) ==
  Moved(task, IF task.st = "paused" THEN "downloading" ELSE "connecting")

\* The listing arrived: start its first runnable task and, while slots are
\* left, list again; otherwise the pump is over.
PumpStarts(t) ==
  /\ Answered("pump")
  /\ LET listing == Head(calls)
         task    == Started(listing.rows[t])
     IN  /\ NextRunnable(t, listing.rows, listing.before)
         /\ rows' = [rows EXCEPT ![t] = task]
         /\ eng' = [eng EXCEPT ![t] = [phase |-> "opening", task |-> task,
                                       intent |-> "none"]]
  /\ running' = running \cup {t}
  /\ UNCHANGED before
  /\ IF Cardinality(running') < MaxConcurrent
       THEN calls' = Append(Tail(calls), Listing) /\ UNCHANGED pumping
       ELSE calls' = Tail(calls) /\ pumping' = FALSE
  /\ UNCHANGED <<flags, disposed, history>>

PumpEnds ==
  /\ Answered("pump")
  /\ \A t \in Tasks : ~Runnable(t, Head(calls).rows)
  /\ calls' = Tail(calls)
  /\ pumping' = FALSE
  /\ UNCHANGED <<store, running, flags, disposed, eng, history>>

------------------------------------------------------------------------------
(* The engine: one attempt, from run() to the end of _run *)

Active(t) == eng[t].phase \in ActivePhases

EngineOnly == UNCHANGED <<before, running, flags, pumping, disposed, calls,
                          history>>

\* _emit / onUpdate: the engine's copy of the task moves and is saved over
\* whatever the row holds by now.
Emit(t, next, phase) ==
  LET task == Moved(eng[t].task, next)
  IN  /\ rows' = [rows EXCEPT ![t] = task]
      /\ eng' = [eng EXCEPT ![t] = [phase |-> phase, task |-> task,
                                   intent |-> IF phase = "receiving"
                                              THEN @.intent ELSE "none"]]

FinishKeepsPermission(t, cs) ==
  /\ running' = running \ {t}
  /\ UNCHANGED <<stopRequested, resumeRequested, before, disposed>>
  /\ Pump(cs)

FinishSilently(t, cs) ==
  /\ running' = running \ {t}
  /\ resumeRequested' = resumeRequested \ {t}
  /\ calls' = cs
  /\ UNCHANGED <<stopRequested, before, disposed, pumping, woken>>

\* The `finally` of _run: the slot is released and the queue pumped.
Finish(t, cs) ==
  /\ running' = running \ {t}
  /\ resumeRequested' = resumeRequested \ {t}
  /\ UNCHANGED <<stopRequested, before, disposed>>
  /\ Pump(cs)

\* The attempt ends in `next` and the run with it.
EndsAs(t, next) ==
  /\ rows' = [rows EXCEPT ![t] = Moved(eng[t].task, next)]
  /\ eng' = [eng EXCEPT ![t] = NoAttempt]
  /\ parked' = IF next = "paused" THEN parked \cup {t} ELSE parked
  /\ Finish(t, calls)

FailUnsaved(t) ==
  IF eng[t].task.retries < MaxRetries
    THEN /\ eng' = [eng EXCEPT ![t].phase = "backoff", ![t].intent = "none"]
         /\ UNCHANGED rows
         /\ EngineOnly
    ELSE EndsAs(t, "failed")

\* _fail, then _scheduleRetry: with budget left the task keeps its slot while
\* it backs off, outside the engine's `_active`.
Fail(t) ==
  IF eng[t].task.retries < MaxRetries
    THEN /\ Emit(t, "failed", "backoff")
         /\ EngineOnly
    ELSE EndsAs(t, "failed")

\* transport.open returned; the part file has been fitted to the answer.
Opens(t) ==
  /\ eng[t].phase = "opening"
  /\ IF eng[t].task.st = "connecting"
       THEN Emit(t, "downloading", "receiving")
       ELSE /\ rows' = [rows EXCEPT ![t] = eng[t].task]
            /\ eng' = [eng EXCEPT ![t].phase = "receiving"]
  /\ EngineOnly

\* transport.open threw: the origin refused, or a stop request aborted it.
OpenFails(t) == eng[t].phase = "opening" /\ Fail(t)

\* A chunk: progress is saved, whatever the row says.
Progresses(t) ==
  /\ eng[t].phase = "receiving" /\ eng[t].intent = "none"
  /\ rows' = [rows EXCEPT ![t] = eng[t].task]
  /\ UNCHANGED eng
  /\ EngineOnly

\* The stream ended complete: `completed` and `verifying` in one go.
Completes(t) ==
  /\ eng[t].phase = "receiving" /\ eng[t].intent = "none"
  /\ LET task == Moved(Moved(eng[t].task, "completed"), "verifying")
     IN  /\ rows' = [rows EXCEPT ![t] = task]
         /\ eng' = [eng EXCEPT ![t].task = task, ![t].phase = "verifying"]
  /\ EngineOnly

\* The stream broke or ended short, with no stop requested.
Breaks(t) ==
  eng[t].phase = "receiving" /\ eng[t].intent = "none" /\ Fail(t)

\* One chunk too many: the sink is closed and the attempt fails whatever is
\* requested meanwhile.
Overshoots(t) ==
  /\ eng[t].phase = "receiving" /\ eng[t].intent = "none"
  /\ eng' = [eng EXCEPT ![t].phase = "overshot"]
  /\ UNCHANGED rows
  /\ EngineOnly

OvershotFails(t) == eng[t].phase = "overshot" /\ Fail(t)

\* A requested stop is noticed while the stream is read.
Pauses(t) ==
  /\ eng[t].phase = "receiving" /\ eng[t].intent = "pause"
  /\ EndsAs(t, "paused")

DropsPart(t) ==
  /\ eng[t].phase = "receiving" /\ eng[t].intent = "cancel"
  /\ eng' = [eng EXCEPT ![t].phase = "discarding", ![t].intent = "none"]
  /\ UNCHANGED rows
  /\ EngineOnly

Cancels(t) == eng[t].phase = "discarding" /\ EndsAs(t, "canceled")

\* Verification, then the rename: stop requests are not looked at any more.
Verifies(t) == eng[t].phase = "verifying" /\ EndsAs(t, "done")

IntegrityFails(t) == eng[t].phase = "verifying" /\ Fail(t)

\* A file operation (or the entity's constructor) throws out of run(): the
\* row keeps the state last saved and only the `finally` runs.
Throws(t) ==
  /\ Active(t)
  /\ eng' = [eng EXCEPT ![t] = NoAttempt]
  /\ UNCHANGED <<rows, parked>>
  /\ Finish(t, calls)

\* The backoff delay is over: give up if stopped, else read the row again.
BackoffElapses(t) ==
  /\ eng[t].phase = "backoff"
  /\ UNCHANGED <<rows, parked>>
  /\ IF disposed \/ t \in stopRequested
       THEN /\ eng' = [eng EXCEPT ![t] = NoAttempt]
            /\ Finish(t, calls)
       ELSE /\ eng' = [eng EXCEPT ![t].phase = "requeueing"]
            /\ calls' = Append(calls, TaskCallOf("reread", t, rows[t], {}))
            /\ UNCHANGED <<before, running, flags, pumping, disposed, woken>>

RereadAnswered ==
  /\ Answered("reread")
  /\ LET t   == Head(calls).id
         row == Head(calls).row
     IN  IF row.st = "failed" /\ CanMove(row, "queued")
           THEN /\ rows' = [rows EXCEPT ![t] = Moved(row, "queued")]
                /\ calls' = Append(Tail(calls),
                                   TaskCallOf("requeued", t, Absent, {}))
                /\ UNCHANGED <<before, running, flags, pumping, disposed, eng,
                               history>>
           ELSE /\ UNCHANGED <<rows, parked>>
                /\ eng' = [eng EXCEPT ![t] = NoAttempt]
                /\ Finish(t, Tail(calls))

\* The requeued row is saved: pump, leave _run, pump again.
RequeuedAnswered ==
  /\ Answered("requeued")
  /\ eng' = [eng EXCEPT ![Head(calls).id] = NoAttempt]
  /\ UNCHANGED <<rows, parked>>
  /\ Finish(Head(calls).id, Tail(calls))

------------------------------------------------------------------------------
(* The user's operations *)

\* Calls the scheduler makes for itself.
OwnKinds == {"pump", "reread", "requeued"}

UserMayAct ==
  /\ ~disposed
  /\ Cardinality({i \in DOMAIN calls : calls[i].kind \notin OwnKinds}) < MaxCalls

AwaitOnly(call) ==
  /\ calls' = Append(calls, call)
  /\ UNCHANGED <<running, flags, pumping, disposed, eng, history>>

\* enqueue: the row of that id is written over and becomes the youngest.
Enqueue(t) ==
  /\ UserMayAct
  /\ rows' = [rows EXCEPT ![t] = [st |-> "queued", retries |-> 0]]
  /\ before' = {p \in before : p[1] # t}
                 \cup {<<u, t>> : u \in Tasks \ {t}}
  /\ AwaitOnly(TaskCallOf("enqueued", t, Absent, {}))

EnqueueAnswered ==
  /\ Answered("enqueued")
  /\ stopRequested' = stopRequested \ {Head(calls).id}
  /\ UNCHANGED <<store, running, resumeRequested, disposed, eng, parked>>
  /\ Pump(Tail(calls))

\* The engine is told at once; the query that follows changes nothing.  The
\* intent is kept while the attempt can still read it: once a chunk too many
\* came, the stream ended or the part file is being dropped, nothing does.
ReadsIntent(t) == eng[t].phase \in {"opening", "receiving"}

Stop(t, why) ==
  eng' = IF ReadsIntent(t) THEN [eng EXCEPT ![t].intent = why] ELSE eng

\* pause(id) and cancel(id); `why` is the operation.
StopTask(t, why) ==
  /\ UserMayAct
  /\ UNCHANGED <<store, running, flags, pumping, disposed, history>>
  /\ IF t \in running
       THEN Stop(t, why) /\ UNCHANGED calls
       ELSE /\ calls' = Append(calls, TaskCallOf(why, t, rows[t], {}))
            /\ UNCHANGED eng

Target(why) == IF why = "pause" THEN "paused" ELSE "canceled"

\* Bulk operations go on with what is left of their listing.
GoOn(kind, rest) ==
  IF rest = {} THEN Tail(calls)
  ELSE Append(Tail(calls), [kind |-> kind, todo |-> rest])

\* _stopQueued: hold a queued task, or move the row that was read.
StopAnswered(why) ==
  /\ Answered(why)
  /\ LET t    == Head(calls).id
         row  == Head(calls).row
         next == Target(why)
         hold == why = "pause" /\ row.st = "queued"
         move == ~hold /\ CanMove(row, next)
     IN  /\ stopRequested' = IF hold \/ move THEN stopRequested \cup {t}
                             ELSE stopRequested
         /\ rows' = IF move THEN [rows EXCEPT ![t] = Moved(row, next)] ELSE rows
  /\ calls' = GoOn("pauseAll", Head(calls).rest)
  /\ UNCHANGED <<before, running, resumeRequested, pumping, disposed, eng,
                 history>>

Resume(t) ==
  /\ UserMayAct
  /\ UNCHANGED store
  /\ AwaitOnly(TaskCallOf("resume", t, rows[t], {}))

ResumeAnswered ==
  /\ Answered("resume")
  /\ UNCHANGED <<store, running, disposed, eng>>
  /\ LET t   == Head(calls).id
         row == Head(calls).row
         cs  == GoOn("resumeAll", Head(calls).rest)
     IN  IF row.st \in {"paused", "queued"}
           THEN /\ stopRequested' = stopRequested \ {t}
                /\ resumeRequested' = IF row.st = "paused"
                                      THEN resumeRequested \cup {t}
                                      ELSE resumeRequested
                /\ parked' = IF row.st = "paused" THEN parked \ {t} ELSE parked
                /\ Pump(cs)
           ELSE calls' = cs /\ UNCHANGED <<flags, pumping, history>>

Retry(t) ==
  /\ UserMayAct
  /\ UNCHANGED store
  /\ AwaitOnly(TaskCallOf("retry", t, rows[t], {}))

RetryAnswered ==
  /\ Answered("retry")
  /\ LET t   == Head(calls).id
         row == Head(calls).row
     IN  IF CanMove(row, "queued")
           THEN /\ rows' = [rows EXCEPT ![t] = Moved(row, "queued")]
                /\ calls' = Append(Tail(calls),
                                   TaskCallOf("retried", t, Absent, {}))
           ELSE UNCHANGED rows /\ calls' = Tail(calls)
  /\ UNCHANGED <<before, running, flags, pumping, disposed, eng, history>>

RetriedAnswered ==
  /\ Answered("retried")
  /\ stopRequested' = stopRequested \ {Head(calls).id}
  /\ UNCHANGED <<store, running, resumeRequested, disposed, eng, parked>>
  /\ Pump(Tail(calls))

\* pauseAll and resumeAll list the table and then await one task at a time,
\* here in any order.
BulkTargets(kind) ==
  {t \in Tasks : rows[t].st \in (IF kind = "pauseAll"
                                 THEN ActiveStates \ {"paused"}
                                 ELSE {"paused"})}

BulkStart(kind) ==
  /\ UserMayAct
  /\ BulkTargets(kind) # {}
  /\ UNCHANGED store
  /\ AwaitOnly([kind |-> kind, todo |-> BulkTargets(kind)])

PauseNext(t) ==
  /\ Answered("pauseAll") /\ t \in Head(calls).todo
  /\ LET rest == Head(calls).todo \ {t}
     IN  IF t \in running
           THEN Stop(t, "pause") /\ calls' = GoOn("pauseAll", rest)
           ELSE /\ calls' = Append(Tail(calls),
                                   TaskCallOf("pause", t, rows[t], rest))
                /\ UNCHANGED eng
  /\ UNCHANGED <<store, running, flags, pumping, disposed, history>>

ResumeNext(t) ==
  /\ Answered("resumeAll") /\ t \in Head(calls).todo
  /\ calls' = Append(Tail(calls), TaskCallOf("resume", t, rows[t],
                                             Head(calls).todo \ {t}))
  /\ UNCHANGED <<store, running, flags, pumping, disposed, eng, history>>

ClearFinished ==
  /\ ~disposed
  /\ \E t \in Tasks : rows[t].st = "done"
  /\ rows' = [t \in Tasks |-> IF rows[t].st = "done" THEN Absent ELSE rows[t]]
  /\ UNCHANGED <<before, running, flags, pumping, disposed, eng, calls, history>>

------------------------------------------------------------------------------
(* Process life: the Downloads screen restores, the container disposes, the  *)
(* process dies.                                                             *)

\* restoreQueue, first await.  The screen calls it each time it is built.
RestoreQueue ==
  /\ UserMayAct
  /\ UNCHANGED store
  /\ AwaitOnly([kind |-> "restore", rows |-> Listed(StaleStates),
                todo |-> {t \in Tasks : rows[t].st \in StaleStates}])

\* One stale row of the listing is rewritten, and its save awaited.
RestoreNext(t) ==
  /\ Answered("restore") /\ t \in Head(calls).todo
  /\ LET row  == Head(calls).rows[t]
         next == IF row.st = "connecting" THEN "failed" ELSE "paused"
     IN  /\ rows' = [rows EXCEPT ![t] = Moved(row, next)]
  /\ calls' = Append(Tail(calls), [Head(calls) EXCEPT !.todo = @ \ {t},
                                                     !.rows[t] = Absent])
  /\ UNCHANGED <<before, running, flags, pumping, disposed, eng, history>>

RestoreEnds ==
  /\ Answered("restore") /\ Head(calls).todo = {}
  /\ UNCHANGED <<store, running, flags, disposed, eng, parked>>
  /\ Pump(Tail(calls))

Dispose ==
  /\ ~disposed
  /\ disposed' = TRUE
  /\ eng' = [t \in Tasks |->
               IF ReadsIntent(t) THEN [eng[t] EXCEPT !.intent = "cancel"]
               ELSE eng[t]]
  /\ UNCHANGED <<store, running, flags, pumping, calls, history>>

\* The process dies and starts again.  Statements still on their way to the
\* isolate are lost from the end, which leaves rows of an earlier state; the
\* only rows no earlier state shows are those between the two statements of
\* Completes, `torn` here.
Crash ==
  \E torn \in SUBSET {t \in Tasks : eng[t].phase = "verifying"
                                    /\ rows[t].st = "verifying"} :
    /\ rows' = [t \in Tasks |-> IF t \in torn
                                THEN [rows[t] EXCEPT !.st = "completed"]
                                ELSE rows[t]]
    /\ running' = {} /\ stopRequested' = {} /\ resumeRequested' = {}
    /\ pumping' = FALSE /\ disposed' = FALSE /\ woken' = FALSE
    /\ eng' = [t \in Tasks |-> NoAttempt]
    /\ calls' = <<>>
    /\ UNCHANGED <<before, parked>>

------------------------------------------------------------------------------
(* The specification *)

PumpStep == PumpEnds \/ \E t \in Tasks : PumpStarts(t)

EngineStep(t) ==
  \/ Opens(t) \/ OpenFails(t)
  \/ Completes(t) \/ Breaks(t)
  \/ Overshoots(t) \/ OvershotFails(t)
  \/ Pauses(t) \/ DropsPart(t) \/ Cancels(t)
  \/ Verifies(t) \/ IntegrityFails(t)

BulkStep == \E t \in Tasks : PauseNext(t) \/ ResumeNext(t)

RestoreStep == RestoreEnds \/ \E t \in Tasks : RestoreNext(t)

\* The oldest awaited call is answered.
Answer ==
  \/ PumpStep
  \/ RereadAnswered \/ RequeuedAnswered
  \/ EnqueueAnswered
  \/ StopAnswered("pause") \/ StopAnswered("cancel")
  \/ ResumeAnswered
  \/ RetryAnswered \/ RetriedAnswered
  \/ BulkStep
  \/ RestoreStep

\* What the user does with one download.
TaskStep(t) ==
  \/ Enqueue(t) \/ Resume(t) \/ Retry(t)
  \/ StopTask(t, "pause") \/ StopTask(t, "cancel")

UserStep ==
  \/ \E t \in Tasks : TaskStep(t)
  \/ BulkStart("pauseAll") \/ BulkStart("resumeAll")
  \/ ClearFinished
  \/ RestoreQueue

RunStep(t) ==
  EngineStep(t) \/ Progresses(t) \/ Throws(t) \/ BackoffElapses(t)

\* Everything but the end of the process.
Step == Answer \/ UserStep \/ \E t \in Tasks : RunStep(t)

Next == Step \/ Dispose \/ Crash

Spec == Init /\ [][Next]_vars

\* The table answers, timers fire and, an assumption about the origin and the
\* network, every connection is accepted or refused and every stream ends.
Fairness ==
  /\ WF_vars(Answer)
  /\ \A t \in Tasks : WF_vars(EngineStep(t)) /\ WF_vars(BackoffElapses(t))

\* A session that is neither disposed nor killed, in which nothing is thrown and
\* nothing restored, with the operations on single downloads.
LiveStep ==
  \/ Answer
  \/ ClearFinished
  \/ \E t \in Tasks : \/ TaskStep(t)
                      \/ EngineStep(t) \/ Progresses(t) \/ BackoffElapses(t)

LiveSpec == Init /\ [][LiveStep]_vars /\ Fairness

------------------------------------------------------------------------------
(* Properties *)

\* The manager never runs more downloads than it has slots for, backoff
\* included (_pump's check is made before the listing it awaits).
SlotBound == Cardinality(running) <= MaxConcurrent

\* Calls that pump once they are answered.
Wakers == {"pump", "enqueued", "retried", "requeued", "restore"}

PumpComes == \E i \in 1 .. Len(calls) : calls[i].kind \in Wakers

\* A slot is free and this process has pumped before.
Idle == woken /\ ~disposed /\ Cardinality(running) < MaxConcurrent

\* No lost wake-up: while a slot is free, a queued download that may run is
\* never left without a pump on its way, although _pump drops every trigger
\* that comes while another pump awaits a listing made before the trigger.
NoLostWakeup ==
  Idle /\ (\E t \in Tasks : Runnable(t, rows) /\ rows[t].st = "queued")
    => PumpComes

\* "Starts as many queued/paused-resumable tasks as the limit allows": the same
\* for paused downloads the user resumed.  With two slots it fails where a row
\* said `paused` over an attempt still opening, by a restore or a stale pause: a
\* resume granted on it, and the end of the run it paused, may both fall into a
\* pump that listed the row while it said `downloading`.
ResumedIsStarted ==
  Idle /\ (\E t \in Tasks : Runnable(t, rows) /\ rows[t].st = "paused")
    => PumpComes

\* A row says that bytes are moving only while a run of the manager can still
\* correct it; what breaks that is an exception thrown out of the engine or
\* the end of the process, never a handler of the manager.
Orphan(t) == rows[t].st \in InFlight /\ t \notin running

OnlyFaultsOrphan ==
  [][\A t \in Tasks : Orphan(t)' => Orphan(t) \/ Throws(t) \/ Crash]_vars

\* A download whose run the user paused is taken up again only after the user
\* resumed it: no permission to resume outlives the run it was given for.
PausedUntilResumed ==
  [][\A t \in Tasks :
       (t \notin running /\ t \in running' /\ rows'[t].st = "downloading")
         => t \notin parked]_vars

\* No starvation: once the user enqueues no more, every queued download that is
\* not held is started or stopped in the end, whatever the user does with the
\* others.  It rests on the creation order of the listing, on the budget of
\* retries and on the pump that every end of a run makes.
Served ==
  <>[][\A t \in Tasks : ~Enqueue(t)]_vars =>
    \A t \in Tasks :
      (rows[t].st = "queued" /\ t \notin stopRequested)
        ~> (rows[t].st # "queued" \/ t \in stopRequested)

------------------------------------------------------------------------------
(* What comments in the code promise and the code does not keep *)

\* "Canceled by the user. Terminal.": only enqueueing the download again brings
\* back a canceled one.  Broken when the pump starts it between the query of
\* cancel() and its answer: the run then saves its states over the row.
CanceledIsTerminal ==
  [][\A t \in Tasks : rows[t].st = "canceled" =>
       rows'[t].st = "canceled" \/ Enqueue(t)]_vars

\* "anything that was mid-flight when the process died is re-queued": after the
\* restore of a process that has started nothing yet, no row is in flight.
\* Broken by a process that dies while it verifies.
RestoreLeavesNoneInFlight ==
  [][RestoreEnds /\ ~woken => \A t \in Tasks : rows[t].st \notin InFlight]_vars
=============================================================================
