------------------------------ MODULE Converter ------------------------------
(***************************************************************************)
(* The conversion queue of the app (features/converter): ConversionManager *)
(* over its repository in memory and the processes of                      *)
(* ProcessMediaConverter.                                                  *)
(*                                                                         *)
(* The futures of the repository are complete when they are awaited, so    *)
(* what a tap, a process or a stream sets off runs to its next wait for a  *)
(* process before any other event: one action per event, with the pump it  *)
(* ends in.                                                                *)
(*                                                                         *)
(* The processes are external: one may not start, writes to the output     *)
(* from its start on, ends well or not, and ends if it is killed; what it  *)
(* prints may not decode.  A job has an id by its entry and target, and    *)
(* its output a path by its source and target, so that two jobs may write  *)
(* to one file.  Left out: progress as a number, failure messages, the     *)
(* command line.                                                           *)
(***************************************************************************)
EXTENDS Integers, FiniteSets

CONSTANTS
  Ids,            \* entry and target, which is the id of a job
  Settings,       \* the rest of a request, the path of the source included
  Paths,
  OutputPath,     \* where the job of an id and of settings has its output
  Limits          \* what the manager may be constructed with

ASSUME ConverterAssumption ==
  /\ Limits \subseteq Int /\ IsFiniteSet(Ids) /\ "none" \notin Settings /\ "none" \notin Ids
  /\ OutputPath \in [Ids -> [Settings -> Paths]]

VARIABLES
  maxConcurrent,
  jobs,           \* _jobs of the repository
  before,         \* <<u, t>>: u was inserted in _jobs before t, and both are there
  runs,           \* what the run of each job is at; _running holds the others than "none"
  canceled,       \* _canceled of the converter
  disposed,
  output          \* external: the file at each path

converterVars == <<maxConcurrent, jobs, before, runs, canceled, disposed, output>>

JobStates == {"none", "queued", "converting", "completed", "failed", "canceled"}

Job == [st : JobStates, setting : Settings \cup {"none"}]

NoJob == [st |-> "none", setting |-> "none"]

\* A run holds the job it was started with; `good` is whether the process has
\* ended with 0.
Run == [at : {"none", "starting", "alive", "exited"}, setting : Settings \cup {"none"},
        killed : BOOLEAN, good : BOOLEAN]

NoRun == [at |-> "none", setting |-> "none", killed |-> FALSE, good |-> FALSE]

\* The job whose process opened the file last, with which settings; whether
\* another process was writing to it then, and whether it is finished.
Output == [by : Ids \cup {"none"}, setting : Settings \cup {"none"},
           mixed : BOOLEAN, whole : BOOLEAN]

NoOutput == [by |-> "none", setting |-> "none", mixed |-> FALSE, whole |-> FALSE]

Running == {id \in Ids : runs[id].at # "none"}

Listed == {id \in Ids : jobs[id].st # "none"}

\* A job that has a run is converting; only a request that came during the run
\* shows anything else meanwhile.  The reverse fails: a run whose streams fail
\* leaves its job converting.
ConverterTypeOK ==
  /\ maxConcurrent \in Nat \ {0}
  /\ jobs \in [Ids -> Job]
  /\ before \subseteq Listed \X Listed
  /\ \A t, u, w \in Listed :
       /\ t # u <=> <<t, u>> \in before \/ <<u, t>> \in before
       /\ <<t, u>> \in before /\ <<u, w>> \in before => <<t, w>> \in before
  /\ runs \in [Ids -> Run]
  /\ canceled \in SUBSET Ids /\ disposed \in BOOLEAN
  /\ output \in [Paths -> Output]
  /\ \A id \in Running : jobs[id].st \in {"converting", "queued"}

\* Fewer than one slot is one.
InitConverter ==
  /\ \E limit \in Limits : maxConcurrent = IF limit < 1 THEN 1 ELSE limit
  /\ jobs = [id \in Ids |-> NoJob] /\ before = {}
  /\ runs = [id \in Ids |-> NoRun]
  /\ canceled = {} /\ disposed = FALSE
  /\ output = [path \in Paths |-> NoOutput]

------------------------------------------------------------------------------
(* The pump *)

\* A mutant: jobs that have a run are not passed over.
WaitingAll(js, rs) == {id \in Ids : js[id].st = "queued"}

\* The queued jobs that have no run.
Waiting(js, rs) == {id \in Ids : js[id].st = "queued" /\ rs[id].at = "none"}

Free(rs) == maxConcurrent - Cardinality({id \in Ids : rs[id].at # "none"})

\* As many of the waiting as there are free slots, in the order of insertion.
FirstOf(waiting, free, order) ==
  {chosen \in SUBSET waiting :
     /\ chosen # {} => Cardinality(chosen) <= free
     /\ chosen # waiting => Cardinality(chosen) >= free
     /\ \A c \in chosen, w \in waiting \ chosen : <<w, c>> \notin order}

\* _pump, _nextQueued and the beginning of every _run: the first of the waiting
\* are saved converting, and their processes asked for.  run() forgets an
\* earlier cancel.
Pump(js, rs, order, marks) ==
  \E chosen \in FirstOf(Waiting(js, rs), IF disposed THEN 0 ELSE Free(rs), order) :
    /\ jobs' = [id \in Ids |-> IF id \in chosen THEN [js[id] EXCEPT !.st = "converting"] ELSE js[id]]
    /\ runs' = [id \in Ids |-> IF id \in chosen
                 THEN [NoRun EXCEPT !.at = "starting", !.setting = js[id].setting] ELSE rs[id]]
    /\ canceled' = marks \ chosen
    /\ before' = order

------------------------------------------------------------------------------
(* The operations of the manager *)

\* A job of the same id is replaced where it stands, running or not.
Enqueue(id, setting) ==
  /\ ~disposed
  /\ Pump([jobs EXCEPT ![id] = [st |-> "queued", setting |-> setting]], runs,
          IF id \in Listed THEN before ELSE before \cup (Listed \X {id}), canceled)
  /\ UNCHANGED <<maxConcurrent, disposed, output>>

\* A running conversion is asked to stop; its process may still be starting.
CancelRunning(id) ==
  /\ ~disposed /\ id \in Running
  /\ canceled' = canceled \cup {id}
  /\ runs' = IF runs[id].at = "alive" THEN [runs EXCEPT ![id].killed = TRUE] ELSE runs
  /\ UNCHANGED <<maxConcurrent, jobs, before, disposed, output>>

\* A mutant: whether the job has a run is not asked.
CancelQueuedAny(id) ==
  /\ ~disposed /\ jobs[id].st \in {"queued", "converting"}
  /\ jobs' = [jobs EXCEPT ![id].st = "canceled"]
  /\ UNCHANGED <<maxConcurrent, before, runs, canceled, disposed, output>>

\* A job that has no run is queued, or was left converting.
CancelQueued(id) ==
  /\ ~disposed /\ id \notin Running /\ jobs[id].st \in {"queued", "converting"}
  /\ jobs' = [jobs EXCEPT ![id].st = "canceled"]
  /\ UNCHANGED <<maxConcurrent, before, runs, canceled, disposed, output>>

Retry(id) ==
  /\ ~disposed /\ jobs[id].st = "failed"
  /\ Pump([jobs EXCEPT ![id].st = "queued"], runs, before, canceled)
  /\ UNCHANGED <<maxConcurrent, disposed, output>>

ClearFinished ==
  LET done == {id \in Ids : jobs[id].st = "completed"} IN
  /\ ~disposed /\ done # {}
  /\ jobs' = [id \in Ids |-> IF id \in done THEN NoJob ELSE jobs[id]]
  /\ before' = {p \in before : p[1] \notin done /\ p[2] \notin done}
  /\ UNCHANGED <<maxConcurrent, runs, canceled, disposed, output>>

\* Every running conversion is canceled, and nothing is started any more.
Dispose ==
  /\ ~disposed /\ disposed' = TRUE
  /\ canceled' = canceled \cup Running
  /\ runs' = [id \in Ids |-> IF runs[id].at = "alive"
               THEN [runs[id] EXCEPT !.killed = TRUE] ELSE runs[id]]
  /\ UNCHANGED <<maxConcurrent, jobs, before, output>>

------------------------------------------------------------------------------
(* A run *)

PathOf(id) == OutputPath[id][runs[id].setting]

\* Another process is at the same file.
Shared(id) == \E u \in Ids \ {id} : runs[u].at = "alive" /\ PathOf(u) = PathOf(id)

\* The process opens the output path itself, whatever is there (-y).
Opens(id) ==
  output' = [output EXCEPT ![PathOf(id)] =
    [by |-> id, setting |-> runs[id].setting, mixed |-> Shared(id), whole |-> FALSE]]

\* A mutant: a cancel that came while the process was starting is not looked at.
ProcessStartsDeaf(id) ==
  /\ runs[id].at = "starting"
  /\ runs' = [runs EXCEPT ![id].at = "alive"]
  /\ Opens(id)
  /\ UNCHANGED <<maxConcurrent, jobs, before, canceled, disposed>>

\* A cancel that came while the process was starting kills it.
ProcessStarts(id) ==
  /\ runs[id].at = "starting"
  /\ runs' = [runs EXCEPT ![id].at = "alive", ![id].killed = id \in canceled]
  /\ Opens(id)
  /\ UNCHANGED <<maxConcurrent, jobs, before, canceled, disposed>>

\* A mutant: the end of a run does not pump.
EndsQuietly(id, st, marks) ==
  /\ jobs' = [jobs EXCEPT ![id] = [st |-> st, setting |-> runs[id].setting]]
  /\ runs' = [runs EXCEPT ![id] = NoRun]
  /\ canceled' = marks
  /\ UNCHANGED <<maxConcurrent, before, disposed, output>>

\* A mutant: the job that is there now is ended.
EndsCurrent(id, st, marks) ==
  /\ Pump([jobs EXCEPT ![id].st = st], [runs EXCEPT ![id] = NoRun], before, marks)
  /\ UNCHANGED <<maxConcurrent, disposed, output>>

\* The run saves the job it holds, over whatever is there, frees its slot and
\* pumps, unless disposed.
EndsAs(id, st, marks) ==
  LET ended == [jobs EXCEPT ![id] = [st |-> st, setting |-> runs[id].setting]] IN
  /\ Pump(ended, [runs EXCEPT ![id] = NoRun], before, marks)
  /\ UNCHANGED <<maxConcurrent, disposed, output>>

\* Process.start throws.  A cancel that came meanwhile stays marked.
StartFails(id) == runs[id].at = "starting" /\ EndsAs(id, "failed", canceled)

\* onProgress saves the job of the run; lines may still come after the exit.
Progresses(id) ==
  /\ runs[id].at \in {"alive", "exited"}
  /\ jobs' = [jobs EXCEPT ![id] = [st |-> "converting", setting |-> runs[id].setting]]
  /\ UNCHANGED <<maxConcurrent, before, runs, canceled, disposed, output>>

\* exitCode completes; a killed process may have been done already.
ProcessExits(id) ==
  /\ runs[id].at = "alive"
  /\ \E good \in BOOLEAN :
       /\ runs' = [runs EXCEPT ![id].at = "exited", ![id].good = good]
       /\ output' = IF output[PathOf(id)].by = id
                    THEN [output EXCEPT ![PathOf(id)].whole = good /\ ~output[PathOf(id)].mixed]
                    ELSE output
  /\ UNCHANGED <<maxConcurrent, jobs, before, canceled, disposed>>

\* Both streams are at their end: the outcome.  A cancel wins over the exit code.
Settles(id) ==
  /\ runs[id].at = "exited"
  /\ EndsAs(id, IF id \in canceled THEN "canceled"
                ELSE IF runs[id].good THEN "completed" ELSE "failed", canceled \ {id})

\* What the process printed does not decode: run() throws, and only the finally
\* of the manager is left.  The job stays as it is, and so does a cancel.
StreamsFail(id) ==
  /\ runs[id].at = "exited"
  /\ Pump(jobs, [runs EXCEPT ![id] = NoRun], before, canceled)
  /\ UNCHANGED <<maxConcurrent, disposed, output>>

NextConverter ==
  \/ \E id \in Ids :
       \/ \E setting \in Settings : Enqueue(id, setting)
       \/ CancelRunning(id) \/ CancelQueued(id) \/ Retry(id)
       \/ ProcessStarts(id) \/ StartFails(id) \/ Progresses(id) \/ ProcessExits(id)
       \/ Settles(id) \/ StreamsFail(id)
  \/ ClearFinished \/ Dispose

SpecConverter == InitConverter /\ [][NextConverter]_converterVars

\* A process is started or not, a killed one ends, and the streams of one that
\* ended do: one of the three is what a run waits for.  Nothing makes a process
\* end that was not killed.
FairConverter ==
  \A id \in Ids : WF_converterVars(
    \/ ProcessStarts(id) \/ StartFails(id)
    \/ runs[id].killed /\ ProcessExits(id)
    \/ Settles(id) \/ StreamsFail(id))

------------------------------------------------------------------------------
(* Properties *)

\* A request for a job that is at work starts no second process of that job,
\* although it makes it queued again (conversion_manager.dart:49-57, 123): the
\* process is never taken from its run, which keeps its settings.  Two jobs that
\* name one output are not kept apart.
OneProcess ==
  [][\A id \in Ids : runs[id].at = "alive" =>
       runs'[id].at \in {"alive", "exited"} /\ runs'[id].setting = runs[id].setting]_converterVars

\* Conversions never exceed the slots (conversion_manager.dart:109, "FFmpeg
\* saturates the CPU"), and no job waits beside a free one, whatever ended,
\* failed, was retried or replaced.
SlotsUsed ==
  /\ Cardinality(Running) <= maxConcurrent
  /\ ~disposed /\ Waiting(jobs, runs) # {} => Cardinality(Running) = maxConcurrent

\* A job shown completed has an output, whole and made with the settings it
\* shows, also when it was requested anew while its run was at work, which is
\* then answered with the settings of the run (conversion_manager.dart:132-165).
\* The exception is a file that another job writes too: its process was at work
\* when this one began, or has begun since.
CompletedIsWhole ==
  \A id \in Ids : jobs[id].st = "completed" =>
    LET file == output[OutputPath[id][jobs[id].setting]] IN
    \/ file.by \notin {id, "none"}
    \/ /\ file.by = id
       /\ file.mixed \/ (file.whole /\ file.setting = jobs[id].setting)

\* A cancel ends the run, also when the process was only starting
\* (process_media_converter.dart:63-65), and so does the end of the manager.  The
\* mark of it goes with the run, or where the next run of the job begins.
CanceledStops ==
  \A id \in Ids : id \in Running \cap canceled ~> id \notin Running \cap canceled
=============================================================================
