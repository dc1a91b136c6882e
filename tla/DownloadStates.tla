--------------------------- MODULE DownloadStates ---------------------------
(***************************************************************************)
(* The lifecycle of a download as data: the states, the legal moves and    *)
(* the retry budget.  A task is the pair of its state and of the retries   *)
(* it has consumed; title, URL, sizes and failure texts are left out here. *)
(* (app/lib/features/downloads/domain/download_state.dart, download_task)  *)
(***************************************************************************)
EXTENDS Integers

CONSTANT MaxRetries     \* DownloadTask.maxRetries, 5 in the code

ASSUME MaxRetriesAssumption == MaxRetries \in Nat

States == {"queued", "connecting", "downloading", "paused", "completed",
           "verifying", "done", "failed", "canceled"}

Transitions ==
  { <<"queued", "connecting">>, <<"queued", "canceled">>,
    <<"connecting", "downloading">>, <<"connecting", "failed">>,
    <<"connecting", "canceled">>,
    <<"downloading", "paused">>, <<"downloading", "completed">>,
    <<"downloading", "failed">>, <<"downloading", "canceled">>,
    <<"paused", "downloading">>, <<"paused", "canceled">>,
    <<"completed", "verifying">>, <<"completed", "canceled">>,
    <<"verifying", "done">>, <<"verifying", "failed">>,
    <<"verifying", "canceled">>,
    <<"failed", "queued">> }

CanTransition(from, to) == <<from, to>> \in Transitions

\* States in which the task still occupies the queue.
ActiveStates == {"queued", "connecting", "downloading", "paused",
                 "completed", "verifying"}

\* States only a live attempt of the engine can account for.
InFlight == {"connecting", "downloading", "completed", "verifying"}

Task == [st : States, retries : 0 .. MaxRetries]

\* A row that is not in the table.
Absent == [st |-> "absent", retries |-> 0]

Row == Task \cup {Absent}

CanMoveUnbudgeted(task, next) == CanTransition(task.st, next)

\* transitionTo: the matrix, and failed -> queued only while budget is left.
CanMove(task, next) ==
  /\ CanTransition(task.st, next)
  /\ task.st = "failed" => task.retries < MaxRetries

MovedUncounted(task, next) == [task EXCEPT !.st = next]

Moved(task, next) ==
  [st      |-> next,
   retries |-> IF task.st = "failed" THEN task.retries + 1 ELSE task.retries]
=============================================================================
