--------------------------- MODULE DownloadCancel ---------------------------
(***************************************************************************)
(* DownloadQueue with a history variable: the downloads whose cancel() was *)
(* called, until the user enqueues, resumes or retries them.  A cancel of  *)
(* a running download leaves no other trace when the engine does not hold  *)
(* it in `_active`, or is past the point where it looks at the intent.     *)
(***************************************************************************)
EXTENDS DownloadQueue

VARIABLE cancelAsked

cancelVars == <<vars, cancelAsked>>

InitCancel == Init /\ cancelAsked = {}

\* One of the user's requests to go on with t.
GoesOn(t) == Enqueue(t) \/ Resume(t) \/ Retry(t)

NextCancel ==
  \/ \E t \in Tasks : StopTask(t, "cancel") /\ cancelAsked' = cancelAsked \cup {t}
  \/ \E t \in Tasks : GoesOn(t) /\ cancelAsked' = cancelAsked \ {t}
  \/ \E t \in Tasks : StopTask(t, "pause") /\ UNCHANGED cancelAsked
  \/ /\ \/ Answer \/ ClearFinished
        \/ \E t \in Tasks : RunStep(t)
     /\ UNCHANGED cancelAsked

SpecCancel == InitCancel /\ [][NextCancel]_cancelVars

\* "Re-read: the user may have canceled while we were waiting.": the backoff of
\* a failed attempt never ends in a requeue of a download whose cancel was
\* asked for.  Broken because cancel() only tells the engine, which holds no
\* transfer during the backoff.
CancelEndsBackoff ==
  [][\A t \in cancelAsked :
       ~(RereadAnswered /\ Head(calls).id = t /\ rows'[t].st = "queued")]_cancelVars
=============================================================================
