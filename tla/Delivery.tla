------------------------------ MODULE Delivery ------------------------------
(***************************************************************************)
(* What one download promises its user, without bytes on the way: the      *)
(* states it goes through and the file at its destination, which appears   *)
(* in one step, only while an attempt verifies, and always before the      *)
(* download says `done`.  Of its states only one that somebody read before *)
(* may come back out of turn.  DownloadTransfer implements it.             *)
(***************************************************************************)
EXTENDS DownloadStates

VARIABLES
  st,       \* the state of the download, "absent" before it is enqueued
  out,      \* the file at the destination, <<>> while there is none
  ready,    \* the attempt that verifies has put its file there
  overtaken \* someone has read a state of the download that is no longer its
            \* state: given from outside, it may change at any time

deliveryVars == <<st, out, ready>>

InitDelivery == st = "absent" /\ out = <<>> /\ ready = FALSE

\* A legal move; `completed` is passed on the way to `verifying`.
Move ==
  /\ ~ready
  /\ st' # "done"
  /\ \/ CanTransition(st, st')
     \/ st = "downloading" /\ st' = "verifying"
  /\ UNCHANGED <<out, ready>>

\* The file appears, whole, where a former one may have been.
Publish ==
  /\ ~ready /\ st = "verifying"
  /\ out' # <<>>
  /\ ready'
  /\ UNCHANGED st

Deliver ==
  /\ ready
  /\ st' = "done" /\ ~ready'
  /\ UNCHANGED out

\* The process dies, or the attempt breaks off, before it can say `done`.
BreakOff ==
  /\ ready /\ ~ready'
  /\ UNCHANGED <<st, out>>

\* Who read a former state acts on it.  What was done or verified may be taken
\* back, but nothing becomes so.
Late ==
  /\ overtaken
  /\ st' \in {"queued", "connecting", "downloading", "paused", "failed", "canceled"}
  /\ ~ready'
  /\ UNCHANGED out

\* The user enqueues the download again.
Again ==
  /\ st' = "queued" /\ ~ready'
  /\ UNCHANGED out

NextDelivery == Move \/ Publish \/ Deliver \/ BreakOff \/ Late \/ Again

SpecDelivery == InitDelivery /\ [][NextDelivery]_deliveryVars
=============================================================================
