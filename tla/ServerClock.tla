----------------------------- MODULE ServerClock -----------------------------
(***************************************************************************)
(* The time the server's handlers read (Date.now, new Date), in units of   *)
(* no particular length.  Time passes between any two steps, up to a last  *)
(* moment that each component is looked at until.                          *)
(***************************************************************************)
EXTENDS Naturals

VARIABLE now

Tick(last) == now < last /\ now' = now + 1
=============================================================================
