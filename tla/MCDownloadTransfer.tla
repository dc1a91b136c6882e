------------------------- MODULE MCDownloadTransfer -------------------------
(* Instances of DownloadTransfer for TLC: two versions of different length. *)
EXTENDS DownloadTransfer

TwoVersions == 1 .. 2

Lengths == <<2, 3>>
=============================================================================
