--------------------------- MODULE MCDownloadQueue ---------------------------
(* Instances of DownloadQueue for TLC. *)
EXTENDS DownloadQueue, TLC

Symmetric == Permutations(Tasks)
=============================================================================
