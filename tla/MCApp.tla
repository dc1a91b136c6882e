------------------------------- MODULE MCApp -------------------------------
(***************************************************************************)
(* The converter and the library of the app for TLC.  They share no state: *)
(* a behaviour is of one of them (`looked`), while the other rests.        *)
(***************************************************************************)
EXTENDS Converter, LibraryIndex, TLC

CONSTANTS i1, i2

\* The jobs of one entry, or of two entries with one source: a small output of
\* i2 goes to where i1 has its outputs, a large one elsewhere.
AppOutput ==
  [id \in {i1, i2} |-> [setting \in {"small", "large"} |->
     IF id = i2 /\ setting = "large" THEN "own" ELSE "shared"]]

VARIABLE looked

appVars == <<converterVars, libraryVars, looked>>

AppInit ==
  /\ InitConverter /\ InitLibrary
  /\ \/ looked = "converter" /\ files = {}
     \/ looked = "library" /\ maxConcurrent = 1

AppNext ==
  /\ UNCHANGED looked
  /\ \/ looked = "converter" /\ NextConverter /\ UNCHANGED libraryVars
     \/ looked = "library" /\ NextLibrary /\ UNCHANGED converterVars

\* In a behaviour of the library no process is under way to be fair to.
AppSpec == AppInit /\ [][AppNext]_appVars /\ FairConverter
=============================================================================
