-------------------------- MODULE DownloadTransfer --------------------------
(***************************************************************************)
(* The bytes of one download over all its attempts: download_engine.dart   *)
(* with the transport that interprets the origin's answers                 *)
(* (dio_download_transport.dart), the part file and the destination        *)
(* (io_download_file_system.dart), and the process dying in between.       *)
(*                                                                         *)
(* A byte is the pair of the version of the resource it belongs to and its *)
(* position there.  When attempts start, and how many, is DownloadQueue's  *)
(* business: here one may start whenever the row is queued or paused.  The *)
(* manager's handlers read the row, await the answer, and act on what they *)
(* read whatever the row has become: `readings` are those awaited, acted   *)
(* on in any order.  What the engine saves is on the row at once.          *)
(* Left out: a second download that writes to the same part file, and      *)
(* task.expectedChecksum, which nothing in app/lib sets.                   *)
(***************************************************************************)
EXTENDS DownloadStates, Sequences, FiniteSets

CONSTANTS
  Versions,     \* of the resource, which the origin may replace
  Size,         \* the length of each version
  MaxReadings,  \* bound: readings of the row not yet acted on
  MaxFormer     \* bound: those of a former row, when the row is read again

ASSUME TransferAssumption ==
  /\ Versions \subseteq Nat \ {0}
  /\ Size \in [Versions -> Nat \ {0}]
  /\ MaxReadings \in Nat /\ MaxFormer \in Nat

VARIABLES
  origin,       \* the version the origin serves
  row,          \* the row of the download
  part,         \* the part file; <<>> also when there is none
  dest,         \* the file at the destination; <<>> when there is none
  att,          \* the attempt under way
  readings,     \* what the manager has read of the row and will act on
  changed       \* history: the origin changed since the part file was begun

vars == <<origin, row, part, dest, att, readings, changed>>

Unknown == -1

Content(v) == [i \in 1 .. Size[v] |-> <<v, i>>]

Download == [st : States \cup {"absent"}, got : Nat, total : Nat \cup {Unknown}]

Phases == {"off", "opening", "receiving", "overshot", "verifying",
           "rejecting", "renaming", "renamed", "discarding"}

\* task: the engine's copy; kept: the bytes on disk when the sink was opened;
\* body: what the stream still holds; sum: the version whose digest the origin
\* published, 0 for none.
Attempt == [phase : Phases, task : Download, received : Nat, kept : Nat,
            body : Seq(Versions \X Nat), sum : Versions \cup {0},
            intent : {"none", "pause", "cancel"}]

\* next: the state it will write, or "start" by the pump.
Reading == [row : Download, next : {"start", "queued", "paused", "failed", "canceled"}]

NoDownload == [st |-> "absent", got |-> 0, total |-> Unknown]

NoAttempt == [phase |-> "off", task |-> NoDownload, received |-> 0, kept |-> 0,
              body |-> <<>>, sum |-> 0, intent |-> "none"]

Init ==
  /\ origin \in Versions
  /\ row = NoDownload
  /\ part = <<>>
  /\ dest = <<>>
  /\ att = NoAttempt
  /\ readings = {}
  /\ changed = FALSE

\* The states a task can have in a phase of its attempt.
StatesIn(phase) ==
  CASE phase = "opening" -> {"connecting", "downloading"}
    [] phase \in {"receiving", "overshot", "discarding"} -> {"downloading"}
    [] phase \in {"verifying", "rejecting", "renaming", "renamed"} -> {"verifying"}
    [] OTHER -> {"absent"}

TypeOK ==
  /\ origin \in Versions
  /\ row \in Download
  /\ part \in Seq(Versions \X Nat)
  /\ dest \in Seq(Versions \X Nat)
  /\ att \in Attempt
  /\ att.task.st \in StatesIn(att.phase)
  /\ readings \subseteq Reading
  /\ \A reading \in readings :
       IF reading.next = "start" THEN reading.row.st \in {"queued", "paused"}
       ELSE CanTransition(reading.row.st, reading.next)
  /\ changed \in BOOLEAN

------------------------------------------------------------------------------
(* The attempt *)

EmitStale(next, phase) ==
  /\ row' = [att.task EXCEPT !.st = next]
  /\ att' = IF phase = "off" THEN NoAttempt ELSE [att EXCEPT !.phase = phase]

\* transitionTo in the engine's copy, which is saved over the row.
Emit(next, phase) ==
  /\ row' = [att.task EXCEPT !.st = next]
  /\ att' = IF phase = "off" THEN NoAttempt
            ELSE [att EXCEPT !.task.st = next, !.phase = phase]

\* _fail
Fail == Emit("failed", "off")

AcceptsUnfinished(st) == st \notin {"absent", "done"}

Accepts(st) == st \in {"queued", "paused"}

\* _run of what the pump listed, up to the open.
Start(reading) ==
  /\ reading.next = "start" /\ att.phase = "off"
  /\ readings' = readings \ {reading}
  /\ LET task == [reading.row EXCEPT !.st = IF @ = "paused" THEN "downloading"
                                            ELSE "connecting"]
     IN  /\ row' = task
         /\ att' = [NoAttempt EXCEPT !.phase = "opening", !.task = task]
  /\ UNCHANGED <<origin, part, dest, changed>>

\* What the transport makes of the origin's answer to a request from byte r:
\* the whole resource, the range asked for, or 416, for which the length comes
\* from Content-Range or, failing that, from the error page.
Answers(r) ==
  LET n == Size[origin]
      sums == {0, origin}
      whole == [resumed : {FALSE}, body : {Content(origin)},
                total : {n, Unknown}, sum : sums]
      range == [resumed : {TRUE}, body : {SubSeq(Content(origin), r + 1, n)},
                total : {n, Unknown}, sum : sums]
      beyond == [resumed : {TRUE}, body : {<<>>},
                 total : {n, r, r + 1, Unknown}, sum : sums]
  IN  IF r = 0 THEN whole
      ELSE IF r < n THEN whole \cup range ELSE whole \cup beyond

ExceedsByMore(received, total) == total # Unknown /\ received > total + 1

\* More bytes than an announced total allows.
Exceeds(received, total) == total # Unknown /\ received > total

KeepsUnresumed(r, answer) == answer.total # Unknown /\ r > answer.total

\* Bytes the origin did not resume, or more than it announces, are dropped.
DropsKept(r, answer) ==
  \/ r > 0 /\ ~answer.resumed
  \/ answer.total # Unknown /\ r > answer.total

\* transport.open returned: fit the part file, record the sizes (an unknown
\* total leaves the former one in place) and open the sink.
Opens ==
  /\ att.phase = "opening"
  /\ \E answer \in Answers(Len(part)) :
       LET kept  == IF DropsKept(Len(part), answer) THEN 0 ELSE Len(part)
           total == IF answer.total = Unknown THEN att.task.total
                    ELSE answer.total
           task  == [st |-> "downloading", got |-> kept, total |-> total]
       IN  /\ part' = SubSeq(part, 1, kept)
           /\ IF Exceeds(kept, total)
                THEN \* the entity's constructor throws
                     att' = NoAttempt /\ UNCHANGED row
                ELSE /\ row' = task
                     /\ att' = [att EXCEPT !.phase = "receiving", !.task = task,
                                  !.received = kept, !.kept = kept,
                                  !.body = answer.body, !.sum = answer.sum]
  /\ UNCHANGED <<origin, dest, readings, changed>>

OpenFails ==
  /\ att.phase = "opening"
  /\ Fail
  /\ UNCHANGED <<origin, part, dest, readings, changed>>

\* A chunk of k bytes is written; one too many for the announced total ends the
\* attempt, with the bytes left in the file.
Receives(k) ==
  /\ att.phase = "receiving" /\ att.intent = "none"
  /\ k \in 1 .. Len(att.body)
  /\ part' = part \o SubSeq(att.body, 1, k)
  /\ LET received == att.received + k
         task == [att.task EXCEPT !.got = received]
     IN  IF Exceeds(received, task.total)
           THEN att' = [att EXCEPT !.phase = "overshot"] /\ UNCHANGED row
           ELSE /\ row' = task
                /\ att' = [att EXCEPT !.task = task, !.received = received,
                             !.body = SubSeq(@, k + 1, Len(@))]
  /\ UNCHANGED <<origin, dest, readings, changed>>

OvershotFails ==
  /\ att.phase = "overshot"
  /\ Fail
  /\ UNCHANGED <<origin, part, dest, readings, changed>>

\* The connection closes early and the stream ends as if it were over.
Truncates ==
  /\ att.phase = "receiving" /\ att.body # <<>>
  /\ att' = [att EXCEPT !.body = <<>>]
  /\ UNCHANGED <<origin, row, part, dest, readings, changed>>

\* The stream reports an error.
Breaks ==
  /\ att.phase = "receiving" /\ att.intent = "none"
  /\ Fail
  /\ UNCHANGED <<origin, part, dest, readings, changed>>

\* The stream is over: too short fails, anything else is verified.
Ends ==
  /\ att.phase = "receiving" /\ att.intent = "none" /\ att.body = <<>>
  /\ IF att.task.total # Unknown /\ att.received < att.task.total
       THEN Fail
       ELSE Emit("verifying", "verifying")
  /\ UNCHANGED <<origin, part, dest, readings, changed>>

VerifiedBySize == part # <<>> /\ att.task.total \in {Unknown, Len(part)}

\* The published digest decides; without one, a file that is not empty and has
\* the announced size.
Verified ==
  IF att.sum # 0
    THEN part = Content(att.sum)
    ELSE part # <<>> /\ att.task.total \in {Unknown, Len(part)}

\* _verify: corrupt bytes are deleted, then the attempt fails.
Verifies ==
  /\ att.phase = "verifying"
  /\ IF Verified
       THEN att' = [att EXCEPT !.phase = "renaming"] /\ UNCHANGED part
       ELSE att' = [att EXCEPT !.phase = "rejecting"] /\ part' = <<>>
  /\ UNCHANGED <<origin, row, dest, readings, changed>>

RejectFails ==
  /\ att.phase = "rejecting"
  /\ Fail
  /\ UNCHANGED <<origin, part, dest, readings, changed>>

Renames ==
  /\ att.phase = "renaming"
  /\ dest' = part /\ part' = <<>>
  /\ att' = [att EXCEPT !.phase = "renamed"]
  /\ UNCHANGED <<origin, row, readings, changed>>

Done ==
  /\ att.phase = "renamed"
  /\ Emit("done", "off")
  /\ UNCHANGED <<origin, part, dest, readings, changed>>

\* pause(id), cancel(id) of a running download.
Stop(why) ==
  /\ att.phase \in {"opening", "receiving"}
  /\ att' = [att EXCEPT !.intent = why]
  /\ UNCHANGED <<origin, row, part, dest, readings, changed>>

\* _stopped
Pauses ==
  /\ att.phase = "receiving" /\ att.intent = "pause"
  /\ Emit("paused", "off")
  /\ UNCHANGED <<origin, part, dest, readings, changed>>

DropsPart ==
  /\ att.phase = "receiving" /\ att.intent = "cancel"
  /\ part' = <<>>
  /\ att' = [att EXCEPT !.phase = "discarding"]
  /\ UNCHANGED <<origin, row, dest, readings, changed>>

Cancels ==
  /\ att.phase = "discarding"
  /\ Emit("canceled", "off")
  /\ UNCHANGED <<origin, part, dest, readings, changed>>

------------------------------------------------------------------------------
(* The manager and the user, the process and the origin *)

\* A new task under the same id: the part file stays, for it to resume from.
Enqueue ==
  /\ row' = [st |-> "queued", got |-> 0, total |-> Unknown]
  /\ changed' = (changed /\ (part # <<>> \/ att.phase # "off" \/ readings # {}))
  /\ UNCHANGED <<origin, part, dest, att, readings>>

ReadsFor(next) ==
  /\ Cardinality(readings) < MaxReadings
  /\ Cardinality({reading \in readings : reading.row # row}) <= MaxFormer
  /\ readings' = readings \cup {[row |-> row, next |-> next]}
  /\ UNCHANGED <<origin, row, part, dest, att, changed>>

\* The listing of the pump, one at a time.
PumpReads ==
  /\ Accepts(row.st)
  /\ \A reading \in readings : reading.next # "start"
  /\ ReadsFor("start")

\* restoreQueue, which the Downloads screen calls whenever it is built, also
\* over attempts at work.
RestoreReads ==
  \/ row.st = "connecting" /\ ReadsFor("failed")
  \/ row.st = "downloading" /\ ReadsFor("paused")

\* retry(id), or the end of a backoff.
RetryReads == row.st = "failed" /\ ReadsFor("queued")

\* pause(id), cancel(id) of a download that does not run: the engine is not told,
\* and the part file stays.
StopReads(next) ==
  /\ att.phase = "off"
  /\ CanTransition(row.st, next)
  /\ ReadsFor(next)

\* The row that was read is saved in its new state, over whatever the row is by
\* now and whether or not an attempt has begun.
Acts(reading) ==
  /\ reading.next # "start"
  /\ row' = [reading.row EXCEPT !.st = reading.next]
  /\ readings' = readings \ {reading}
  /\ UNCHANGED <<origin, part, dest, att, changed>>

\* Nothing comes of it: the download runs, or is held back, or its process died.
Forgets(reading) ==
  /\ readings' = readings \ {reading}
  /\ UNCHANGED <<origin, row, part, dest, att, changed>>

\* Bytes added since the sink was opened may not have reached the disk.
LosesTail ==
  \E n \in 0 .. Len(part) :
    /\ IF att.phase \in {"receiving", "overshot"} THEN n >= att.kept
       ELSE n = Len(part)
    /\ part' = SubSeq(part, 1, n)

\* The attempt vanishes without a word: the process died, or a file operation
\* threw out of run().
Dies ==
  /\ att.phase # "off"
  /\ att' = NoAttempt
  /\ LosesTail
  /\ readings' \in {readings, {}}
  /\ UNCHANGED <<origin, row, dest, changed>>

OriginChanges ==
  /\ origin' \in Versions \ {origin}
  /\ changed' = (changed \/ part # <<>> \/ att.phase # "off" \/ row.total # Unknown
                 \/ \E reading \in readings : reading.row.total # Unknown)
  /\ UNCHANGED <<row, part, dest, att, readings>>

AttemptStep ==
  \/ \E reading \in readings : Start(reading)
  \/ Opens \/ OpenFails
  \/ \E v \in Versions : \E k \in 1 .. Size[v] : Receives(k)
  \/ OvershotFails \/ Truncates \/ Breaks \/ Ends
  \/ Verifies \/ RejectFails \/ Renames \/ Done
  \/ Pauses \/ DropsPart \/ Cancels

Next ==
  \/ AttemptStep
  \/ Stop("pause") \/ Stop("cancel")
  \/ Enqueue
  \/ PumpReads \/ RestoreReads \/ RetryReads \/ StopReads("paused") \/ StopReads("canceled")
  \/ \E reading \in readings : Acts(reading) \/ Forgets(reading)
  \/ Dies
  \/ OriginChanges

Spec == Init /\ [][Next]_vars

------------------------------------------------------------------------------
(* Properties *)

\* Bytes are appended where they belong: while the origin serves one version,
\* the part file is the beginning of it, however often the transfer is broken
\* off, resumed by range, restarted by an origin that ignores the range, or cut
\* by a process that died with bytes not yet on disk.
PartIsBeginning ==
  ~changed /\ part # <<>> =>
    \E v \in Versions : /\ Len(part) <= Size[v]
                       /\ part = SubSeq(Content(v), 1, Len(part))

\* The engine's count, the saved progress and the file agree while a stream is
\* read, and the saved progress never exceeds the saved total.
CountsAgree ==
  /\ att.phase = "receiving" =>
       att.received = Len(part) /\ att.task.got = Len(part)
  /\ row.total # Unknown => row.got <= row.total

\* What the attempt that is about to rename knows of the file is enough: with a
\* published digest, or an announced length and an origin that did not change,
\* the file is one whole version of the resource.
RenamesWhole ==
  [][Renames /\ (att.sum # 0 \/ (att.task.total # Unknown /\ ~changed))
       => \E v \in Versions : dest' = Content(v)]_vars

\* The file and the state: see Delivery.  Of a download that is running, the
\* engine's copy is the state, whatever else is written to the row.
Promise == INSTANCE Delivery WITH
  st        <- IF att.phase = "off" THEN row.st ELSE att.task.st,
  out       <- dest,
  ready     <- att.phase = "renamed",
  overtaken <- \/ \E reading \in readings : reading.row.st # row.st
               \/ att.phase # "off" /\ row.st # att.task.st

DeliveryKept == Promise!SpecDelivery

------------------------------------------------------------------------------
(* What comments in the code promise and the code does not keep *)

\* "Failures are returned, never thrown": opening never throws.  Broken by an
\* answer without a length for a part file that outgrew the length on record.
NeverThrows ==
  [][Opens => att'.phase # "off"]_vars
=============================================================================
