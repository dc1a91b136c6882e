----------------------- MODULE DownloadTransfer_proofs -----------------------
(***************************************************************************)
(* Proofs about DownloadTransfer, for any versions of the resource and any *)
(* lengths of them: what the part file holds, what is put at the           *)
(* destination, and that Delivery is implemented.                          *)
(***************************************************************************)
EXTENDS DownloadTransfer, SequenceTheorems, TLAPS

------------------------------------------------------------------------------
(* The inductive invariant *)

Bytes == Versions \X Nat

\* f is the beginning of version v.
Begins(f, v) == Len(f) <= Size[v] /\ \A i \in 1 .. Len(f) : f[i] = Content(v)[i]

\* What a stream still holds after the first r bytes of version v: the rest of
\* it, or nothing when it was cut off.
Follows(body, r, v) ==
  body # <<>> => /\ r + Len(body) = Size[v]
                 /\ \A i \in 1 .. Len(body) : body[i] = Content(v)[r + i]

\* The row of a download that runs is the engine's copy, unless it was enqueued
\* again or someone acted on what he had read before.
RowFollows == att.phase # "off" => row.st \in {att.task.st, "queued", "paused", "failed", "canceled"}

Counts ==
  /\ att.task.total # Unknown => att.task.got <= att.task.total
  /\ row.total # Unknown => row.got <= row.total
  /\ \A reading \in readings : reading.row.total # Unknown => reading.row.got <= reading.row.total
  /\ att.phase = "receiving" => att.received = Len(part) /\ att.task.got = Len(part)
  /\ att.phase = "verifying" /\ att.task.total # Unknown => Len(part) >= att.task.total

Checked == att.phase = "renaming" => Verified

\* While the origin serves one version, file, stream and digest are of it.
OneVersion ==
  ~changed =>
    /\ Begins(part, origin)
    /\ att.phase = "receiving" =>
         att.sum \in {0, origin} /\ Follows(att.body, Len(part), origin)

\* The lengths on record, or read from it, are not below that of the version
\* being served.
TotalsFit ==
  ~changed =>
    /\ row.total # Unknown => row.total >= Size[origin]
    /\ att.task.total # Unknown => att.task.total >= Size[origin]
    /\ \A reading \in readings : reading.row.total # Unknown => reading.row.total >= Size[origin]

IdleTotal == att.phase = "off" => att.task.total = Unknown

TransferInv == TypeOK /\ IdleTotal /\ RowFollows /\ Counts /\ Checked /\ OneVersion /\ TotalsFit

------------------------------------------------------------------------------
(* Files and streams *)

LEMMA Contents ==
  ASSUME NEW v \in Versions
  PROVE  /\ Size[v] \in Nat \ {0}
         /\ Content(v) \in Seq(Bytes) /\ Len(Content(v)) = Size[v] /\ Content(v) # <<>>
<1>1. Size[v] \in Nat \ {0}
  BY TransferAssumption
<1>2. Content(v) \in [1 .. Size[v] -> Bytes]
  BY <1>1 DEF Content, Bytes
<1>3. Content(v) \in Seq(Bytes)
  BY <1>1, <1>2, SeqDef
<1>4. Len(Content(v)) = Size[v]
  <2>1. 1 .. Len(Content(v)) = 1 .. Size[v] /\ Len(Content(v)) \in Nat
    BY <1>2, <1>3, LenProperties
  <2> QED
    BY <1>1, <2>1
<1>5. Content(v) # <<>>
  BY <1>1, <1>4, EmptySeq
<1> QED
  BY <1>1, <1>2, <1>3, <1>4, <1>5

LEMMA Cut ==
  ASSUME NEW f \in Seq(Bytes), NEW n \in 0 .. Len(f)
  PROVE  /\ SubSeq(f, 1, n) \in Seq(Bytes) /\ Len(SubSeq(f, 1, n)) = n
         /\ \A i \in 1 .. n : SubSeq(f, 1, n)[i] = f[i]
<1>1. Len(f) \in Nat /\ \A i \in 1 .. n : f[i] \in Bytes
  BY LenProperties, ElementOfSeq
<1> QED
  BY <1>1, SubSeqProperties

LEMMA Rest ==
  ASSUME NEW f \in Seq(Bytes), NEW r \in 0 .. Len(f)
  PROVE  /\ SubSeq(f, r + 1, Len(f)) \in Seq(Bytes) /\ Len(SubSeq(f, r + 1, Len(f))) = Len(f) - r
         /\ \A i \in 1 .. Len(f) - r : SubSeq(f, r + 1, Len(f))[i] = f[r + i]
<1>1. Len(f) \in Nat /\ r \in Nat /\ \A i \in r + 1 .. Len(f) : f[i] \in Bytes
  BY LenProperties, ElementOfSeq
<1>2. /\ SubSeq(f, r + 1, Len(f)) \in Seq(Bytes)
      /\ Len(SubSeq(f, r + 1, Len(f))) = IF r + 1 <= Len(f) THEN Len(f) - (r + 1) + 1 ELSE 0
      /\ \A i \in 1 .. Len(f) - (r + 1) + 1 : SubSeq(f, r + 1, Len(f))[i] = f[(r + 1) + i - 1]
  <2>1. r + 1 \in Int /\ Len(f) \in Int
    BY <1>1
  <2> QED
    BY <1>1, <2>1, SubSeqProperties
<1> QED
  BY <1>1, <1>2

LEMMA CutBegins ==
  ASSUME NEW f \in Seq(Bytes), NEW n \in 0 .. Len(f), NEW v \in Versions, Begins(f, v)
  PROVE  Begins(SubSeq(f, 1, n), v)
<1>1. Len(f) \in Nat /\ Size[v] \in Nat
  BY LenProperties, Contents
<1> QED
  BY <1>1, Cut DEF Begins

LEMMA EmptyBegins == \A v \in Versions : Begins(<<>>, v)
BY Contents, EmptySeq DEF Begins

\* Only the whole of a version is as long as it.
LEMMA WholeIs ==
  ASSUME NEW f \in Seq(Bytes), NEW v \in Versions, Begins(f, v), Len(f) >= Size[v]
  PROVE  f = Content(v)
<1>1. Content(v) \in Seq(Bytes) /\ Len(f) = Len(Content(v)) /\ Len(f) = Size[v]
  BY Contents, LenProperties DEF Begins
<1>2. \A i \in 1 .. Len(f) : f[i] = Content(v)[i]
  BY <1>1, Contents DEF Begins
<1> QED
  BY <1>1, <1>2, SeqEqual

\* A chunk of the stream goes to the end of the file, where it belongs.
LEMMA ChunkJoins ==
  ASSUME NEW f \in Seq(Bytes), NEW body \in Seq(Bytes), NEW k \in 1 .. Len(body)
  PROVE  /\ f \o SubSeq(body, 1, k) \in Seq(Bytes)
         /\ Len(f \o SubSeq(body, 1, k)) = Len(f) + k
         /\ SubSeq(body, k + 1, Len(body)) \in Seq(Bytes)
         /\ \A v \in Versions : Begins(f, v) /\ Follows(body, Len(f), v) =>
              /\ Begins(f \o SubSeq(body, 1, k), v)
              /\ Follows(SubSeq(body, k + 1, Len(body)), Len(f) + k, v)
<1> DEFINE chunk == SubSeq(body, 1, k)
           rest == SubSeq(body, k + 1, Len(body))
<1>1. Len(f) \in Nat /\ Len(body) \in Nat /\ k \in 0 .. Len(body) /\ body # <<>>
  BY LenProperties, EmptySeq
<1>2. chunk \in Seq(Bytes) /\ Len(chunk) = k /\ \A i \in 1 .. k : chunk[i] = body[i]
  BY <1>1, Cut
<1>3. rest \in Seq(Bytes) /\ Len(rest) = Len(body) - k /\ \A i \in 1 .. Len(body) - k : rest[i] = body[k + i]
  BY <1>1, Rest
<1> HIDE DEF chunk, rest
<1>4. PICK longer : longer = f \o chunk
  OBVIOUS
<1>5. /\ longer \in Seq(Bytes) /\ Len(longer) = Len(f) + k
      /\ \A i \in 1 .. Len(f) + k : /\ i <= Len(f) => longer[i] = f[i]
                                    /\ i > Len(f) => longer[i] = chunk[i - Len(f)]
  <2>1. /\ f \o chunk \in Seq(Bytes) /\ Len(f \o chunk) = Len(f) + Len(chunk)
        /\ \A i \in 1 .. Len(f) + Len(chunk) :
             (f \o chunk)[i] = IF i <= Len(f) THEN f[i] ELSE chunk[i - Len(f)]
    BY <1>2, ConcatProperties
  <2>2. /\ longer \in Seq(Bytes) /\ Len(longer) = Len(f) + k
        /\ \A i \in 1 .. Len(f) + k : longer[i] = IF i <= Len(f) THEN f[i] ELSE chunk[i - Len(f)]
    BY <1>2, <1>4, <2>1
  <2> QED
    BY <1>1, <2>2
<1>6. ASSUME NEW v \in Versions, Begins(f, v), Follows(body, Len(f), v)
      PROVE  Begins(longer, v) /\ Follows(rest, Len(f) + k, v)
  <2>1. /\ Len(f) + Len(body) = Size[v] /\ Size[v] \in Nat
        /\ \A i \in 1 .. Len(body) : body[i] = Content(v)[Len(f) + i]
    BY <1>1, <1>6, Contents DEF Follows
  <2>2. Follows(rest, Len(f) + k, v)
    BY <1>1, <1>3, <2>1 DEF Follows
  <2>3. ASSUME NEW i \in 1 .. Len(f) + k
        PROVE  longer[i] = Content(v)[i]
    <3>1. CASE i <= Len(f)
      <4>1. i \in 1 .. Len(f)
        BY <1>1, <3>1
      <4>2. longer[i] = f[i]
        BY <1>5, <3>1
      <4>3. f[i] = Content(v)[i]
        BY <1>6, <4>1 DEF Begins
      <4> QED
        BY <4>2, <4>3
    <3>2. CASE i > Len(f)
      <4>1. PICK j \in 1 .. k : j = i - Len(f)
        BY <1>1, <3>2
      <4>2. j \in 1 .. Len(body) /\ Len(f) + j = i
        BY <1>1, <4>1
      <4>3. longer[i] = chunk[j] /\ chunk[j] = body[j]
        BY <1>2, <1>5, <3>2, <4>1
      <4>4. body[j] = Content(v)[Len(f) + j]
        BY <2>1, <4>2
      <4> QED
        BY <4>2, <4>3, <4>4
    <3> QED
      BY <1>1, <3>1, <3>2
  <2> QED
    <3>1. Len(longer) = Len(f) + k /\ Len(f) + k <= Size[v]
      BY <1>1, <1>5, <2>1
    <3> QED
      BY <2>2, <2>3, <3>1 DEF Begins
<1> QED
  BY <1>3, <1>4, <1>5, <1>6 DEF chunk, rest

\* What the transport makes of an answer: the length is announced or not, but
\* never too small, and the stream continues what is kept of the file.
LEMMA AnswersFit ==
  ASSUME origin \in Versions, NEW r \in Nat, NEW answer \in Answers(r)
  PROVE  /\ answer.body \in Seq(Bytes) /\ answer.sum \in {0, origin}
         /\ answer.total \in Nat \cup {Unknown}
         /\ answer.total # Unknown => answer.total >= Size[origin]
         /\ Follows(answer.body, IF DropsKept(r, answer) THEN 0 ELSE r, origin)
<1>1. /\ Size[origin] \in Nat \ {0} /\ Content(origin) \in Seq(Bytes)
      /\ Len(Content(origin)) = Size[origin] /\ Content(origin) # <<>>
  BY Contents
<1>2. CASE /\ ~answer.resumed /\ answer.body = Content(origin)
           /\ answer.total \in {Size[origin], Unknown} /\ answer.sum \in {0, origin}
  <2>1. ~DropsKept(r, answer) => r = 0
    BY <1>2 DEF DropsKept
  <2> QED
    BY <1>1, <1>2, <2>1 DEF Follows, Unknown
<1>3. CASE /\ r < Size[origin] /\ r > 0 /\ answer.resumed
           /\ answer.body = SubSeq(Content(origin), r + 1, Size[origin])
           /\ answer.total \in {Size[origin], Unknown} /\ answer.sum \in {0, origin}
  <2>1. ~DropsKept(r, answer)
    BY <1>1, <1>3 DEF DropsKept, Unknown
  <2>2. PICK body : body = answer.body
    OBVIOUS
  <2>3. /\ body \in Seq(Bytes) /\ Len(body) = Size[origin] - r
        /\ \A i \in 1 .. Size[origin] - r : body[i] = Content(origin)[r + i]
    <3>1. r \in 0 .. Len(Content(origin))
      BY <1>1, <1>3
    <3> QED
      BY <1>1, <1>3, <2>2, <3>1, Rest
  <2>4. r + Len(body) = Size[origin]
    BY <1>1, <1>3, <2>3
  <2>5. \A i \in 1 .. Len(body) : body[i] = Content(origin)[r + i]
    BY <2>3
  <2>6. Follows(body, r, origin)
    BY <2>4, <2>5 DEF Follows
  <2> QED
    BY <1>1, <1>3, <2>1, <2>2, <2>3, <2>6 DEF Unknown
<1>4. CASE /\ r >= Size[origin] /\ answer.resumed /\ answer.body = <<>>
           /\ answer.total \in {Size[origin], r, r + 1, Unknown} /\ answer.sum \in {0, origin}
  BY <1>1, <1>4, EmptySeq DEF Follows, Unknown
<1>5. CASE r = 0
  BY <1>2, <1>5 DEF Answers
<1>6. CASE r > 0 /\ r < Size[origin]
  BY <1>1, <1>2, <1>3, <1>6 DEF Answers
<1>7. CASE r >= Size[origin]
  <2>1. r # 0 /\ ~(r < Size[origin])
    BY <1>1, <1>7
  <2>2. \/ answer \in [resumed : {FALSE}, body : {Content(origin)},
                      total : {Size[origin], Unknown}, sum : {0, origin}]
        \/ answer \in [resumed : {TRUE}, body : {<<>>},
                      total : {Size[origin], r, r + 1, Unknown}, sum : {0, origin}]
    BY <2>1 DEF Answers
  <2> QED
    BY <1>2, <1>4, <1>7, <2>2
<1> QED
  BY <1>1, <1>5, <1>6, <1>7

------------------------------------------------------------------------------
(* The attempt *)

LEMMA NoAttemptIs ==
  /\ NoAttempt \in Attempt /\ NoAttempt.phase = "off" /\ NoAttempt.task.total = Unknown
  /\ NoAttempt.task.st \in StatesIn("off")
BY EmptySeq DEF NoAttempt, NoDownload, Attempt, Phases, Download, States, Unknown, StatesIn

LEMMA Initially == Init => TransferInv
<1> SUFFICES ASSUME Init PROVE TransferInv
  OBVIOUS
<1>1. /\ origin \in Versions /\ row = NoDownload /\ part = <<>> /\ dest = <<>>
      /\ att = NoAttempt /\ changed = FALSE /\ readings = {}
  BY DEF Init
<1>2. row \in Download /\ row.total = Unknown
  BY <1>1 DEF NoDownload, Download, Unknown, States
<1>3. <<>> \in Seq(Versions \X Nat)
  BY EmptySeq
<1> QED
  BY <1>1, <1>2, <1>3, NoAttemptIs, EmptyBegins
     DEF TransferInv, TypeOK, IdleTotal, RowFollows, Counts, Checked, OneVersion, TotalsFit

\* The attempt ends with what the engine knows.
LEMMA EmitOffKeeps ==
  ASSUME TransferInv, NEW next \in States, att.phase # "off", Emit(next, "off"),
         UNCHANGED <<origin, part, dest, readings, changed>>
  PROVE  TransferInv'
<1>1. /\ row' = [att.task EXCEPT !.st = next] /\ att' = NoAttempt /\ att.task \in Download
  BY DEF Emit, TransferInv, TypeOK, Attempt
<1>2. /\ row' \in Download /\ row'.st = next
      /\ row'.got = att.task.got /\ row'.total = att.task.total
  BY <1>1 DEF Download
<1> QED
  BY <1>1, <1>2, NoAttemptIs
     DEF TransferInv, TypeOK, IdleTotal, RowFollows, Counts, Checked, OneVersion, TotalsFit

LEMMA StartKeeps ==
  ASSUME TransferInv, NEW reading \in readings, Start(reading)
  PROVE  TransferInv'
<1> DEFINE task == [reading.row EXCEPT !.st = IF @ = "paused" THEN "downloading" ELSE "connecting"]
           attempt == [NoAttempt EXCEPT !.phase = "opening", !.task = task]
<1>1. /\ row' = task /\ att' = attempt
      /\ UNCHANGED <<origin, part, dest, changed>> /\ reading.row \in Download
      /\ readings' \subseteq readings
  BY DEF TransferInv, TypeOK, Start, Reading
<1>2. /\ task \in Download /\ task.st \in {"connecting", "downloading"}
      /\ task.got = reading.row.got /\ task.total = reading.row.total
  BY <1>1 DEF Download, States
<1>3. attempt \in Attempt /\ attempt.phase = "opening" /\ attempt.task = task
  BY <1>2, EmptySeq DEF NoAttempt, Attempt, Phases
<1> HIDE DEF task, attempt
<1> QED
  BY <1>1, <1>2, <1>3
     DEF TransferInv, TypeOK, IdleTotal, RowFollows, Counts, Checked, OneVersion, TotalsFit, StatesIn

LEMMA OpensKeeps ==
  ASSUME TransferInv, Opens
  PROVE  TransferInv'
<1>1. PICK answer \in Answers(Len(part)) :
        LET kept  == IF DropsKept(Len(part), answer) THEN 0 ELSE Len(part)
            total == IF answer.total = Unknown THEN att.task.total ELSE answer.total
            task  == [st |-> "downloading", got |-> kept, total |-> total]
        IN  /\ part' = SubSeq(part, 1, kept)
            /\ IF Exceeds(kept, total)
                 THEN att' = NoAttempt /\ UNCHANGED row
                 ELSE /\ row' = task
                      /\ att' = [att EXCEPT !.phase = "receiving", !.task = task,
                                   !.received = kept, !.kept = kept,
                                   !.body = answer.body, !.sum = answer.sum]
  BY DEF Opens
<1> DEFINE kept == IF DropsKept(Len(part), answer) THEN 0 ELSE Len(part)
           total == IF answer.total = Unknown THEN att.task.total ELSE answer.total
           task == [st |-> "downloading", got |-> kept, total |-> total]
           attempt == [att EXCEPT !.phase = "receiving", !.task = task, !.received = kept,
                                  !.kept = kept, !.body = answer.body, !.sum = answer.sum]
<1>2. /\ TypeOK /\ att.phase = "opening" /\ UNCHANGED <<origin, dest, readings, changed>>
      /\ part \in Seq(Bytes) /\ Len(part) \in Nat
  BY LenProperties DEF TransferInv, TypeOK, Opens, Bytes
<1>3. /\ answer.body \in Seq(Bytes) /\ answer.sum \in {0, origin}
      /\ answer.total \in Nat \cup {Unknown}
      /\ answer.total # Unknown => answer.total >= Size[origin]
      /\ Follows(answer.body, kept, origin)
  BY <1>2, AnswersFit DEF TypeOK
<1>4. /\ kept \in 0 .. Len(part) /\ total \in Nat \cup {Unknown}
      /\ total # Unknown => total = att.task.total \/ total >= Size[origin]
  BY <1>2, <1>3 DEF TypeOK, Attempt, Download
<1>5. /\ part' = SubSeq(part, 1, kept)
      /\ Exceeds(kept, total) => att' = NoAttempt /\ UNCHANGED row
      /\ ~Exceeds(kept, total) => row' = task /\ att' = attempt
  BY <1>1
<1>6. task \in Download /\ task.st = "downloading" /\ task.got = kept /\ task.total = total
  BY <1>4 DEF Download, States
<1> HIDE DEF task, total, kept
<1>7. /\ part' \in Seq(Bytes) /\ Len(part') = kept
      /\ Begins(part, origin) => Begins(part', origin)
  BY <1>2, <1>4, <1>5, Cut, CutBegins DEF TypeOK
<1>8. CASE Exceeds(kept, total)
  BY <1>2, <1>5, <1>7, <1>8, NoAttemptIs
     DEF TransferInv, TypeOK, IdleTotal, RowFollows, Counts, Checked, OneVersion, TotalsFit, Bytes
<1>9. CASE ~Exceeds(kept, total)
  <2>1. /\ attempt \in Attempt /\ attempt.phase = "receiving" /\ attempt.task = task
        /\ attempt.received = kept /\ attempt.body = answer.body /\ attempt.sum = answer.sum
    <3>1. kept \in Nat /\ answer.sum \in Versions \cup {0} /\ answer.body \in Seq(Versions \X Nat)
      BY <1>2, <1>3, <1>4 DEF TypeOK, Bytes
    <3>2. att \in Attempt
      BY <1>2 DEF TypeOK
    <3> QED
      BY <1>6, <3>1, <3>2 DEF Attempt, Phases
  <2>2. total # Unknown => kept <= total
    BY <1>4, <1>9 DEF Exceeds, Unknown
  <2> HIDE DEF attempt
  <2> QED
    BY <1>2, <1>3, <1>4, <1>5, <1>6, <1>7, <1>9, <2>1, <2>2
       DEF TransferInv, TypeOK, IdleTotal, RowFollows, Counts, Checked, OneVersion, TotalsFit, Bytes, StatesIn
<1> QED
  BY <1>8, <1>9

LEMMA ReceivesKeeps ==
  ASSUME TransferInv, NEW k \in Nat, Receives(k)
  PROVE  TransferInv'
<1> DEFINE received == att.received + k
           task == [att.task EXCEPT !.got = received]
           body == SubSeq(att.body, k + 1, Len(att.body))
           attempt == [att EXCEPT !.task = task, !.received = received, !.body = body]
<1>1. /\ TypeOK /\ att.phase = "receiving" /\ k \in 1 .. Len(att.body)
      /\ UNCHANGED <<origin, dest, readings, changed>>
      /\ part' = part \o SubSeq(att.body, 1, k)
      /\ Exceeds(received, task.total) =>
           att' = [att EXCEPT !.phase = "overshot"] /\ UNCHANGED row
      /\ ~Exceeds(received, task.total) => row' = task /\ att' = attempt
  BY DEF TransferInv, Receives
<1>2. /\ part \in Seq(Bytes) /\ att.body \in Seq(Bytes) /\ Len(part) \in Nat
      /\ att.task \in Download /\ att.received = Len(part) /\ att.task.st = "downloading"
  BY <1>1, LenProperties DEF TransferInv, TypeOK, Counts, Attempt, Bytes, StatesIn
<1>3. /\ part' \in Seq(Bytes) /\ Len(part') = Len(part) + k /\ body \in Seq(Bytes)
      /\ Begins(part, origin) /\ Follows(att.body, Len(part), origin) =>
           Begins(part', origin) /\ Follows(body, Len(part) + k, origin)
  BY <1>1, <1>2, ChunkJoins DEF TypeOK
<1>4. /\ task \in Download /\ task.st = "downloading" /\ task.got = received
      /\ task.total = att.task.total /\ received \in Nat /\ received = Len(part) + k
  <2>1. received \in Nat /\ received = Len(part) + k
    BY <1>2
  <2> HIDE DEF received
  <2> QED
    BY <1>2, <2>1 DEF Download
<1> HIDE DEF received, task, body
<1>5. CASE Exceeds(received, task.total)
  <2>1. /\ att' \in Attempt /\ att'.phase = "overshot" /\ att'.task = att.task
    BY <1>1, <1>5 DEF TypeOK, Attempt, Phases
  <2> QED
    BY <1>1, <1>2, <1>3, <1>5, <2>1
       DEF TransferInv, TypeOK, IdleTotal, RowFollows, Counts, Checked, OneVersion, TotalsFit, Bytes, StatesIn
<1>6. CASE ~Exceeds(received, task.total)
  <2>1. /\ attempt \in Attempt /\ attempt.phase = "receiving" /\ attempt.task = task
        /\ attempt.received = received /\ attempt.body = body /\ attempt.sum = att.sum
    BY <1>1, <1>3, <1>4 DEF TypeOK, Attempt, Phases, Bytes
  <2>2. task.total # Unknown => received <= task.total
    BY <1>4, <1>6 DEF Exceeds, Unknown, Download
  <2> HIDE DEF attempt
  <2> QED
    BY <1>1, <1>2, <1>3, <1>4, <1>6, <2>1, <2>2
       DEF TransferInv, TypeOK, IdleTotal, RowFollows, Counts, Checked, OneVersion, TotalsFit, Bytes, StatesIn
<1> QED
  BY <1>5, <1>6

LEMMA EndsKeeps ==
  ASSUME TransferInv, Ends
  PROVE  TransferInv'
<1>1. /\ TypeOK /\ att.phase = "receiving" /\ att.body = <<>>
      /\ UNCHANGED <<origin, part, dest, readings, changed>> /\ att.received = Len(part)
      /\ att.task \in Download /\ att.task.st = "downloading" /\ Len(part) \in Nat
  BY LenProperties DEF TransferInv, TypeOK, Ends, Counts, Attempt, StatesIn, Bytes
<1>2. CASE att.task.total # Unknown /\ att.received < att.task.total
  <2>1. Emit("failed", "off") /\ "failed" \in States
    BY <1>2 DEF Ends, Fail, States
  <2> QED
    BY <1>1, <2>1, EmitOffKeeps
<1>3. CASE ~(att.task.total # Unknown /\ att.received < att.task.total)
  <2> DEFINE task == [att.task EXCEPT !.st = "verifying"]
             attempt == [att EXCEPT !.task.st = "verifying", !.phase = "verifying"]
  <2>1. row' = task /\ att' = attempt
    BY <1>3 DEF Ends, Emit
  <2>2. /\ task \in Download /\ task.st = "verifying" /\ task.got = att.task.got
        /\ task.total = att.task.total
    BY <1>1 DEF Download, States
  <2>3. /\ attempt \in Attempt /\ attempt.phase = "verifying" /\ attempt.task = task
        /\ attempt.sum = att.sum
    BY <1>1, <2>2 DEF TypeOK, Attempt, Phases
  <2>4. att.task.total # Unknown => Len(part) >= att.task.total
    BY <1>1, <1>3 DEF Download, Unknown
  <2> HIDE DEF task, attempt
  <2> QED
    BY <1>1, <2>1, <2>2, <2>3, <2>4
       DEF TransferInv, TypeOK, IdleTotal, RowFollows, Counts, Checked, OneVersion, TotalsFit, StatesIn
<1> QED
  BY <1>2, <1>3

LEMMA VerifiesKeeps ==
  ASSUME TransferInv, Verifies
  PROVE  TransferInv'
<1>1. /\ TypeOK /\ att.phase = "verifying" /\ UNCHANGED <<origin, row, dest, readings, changed>>
      /\ part \in Seq(Bytes) /\ Len(part) \in Nat /\ att.task.st = "verifying"
      /\ att.task \in Download
  BY LenProperties DEF TransferInv, TypeOK, Verifies, StatesIn, Bytes, Attempt
<1>2. CASE Verified
  <2>1. att' = [att EXCEPT !.phase = "renaming"] /\ part' = part
    BY <1>2 DEF Verifies
  <2>2. /\ att' \in Attempt /\ att'.phase = "renaming" /\ att'.task = att.task /\ att'.sum = att.sum
    BY <1>1, <2>1 DEF TypeOK, Attempt, Phases
  <2>3. Verified'
    BY <1>2, <2>1, <2>2 DEF Verified
  <2> QED
    BY <1>1, <2>1, <2>2, <2>3
       DEF TransferInv, TypeOK, IdleTotal, RowFollows, Counts, Checked, OneVersion, TotalsFit, StatesIn
<1>3. CASE ~Verified
  <2>1. att' = [att EXCEPT !.phase = "rejecting"] /\ part' = <<>>
    BY <1>3 DEF Verifies
  <2>2. /\ att' \in Attempt /\ att'.phase = "rejecting" /\ att'.task = att.task
    BY <1>1, <2>1 DEF TypeOK, Attempt, Phases
  <2>3. <<>> \in Seq(Versions \X Nat)
    BY EmptySeq
  <2> QED
    BY <1>1, <2>1, <2>2, <2>3, EmptyBegins
       DEF TransferInv, TypeOK, IdleTotal, RowFollows, Counts, Checked, OneVersion, TotalsFit, StatesIn
<1> QED
  BY <1>2, <1>3

\* Steps that only move the attempt on, or cut its stream off.
LEMMA MovesOnKeep ==
  ASSUME TransferInv, Truncates \/ Renames \/ DropsPart \/ Stop("pause") \/ Stop("cancel")
  PROVE  TransferInv'
<1>1. <<>> \in Seq(Versions \X Nat)
  BY EmptySeq
<1>2. CASE Truncates
  <2>1. /\ att.phase = "receiving" /\ UNCHANGED <<origin, row, part, dest, readings, changed>>
        /\ att' = [att EXCEPT !.body = <<>>] /\ att \in Attempt
    BY <1>2 DEF Truncates, TransferInv, TypeOK
  <2>2. /\ att' \in Attempt /\ att'.phase = att.phase /\ att'.task = att.task
        /\ att'.received = att.received /\ att'.sum = att.sum /\ att'.body = <<>>
    BY <1>1, <2>1 DEF Attempt
  <2> QED
    BY <2>1, <2>2
       DEF TransferInv, TypeOK, IdleTotal, RowFollows, Counts, Checked, OneVersion, TotalsFit, Follows
<1>3. CASE Renames
  <2>1. /\ att.phase = "renaming" /\ UNCHANGED <<origin, row, readings, changed>> /\ att \in Attempt
        /\ dest' = part /\ part' = <<>> /\ att' = [att EXCEPT !.phase = "renamed"]
    BY <1>3 DEF Renames, TransferInv, TypeOK
  <2>2. /\ att' \in Attempt /\ att'.phase = "renamed" /\ att'.task = att.task
    BY <2>1 DEF Attempt, Phases
  <2> QED
    BY <1>1, <2>1, <2>2, EmptyBegins
       DEF TransferInv, TypeOK, IdleTotal, RowFollows, Counts, Checked, OneVersion, TotalsFit, StatesIn
<1>4. CASE DropsPart
  <2>1. /\ att.phase = "receiving" /\ UNCHANGED <<origin, row, dest, readings, changed>> /\ att \in Attempt
        /\ part' = <<>> /\ att' = [att EXCEPT !.phase = "discarding"]
    BY <1>4 DEF DropsPart, TransferInv, TypeOK
  <2>2. /\ att' \in Attempt /\ att'.phase = "discarding" /\ att'.task = att.task
    BY <2>1 DEF Attempt, Phases
  <2> QED
    BY <1>1, <2>1, <2>2, EmptyBegins
       DEF TransferInv, TypeOK, IdleTotal, RowFollows, Counts, Checked, OneVersion, TotalsFit, StatesIn
<1>5. ASSUME NEW why \in {"pause", "cancel"}, Stop(why)
      PROVE  TransferInv'
  <2>1. /\ att.phase \in {"opening", "receiving"} /\ UNCHANGED <<origin, row, part, dest, readings, changed>>
        /\ att' = [att EXCEPT !.intent = why] /\ att \in Attempt
    BY <1>5 DEF Stop, TransferInv, TypeOK
  <2>2. /\ att' \in Attempt /\ att'.phase = att.phase /\ att'.task = att.task
        /\ att'.received = att.received /\ att'.sum = att.sum /\ att'.body = att.body
    BY <2>1 DEF Attempt
  <2> QED
    BY <2>1, <2>2
       DEF TransferInv, TypeOK, IdleTotal, RowFollows, Counts, Checked, OneVersion, TotalsFit
<1> QED
  BY <1>2, <1>3, <1>4, <1>5

------------------------------------------------------------------------------
(* The row, the process and the origin *)

LEMMA EnqueueKeeps ==
  ASSUME TransferInv, Enqueue
  PROVE  TransferInv'
<1>1. /\ UNCHANGED <<origin, part, dest, att, readings>> /\ origin \in Versions
      /\ row' \in Download /\ row'.st = "queued" /\ row'.total = Unknown
      /\ changed' = (changed /\ (part # <<>> \/ att.phase # "off" \/ readings # {}))
  BY DEF TransferInv, TypeOK, Enqueue, Download, States, Unknown
<1>2. /\ changed' \in BOOLEAN
      /\ ~changed' => ~changed \/ (part = <<>> /\ att.phase = "off" /\ readings = {})
  BY <1>1
<1>3. Begins(<<>>, origin)
  BY <1>1, EmptyBegins
<1>4. TypeOK' /\ IdleTotal' /\ RowFollows' /\ Counts' /\ Checked'
  BY <1>1, <1>2 DEF TransferInv, TypeOK, IdleTotal, RowFollows, Counts, Checked, Verified
<1>5. OneVersion'
  BY <1>1, <1>2, <1>3 DEF TransferInv, OneVersion
<1>6. TotalsFit'
  BY <1>1, <1>2 DEF TransferInv, TotalsFit, IdleTotal
<1> QED
  BY <1>4, <1>5, <1>6 DEF TransferInv

ManagerReads ==
  PumpReads \/ RestoreReads \/ RetryReads \/ StopReads("paused") \/ StopReads("canceled")

\* What a reading is for is what the row that was read allows.
LEMMA ReadingsAre ==
  ASSUME ManagerReads
  PROVE  \E next \in {"start", "queued", "paused", "failed", "canceled"} :
           /\ ReadsFor(next)
           /\ IF next = "start" THEN row.st \in {"queued", "paused"} ELSE CanTransition(row.st, next)
BY DEF ManagerReads, PumpReads, RestoreReads, RetryReads, StopReads, Accepts, CanTransition, Transitions

\* What is read is a row, with its counts.
LEMMA ReadsKeep ==
  ASSUME TransferInv, NEW next \in {"start", "queued", "paused", "failed", "canceled"}, ReadsFor(next),
         IF next = "start" THEN row.st \in {"queued", "paused"} ELSE CanTransition(row.st, next)
  PROVE  TransferInv'
<1> DEFINE new == [row |-> row, next |-> next]
<1>1. /\ readings' = readings \cup {new} /\ UNCHANGED <<origin, row, part, dest, att, changed>>
      /\ row \in Download
  BY DEF TransferInv, TypeOK, ReadsFor
<1>2. new \in Reading /\ new.row = row /\ new.next = next
  BY <1>1 DEF Reading
<1> HIDE DEF new
<1> QED
  BY <1>1, <1>2 DEF TransferInv, TypeOK, IdleTotal, RowFollows, Counts, Checked, Verified, OneVersion, TotalsFit

LEMMA ActsKeep ==
  ASSUME TransferInv, NEW reading \in readings, Acts(reading) \/ Forgets(reading)
  PROVE  TransferInv'
<1>1. /\ UNCHANGED <<origin, part, dest, att, changed>> /\ readings' \subseteq readings
      /\ reading.row \in Download /\ reading.next \in {"start", "queued", "paused", "failed", "canceled"}
  BY DEF TransferInv, TypeOK, Acts, Forgets, Reading
<1>2. CASE Acts(reading)
  <2>1. /\ row' = [reading.row EXCEPT !.st = reading.next]
        /\ reading.next \in {"queued", "paused", "failed", "canceled"}
    BY <1>1, <1>2 DEF Acts
  <2>2. /\ row' \in Download /\ row'.st = reading.next
        /\ row'.got = reading.row.got /\ row'.total = reading.row.total
    BY <1>1, <2>1 DEF Download, States
  <2> QED
    BY <1>1, <2>1, <2>2
       DEF TransferInv, TypeOK, IdleTotal, RowFollows, Counts, Checked, Verified, OneVersion, TotalsFit
<1>3. CASE Forgets(reading)
  <2>1. row' = row
    BY <1>3 DEF Forgets
  <2> QED
    BY <1>1, <2>1
       DEF TransferInv, TypeOK, IdleTotal, RowFollows, Counts, Checked, Verified, OneVersion, TotalsFit
<1> QED
  BY <1>2, <1>3

LEMMA DiesKeeps ==
  ASSUME TransferInv, Dies
  PROVE  TransferInv'
<1>1. /\ att' = NoAttempt /\ UNCHANGED <<origin, row, dest, changed>>
      /\ part \in Seq(Bytes) /\ origin \in Versions /\ readings' \subseteq readings
  BY DEF TransferInv, TypeOK, Dies, Bytes
<1>2. PICK n \in 0 .. Len(part) : part' = SubSeq(part, 1, n)
  BY DEF Dies, LosesTail
<1>3. part' \in Seq(Bytes) /\ (Begins(part, origin) => Begins(part', origin))
  BY <1>1, <1>2, Cut, CutBegins
<1> QED
  BY <1>1, <1>3, NoAttemptIs
     DEF TransferInv, TypeOK, IdleTotal, RowFollows, Counts, Checked, OneVersion, TotalsFit, Bytes

\* Where bytes, a stream or a length are of the former version, the change is
\* one of the file.
LEMMA OriginChangesKeeps ==
  ASSUME TransferInv, OriginChanges
  PROVE  TransferInv'
<1>1. /\ origin' \in Versions /\ UNCHANGED <<row, part, dest, att, readings>>
      /\ changed' = (changed \/ part # <<>> \/ att.phase # "off" \/ row.total # Unknown
                     \/ \E reading \in readings : reading.row.total # Unknown)
      /\ changed \in BOOLEAN /\ TypeOK
  BY DEF TransferInv, TypeOK, OriginChanges
<1>2. TypeOK' /\ IdleTotal' /\ RowFollows' /\ Counts' /\ Checked'
  BY <1>1 DEF TransferInv, TypeOK, IdleTotal, RowFollows, Counts, Checked, Verified
<1>3. SUFFICES ASSUME ~changed' PROVE OneVersion' /\ TotalsFit'
  BY <1>2 DEF TransferInv, OneVersion, TotalsFit
<1>4. /\ part = <<>> /\ att.phase = "off" /\ row.total = Unknown
      /\ \A reading \in readings : reading.row.total = Unknown
  BY <1>1, <1>3
<1>5. Begins(part', origin')
  BY <1>1, <1>4, EmptyBegins
<1> QED
  BY <1>1, <1>4, <1>5 DEF OneVersion, TotalsFit, TransferInv, IdleTotal

------------------------------------------------------------------------------
(* The theorems *)

\* The inductive invariant holds in every state reached.
THEOREM TransferInvariant == Spec => []TransferInv
<1>1. TransferInv /\ [Next]_vars => TransferInv'
  <2> SUFFICES ASSUME TransferInv, [Next]_vars
               PROVE  TransferInv'
    OBVIOUS
  <2>1. att.task.st \in StatesIn(att.phase)
    BY DEF TransferInv, TypeOK
  <2>2. ASSUME OpenFails \/ OvershotFails \/ Breaks \/ RejectFails \/ Done \/ Pauses \/ Cancels
        PROVE  TransferInv'
    <3>1. \E next \in States :
            Emit(next, "off") /\ att.phase # "off" /\ UNCHANGED <<origin, part, dest, readings, changed>>
      BY <2>2 DEF OpenFails, OvershotFails, Breaks, RejectFails, Done, Pauses, Cancels, Fail, States
    <3> QED
      BY <3>1, EmitOffKeeps
  <2>3. ASSUME NEW v \in Versions, NEW k \in 1 .. Size[v], Receives(k)
        PROVE  TransferInv'
    <3>1. k \in Nat
      BY Contents
    <3> QED
      BY <2>3, <3>1, ReceivesKeeps
  <2>4. ASSUME (\E reading \in readings : Start(reading)) \/ Opens \/ Ends \/ Verifies
        PROVE  TransferInv'
    BY <2>4, StartKeeps, OpensKeeps, EndsKeeps, VerifiesKeeps
  <2>5. ASSUME Truncates \/ Renames \/ DropsPart \/ Stop("pause") \/ Stop("cancel")
        PROVE  TransferInv'
    BY <2>5, MovesOnKeep
  <2>6. ASSUME \/ Enqueue \/ ManagerReads
               \/ \E reading \in readings : Acts(reading) \/ Forgets(reading)
        PROVE  TransferInv'
    <3>1. CASE ManagerReads
      <4>1. PICK next \in {"start", "queued", "paused", "failed", "canceled"} :
              /\ ReadsFor(next)
              /\ IF next = "start" THEN row.st \in {"queued", "paused"} ELSE CanTransition(row.st, next)
        BY <3>1, ReadingsAre
      <4> QED
        BY <4>1, ReadsKeep
    <3> QED
      BY <2>6, <3>1, EnqueueKeeps, ActsKeep
  <2>7. ASSUME Dies \/ OriginChanges
        PROVE  TransferInv'
    BY <2>7, DiesKeeps, OriginChangesKeeps
  <2>8. CASE UNCHANGED vars
    BY <2>8 DEF vars, TransferInv, TypeOK, IdleTotal, RowFollows, Counts, Checked, Verified, OneVersion, TotalsFit
  <2> QED
    BY <2>2, <2>3, <2>4, <2>5, <2>6, <2>7, <2>8 DEF Next, AttemptStep, ManagerReads
<1> QED
  BY <1>1, Initially, PTL DEF Spec

\* A download is in a state its attempt can be in, whatever is enqueued,
\* stopped or broken off meanwhile.
THEOREM TransferTypeCorrect == Spec => []TypeOK
<1>1. TransferInv => TypeOK
  BY DEF TransferInv
<1> QED
  BY <1>1, TransferInvariant, PTL

\* While the origin serves one version the part file is the beginning of it
\* (download_engine.dart:132-178).
THEOREM PartBegins == Spec => []PartIsBeginning
<1>1. TransferInv => PartIsBeginning
  <2> SUFFICES ASSUME TransferInv, ~changed
               PROVE  \E v \in Versions : /\ Len(part) <= Size[v]
                                          /\ part = SubSeq(Content(v), 1, Len(part))
    BY DEF PartIsBeginning
  <2>1. origin \in Versions /\ part \in Seq(Bytes) /\ Begins(part, origin) /\ Len(part) \in Nat
    BY LenProperties DEF TransferInv, TypeOK, OneVersion, Bytes
  <2>2. /\ Content(origin) \in Seq(Bytes) /\ Len(part) \in 0 .. Len(Content(origin))
        /\ Len(part) <= Size[origin]
    BY <2>1, Contents DEF Begins
  <2>3. PICK cut : cut = SubSeq(Content(origin), 1, Len(part))
    OBVIOUS
  <2>4. /\ cut \in Seq(Bytes) /\ Len(cut) = Len(part)
        /\ \A i \in 1 .. Len(part) : cut[i] = Content(origin)[i]
    BY <2>2, <2>3, Cut
  <2>5. part = cut
    <3>1. \A i \in 1 .. Len(part) : part[i] = cut[i]
      BY <2>1, <2>4 DEF Begins
    <3> QED
      BY <2>1, <2>4, <3>1, SeqEqual
  <2> QED
    BY <2>1, <2>2, <2>3, <2>5
<1> QED
  BY <1>1, TransferInvariant, PTL

\* The engine's count is the length of the file, and no saved progress exceeds
\* its total (download_engine.dart:158-178, download_task.dart:157-174).
THEOREM CountsAlwaysAgree == Spec => []CountsAgree
<1>1. TransferInv => CountsAgree
  BY DEF TransferInv, Counts, CountsAgree
<1> QED
  BY <1>1, TransferInvariant, PTL

\* What is renamed with a digest, or with an announced length and an origin that
\* did not change, is one whole version (download_engine.dart:205-252).
THEOREM WholeIsRenamed == Spec => RenamesWhole
<1> DEFINE Whole == Renames /\ (att.sum # 0 \/ (att.task.total # Unknown /\ ~changed))
                      => \E v \in Versions : dest' = Content(v)
<1>1. TransferInv /\ [Next]_vars => [Whole]_vars
  <2> SUFFICES ASSUME TransferInv, Renames, att.sum # 0 \/ (att.task.total # Unknown /\ ~changed)
               PROVE  \E v \in Versions : part = Content(v)
    BY DEF Renames
  <2>1. /\ Verified /\ att.phase = "renaming" /\ origin \in Versions /\ part \in Seq(Bytes)
        /\ att.sum \in Versions \cup {0}
    BY DEF Renames, TransferInv, Checked, TypeOK, Attempt, Bytes
  <2>2. CASE att.sum # 0
    BY <2>1, <2>2 DEF Verified
  <2>3. CASE att.sum = 0
    <3>1. Begins(part, origin) /\ Len(part) >= Size[origin]
      BY <2>1, <2>3 DEF Verified, TransferInv, OneVersion, TotalsFit
    <3> QED
      BY <2>1, <3>1, WholeIs
  <2> QED
    BY <2>2, <2>3
<1> QED
  BY <1>1, TransferInvariant, PTL DEF Spec, RenamesWhole

------------------------------------------------------------------------------
(* Delivery is implemented *)

\* The state the user is promised something about.
Shown == IF att.phase = "off" THEN row.st ELSE att.task.st

LEMMA ShowsStill ==
  ASSUME Shown' = Shown, dest' = dest, (att.phase = "renamed")' <=> att.phase = "renamed"
  PROVE  UNCHANGED Promise!deliveryVars
<1>1. (att.phase = "renamed")' = (att.phase = "renamed")
  OBVIOUS
<1> QED
  BY <1>1 DEF Shown, Promise!deliveryVars

LEMMA ShowsMove ==
  ASSUME att.phase # "renamed", att'.phase # "renamed", dest' = dest, Shown' # "done",
         \/ CanTransition(Shown, Shown')
         \/ Shown = "downloading" /\ Shown' = "verifying"
  PROVE  Promise!Move
<1>1. (att.phase = "renamed")' = (att.phase = "renamed")
  OBVIOUS
<1> QED
  BY <1>1 DEF Shown, CanTransition, Transitions, Promise!Move, Promise!CanTransition, Promise!Transitions

Overtaken == \/ \E reading \in readings : reading.row.st # row.st
             \/ att.phase # "off" /\ row.st # att.task.st

LEMMA ShowsLate ==
  ASSUME Overtaken, att'.phase # "renamed", dest' = dest,
         Shown' \in {"queued", "connecting", "downloading", "paused", "failed", "canceled"}
  PROVE  Promise!Late
BY DEF Overtaken, Shown, Promise!Late

\* The engine's copy of a download that vanishes is on its row, unless someone
\* has written over it.
LEMMA Vanishes ==
  ASSUME TransferInv, att.phase # "off", att'.phase = "off", UNCHANGED <<row, dest>>
  PROVE  [Promise!NextDelivery]_(Promise!deliveryVars)
<1>1. /\ Shown = att.task.st /\ Shown' = row.st
      /\ row.st \in {att.task.st, "queued", "paused", "failed", "canceled"}
  BY DEF Shown, TransferInv, RowFollows
<1>2. CASE Shown' = Shown /\ att.phase # "renamed"
  BY <1>2, ShowsStill
<1>3. CASE Shown' = Shown /\ att.phase = "renamed"
  BY <1>3 DEF Shown, Promise!NextDelivery, Promise!BreakOff
<1>4. CASE Shown' # Shown
  <2>1. Promise!Late
    BY <1>1, <1>4, ShowsLate DEF Overtaken
  <2> QED
    BY <2>1 DEF Promise!NextDelivery
<1> QED
  BY <1>1, <1>2, <1>3, <1>4

\* The attempt says what became of the download.
LEMMA SaysOff ==
  ASSUME TransferInv, NEW next \in States \ {"done"}, Emit(next, "off"), UNCHANGED dest,
         att.phase \notin {"off", "renamed"}, CanTransition(att.task.st, next)
  PROVE  Promise!Move
<1>1. row' = [att.task EXCEPT !.st = next] /\ att'.phase = "off" /\ att.task \in Download
  BY NoAttemptIs DEF Emit, TransferInv, TypeOK, Attempt
<1>2. Shown = att.task.st /\ Shown' = next
  BY <1>1 DEF Shown, Download
<1> QED
  BY <1>1, <1>2, ShowsMove

LEMMA AttemptDelivers ==
  ASSUME TransferInv, AttemptStep
  PROVE  [Promise!NextDelivery]_(Promise!deliveryVars)
<1>1. /\ att \in Attempt /\ att.task \in Download /\ row \in Download
      /\ att.task.st \in StatesIn(att.phase)
  BY DEF TransferInv, TypeOK, Attempt
<1>2. ASSUME NEW reading \in readings, Start(reading)
      PROVE  Promise!NextDelivery
  <2>1. /\ att.phase = "off" /\ dest' = dest /\ reading.row \in Download
        /\ reading.row.st \in {"queued", "paused"}
        /\ att' = [NoAttempt EXCEPT !.phase = "opening",
                     !.task = [reading.row EXCEPT !.st = IF @ = "paused" THEN "downloading" ELSE "connecting"]]
    BY <1>2 DEF Start, TransferInv, TypeOK, Reading
  <2>2. /\ att'.phase = "opening"
        /\ att'.task.st = IF reading.row.st = "paused" THEN "downloading" ELSE "connecting"
    BY <2>1 DEF NoAttempt, Download
  <2>3. CASE reading.row.st = row.st
    <3>1. Promise!Move
      BY <2>1, <2>2, <2>3, ShowsMove DEF Shown, CanTransition, Transitions
    <3> QED
      BY <3>1 DEF Promise!NextDelivery
  <2>4. CASE reading.row.st # row.st
    <3>1. Promise!Late
      BY <2>1, <2>2, <2>4, ShowsLate DEF Shown, Overtaken
    <3> QED
      BY <3>1 DEF Promise!NextDelivery
  <2> QED
    BY <2>3, <2>4
<1>3. CASE Opens
  <2>1. /\ att.phase = "opening" /\ dest' = dest
        /\ \/ att' = NoAttempt /\ UNCHANGED row
           \/ att'.phase = "receiving" /\ att'.task.st = "downloading"
    <3>1. PICK answer \in Answers(Len(part)) :
            LET kept  == IF DropsKept(Len(part), answer) THEN 0 ELSE Len(part)
                total == IF answer.total = Unknown THEN att.task.total ELSE answer.total
                task  == [st |-> "downloading", got |-> kept, total |-> total]
            IN  IF Exceeds(kept, total)
                  THEN att' = NoAttempt /\ UNCHANGED row
                  ELSE att' = [att EXCEPT !.phase = "receiving", !.task = task,
                                 !.received = kept, !.kept = kept,
                                 !.body = answer.body, !.sum = answer.sum]
      BY <1>3 DEF Opens
    <3> DEFINE kept == IF DropsKept(Len(part), answer) THEN 0 ELSE Len(part)
               total == IF answer.total = Unknown THEN att.task.total ELSE answer.total
               task == [st |-> "downloading", got |-> kept, total |-> total]
    <3>2. \/ att' = NoAttempt /\ UNCHANGED row
          \/ att' = [att EXCEPT !.phase = "receiving", !.task = task, !.received = kept,
                        !.kept = kept, !.body = answer.body, !.sum = answer.sum]
      BY <3>1
    <3>3. task.st = "downloading"
      OBVIOUS
    <3> HIDE DEF task, kept
    <3>4. att.phase = "opening" /\ dest' = dest
      BY <1>3 DEF Opens
    <3> QED
      BY <1>1, <3>2, <3>3, <3>4 DEF Attempt
  <2>2. CASE att' = NoAttempt /\ UNCHANGED row
    BY <2>1, <2>2, Vanishes, NoAttemptIs
  <2>3. CASE att'.phase = "receiving" /\ att'.task.st = "downloading"
    <3>1. Shown \in {"connecting", "downloading"} /\ Shown' = "downloading"
      BY <1>1, <2>1, <2>3 DEF Shown, StatesIn
    <3>2. CASE Shown = "connecting"
      <4>1. Promise!Move
        BY <2>1, <2>3, <3>1, <3>2, ShowsMove DEF CanTransition, Transitions
      <4> QED
        BY <4>1 DEF Promise!NextDelivery
    <3>3. CASE Shown = "downloading"
      BY <2>1, <2>3, <3>1, <3>3, ShowsStill
    <3> QED
      BY <3>1, <3>2, <3>3
  <2> QED
    BY <2>1, <2>2, <2>3
<1>4. CASE OpenFails \/ OvershotFails \/ Breaks \/ RejectFails \/ Pauses \/ Cancels
  <2>1. \E next \in States \ {"done"} :
          /\ Emit(next, "off") /\ UNCHANGED dest /\ att.phase \notin {"off", "renamed"}
          /\ CanTransition(att.task.st, next)
    BY <1>1, <1>4 DEF OpenFails, OvershotFails, Breaks, RejectFails, Pauses, Cancels, Fail, States,
                      StatesIn, CanTransition, Transitions
  <2> QED
    BY <2>1, SaysOff DEF Promise!NextDelivery
<1>5. CASE Ends
  <2>1. att.phase = "receiving" /\ att.task.st = "downloading" /\ dest' = dest
    BY <1>1, <1>5 DEF Ends, StatesIn
  <2>2. CASE Emit("failed", "off")
    <3>1. Promise!Move
      BY <2>1, <2>2, SaysOff DEF States, CanTransition, Transitions
    <3> QED
      BY <3>1 DEF Promise!NextDelivery
  <2>3. CASE Emit("verifying", "verifying")
    <3>1. att'.phase = "verifying" /\ att'.task.st = "verifying"
      BY <1>1, <2>3 DEF Emit, Attempt, Download
    <3>2. Promise!Move
      BY <2>1, <3>1, ShowsMove DEF Shown
    <3> QED
      BY <3>2 DEF Promise!NextDelivery
  <2> QED
    BY <1>5, <2>2, <2>3 DEF Ends, Fail
<1>6. CASE Renames
  <2>1. /\ att.phase = "renaming" /\ dest' = part /\ att' = [att EXCEPT !.phase = "renamed"]
        /\ Verified /\ att.task.st = "verifying" /\ att.sum \in Versions \cup {0}
    BY <1>1, <1>6 DEF Renames, TransferInv, Checked, StatesIn, Attempt
  <2>2. att'.phase = "renamed" /\ att'.task = att.task
    BY <1>1, <2>1 DEF Attempt
  <2>3. dest' # <<>>
    BY <2>1, Contents DEF Verified
  <2> QED
    BY <2>1, <2>2, <2>3 DEF Promise!NextDelivery, Promise!Publish
<1>7. CASE Done
  <2>1. /\ att.phase = "renamed" /\ row' = [att.task EXCEPT !.st = "done"] /\ att' = NoAttempt
        /\ dest' = dest
    BY <1>7 DEF Done, Emit
  <2>2. row'.st = "done" /\ att'.phase = "off"
    BY <1>1, <2>1, NoAttemptIs DEF Download
  <2> QED
    BY <2>1, <2>2 DEF Promise!NextDelivery, Promise!Deliver
<1>8. CASE Truncates \/ Verifies \/ DropsPart \/ \E v \in Versions : \E k \in 1 .. Size[v] : Receives(k)
  <2>1. /\ att.phase \in {"receiving", "verifying"} /\ dest' = dest
        /\ att'.phase \notin {"off", "renamed"} /\ att'.task.st = att.task.st
    <3>1. CASE Truncates \/ Verifies \/ DropsPart
      BY <1>1, <3>1 DEF Truncates, Verifies, DropsPart, Attempt
    <3>2. ASSUME NEW k, Receives(k)
          PROVE  /\ att.phase = "receiving" /\ dest' = dest
                 /\ att'.phase \in {"receiving", "overshot"} /\ att'.task.st = att.task.st
      <4> DEFINE task == [att.task EXCEPT !.got = att.received + k]
      <4>1. /\ att.phase = "receiving" /\ dest' = dest
            /\ \/ att' = [att EXCEPT !.phase = "overshot"]
               \/ att' = [att EXCEPT !.task = task, !.received = att.received + k,
                             !.body = SubSeq(@, k + 1, Len(@))]
        BY <3>2 DEF Receives
      <4>2. task.st = att.task.st
        BY <1>1 DEF Attempt, Download
      <4> HIDE DEF task
      <4> QED
        BY <1>1, <4>1, <4>2 DEF Attempt
    <3> QED
      BY <1>8, <3>1, <3>2
  <2> QED
    BY <2>1, ShowsStill DEF Shown
<1> QED
  BY <1>2, <1>3, <1>4, <1>5, <1>6, <1>7, <1>8 DEF AttemptStep

\* A handler of the manager acts on what it read: in turn when that is still the
\* state, late otherwise, and not seen while an attempt is at work.
LEMMA ActsDeliver ==
  ASSUME TransferInv, NEW reading \in readings, Acts(reading)
  PROVE  [Promise!NextDelivery]_(Promise!deliveryVars)
<1>1. /\ att' = att /\ dest' = dest /\ reading.row \in Download
      /\ row' = [reading.row EXCEPT !.st = reading.next]
      /\ reading.next \in {"queued", "paused", "failed", "canceled"}
      /\ CanTransition(reading.row.st, reading.next)
  BY DEF Acts, TransferInv, TypeOK, Reading
<1>2. row'.st = reading.next
  BY <1>1 DEF Download
<1>3. CASE att.phase # "off"
  BY <1>1, <1>3, ShowsStill DEF Shown
<1>4. CASE att.phase = "off" /\ reading.row.st = row.st
  <2>1. Promise!Move
    BY <1>1, <1>2, <1>4, ShowsMove DEF Shown
  <2> QED
    BY <2>1 DEF Promise!NextDelivery
<1>5. CASE att.phase = "off" /\ reading.row.st # row.st
  <2>1. Promise!Late
    BY <1>1, <1>2, <1>5, ShowsLate DEF Shown, Overtaken
  <2> QED
    BY <2>1 DEF Promise!NextDelivery
<1> QED
  BY <1>3, <1>4, <1>5

LEMMA OthersDeliver ==
  ASSUME TransferInv, \/ Stop("pause") \/ Stop("cancel") \/ Enqueue \/ ManagerReads
                      \/ \E reading \in readings : Forgets(reading)
                      \/ Dies \/ OriginChanges \/ UNCHANGED vars
  PROVE  [Promise!NextDelivery]_(Promise!deliveryVars)
<1>1. att \in Attempt /\ row \in Download /\ att.task.st \in StatesIn(att.phase)
  BY DEF TransferInv, TypeOK
<1>2. CASE Stop("pause") \/ Stop("cancel") \/ OriginChanges \/ UNCHANGED vars
  <2>1. /\ row' = row /\ dest' = dest /\ att'.phase = att.phase /\ att'.task = att.task
    BY <1>1, <1>2 DEF Stop, OriginChanges, vars, Attempt
  <2> QED
    BY <2>1, ShowsStill DEF Shown
<1>3. CASE ManagerReads \/ \E reading \in readings : Forgets(reading)
  <2>1. UNCHANGED <<row, dest, att>>
    BY <1>3, ReadingsAre DEF ReadsFor, Forgets
  <2> QED
    BY <2>1, ShowsStill DEF Shown
<1>4. CASE Enqueue
  <2>1. att' = att /\ dest' = dest /\ row'.st = "queued"
    BY <1>4 DEF Enqueue
  <2>2. CASE att.phase = "off"
    BY <2>1, <2>2 DEF Promise!NextDelivery, Promise!Again
  <2>3. CASE att.phase # "off"
    BY <2>1, <2>3, ShowsStill DEF Shown
  <2> QED
    BY <2>2, <2>3
<1>5. CASE Dies
  BY <1>5, Vanishes, NoAttemptIs DEF Dies
<1> QED
  BY <1>2, <1>3, <1>4, <1>5

\* Every attempt, however often it is broken off and whoever writes over its row,
\* keeps the promise of Delivery: the file appears whole in one step and before
\* the download is done, and out of turn comes only what acts on a former state
\* (download_engine.dart:205-215, download_manager.dart:91-111, 203-224).
THEOREM DeliveryImplemented == Spec => DeliveryKept
<1>1. Init => Promise!InitDelivery
  BY NoAttemptIs DEF Init, NoDownload, Promise!InitDelivery
<1>2. TransferInv /\ [Next]_vars => [Promise!NextDelivery]_(Promise!deliveryVars)
  BY AttemptDelivers, ActsDeliver, OthersDeliver DEF Next, ManagerReads
<1> QED
  BY <1>1, <1>2, TransferInvariant, PTL DEF Spec, DeliveryKept, Promise!SpecDelivery
=============================================================================
