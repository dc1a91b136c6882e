------------------------- MODULE LibraryIndex_proofs -------------------------
(***************************************************************************)
(* Proofs about LibraryIndex, for any entries, titles and reconciliations, *)
(* any retention and any bounds.                                           *)
(***************************************************************************)
EXTENDS LibraryIndex, SequenceTheorems, TLAPS

------------------------------------------------------------------------------
(* The inductive invariant *)

\* A row the program can read.
Sound(row) ==
  /\ row \in Row
  /\ row.st = "trashed" <=> row.trashedAt # 0
  /\ row.st = "none" <=> row.title = "none"

SoundRows == {row \in Row : Sound(row)}

Partial == UNION {[es -> SoundRows] : es \in SUBSET Entries}

Op == [by : Passes \cup {"user"}, seen : Partial, new : Partial, crowded : SUBSET Entries]

Item == [entry : Entries, row : SoundRows]

PassState == [at : {"idle", "looking", "found", "marking"}, todo : SUBSET Item,
              item : Item \cup {NoItem}, steady : SUBSET Entries]

Typed ==
  /\ day \in Nat \ {0}
  /\ rows \in [Entries -> SoundRows]
  /\ index \in [Entries -> Seq(Titles)]
  /\ pending \in Seq(Op) /\ Len(pending) <= MaxPending
  /\ passes \in [Passes -> PassState]
  /\ files \subseteq Entries

Touches(i, e) == e \in DOMAIN pending[i].new

\* What an operation may do to what it has seen.
Lawful(op) ==
  /\ DOMAIN op.seen = DOMAIN op.new /\ op.crowded \subseteq DOMAIN op.new
  /\ \A e \in DOMAIN op.new :
       /\ op.seen[e].st = "trashed" /\ op.new[e].st \in {"available", "missing"} => op.by = "user"
       /\ op.seen[e].st # "none" /\ op.new[e].st = "none" =>
            op.seen[e].st = "trashed" /\ day >= op.seen[e].trashedAt + Retention

OpsLawful == \A i \in 1..Len(pending) : Lawful(pending[i])

\* What was read alone is still so, and is next to be written.
SeenIsSo ==
  \A i \in 1..Len(pending) : \A e \in DOMAIN pending[i].new \ pending[i].crowded :
    /\ pending[i].seen[e] = rows[e]
    /\ \A j \in 1..(i - 1) : ~Touches(j, e)

\* A pass has an operation under way while it marks, and one only.
OneMarking ==
  /\ \A i \in 1..Len(pending) : pending[i].by # "user" =>
       /\ passes[pending[i].by].at = "marking"
       /\ \A j \in 1..Len(pending) : pending[j].by = pending[i].by => j = i
  /\ \A p \in Passes :
       /\ passes[p].at = "idle" => passes[p].steady = {}
       /\ passes[p].at = "found" => passes[p].item \in Item

\* Nobody else is about to write what a pass was alone with.
LeftAlone ==
  \A p \in Passes : \A i \in 1..Len(pending) : \A e \in passes[p].steady :
    Touches(i, e) => pending[i].by = p

AsFiled(e, row) == row.st = "available" <=> e \in files

\* A pass looks once at each entry it listed.
ListedOnce ==
  \A p \in Passes :
    /\ \A item, other \in passes[p].todo : item.entry = other.entry => item = other
    /\ passes[p].at = "found" => \A item \in passes[p].todo : item.entry # passes[p].item.entry

\* Of what a pass was alone with: the rest of its listing and what it is about
\* to mark are as they were listed, and the others as the files are, if not now
\* then when its operation is written.
LookedAt(p, e) ==
  /\ \A item \in passes[p].todo : item.entry # e
  /\ passes[p].at = "found" => passes[p].item.entry # e

Knows(p, e) ==
  /\ rows[e].st \in {"available", "missing"}
  /\ \A item \in passes[p].todo : item.entry = e => item.row = rows[e]
  /\ passes[p].at = "found" /\ passes[p].item.entry = e =>
       passes[p].item.row = rows[e] /\ ~AsFiled(e, rows[e])
  /\ LookedAt(p, e) /\ (\A i \in 1..Len(pending) : ~Touches(i, e)) => AsFiled(e, rows[e])
  /\ \A i \in 1..Len(pending) : Touches(i, e) =>
       LookedAt(p, e) /\ AsFiled(e, pending[i].new[e])
                      /\ pending[i].new[e].st \in {"available", "missing"}

PassKnows == \A p \in Passes : \A e \in passes[p].steady : Knows(p, e)

\* The lines a row has in the index.
Lines(row) == IF row.st \in {"available", "missing"} THEN <<row.title>> ELSE <<>>

\* A transaction has written of its operation what it is through with, has
\* removed the lines of what it is about to insert, and has left the rest alone.
Partway(e) ==
  /\ tx.next[e] # "done" => e \in DOMAIN pending[1].new
  /\ tx.next[e] \in {"remove", "insert"} => tx.rows[e] = pending[1].new[e]
  /\ tx.next[e] = "insert" =>
       tx.index[e] = <<>> /\ pending[1].new[e].st \in {"available", "missing"}
  /\ tx.next[e] = "done" /\ e \in DOMAIN pending[1].new =>
       tx.rows[e] = pending[1].new[e] /\ tx.index[e] = Lines(pending[1].new[e])
  /\ e \notin DOMAIN pending[1].new => tx.rows[e] = rows[e] /\ tx.index[e] = index[e]

Transacted ==
  /\ tx \in Transaction
  /\ tx.open => pending # <<>> /\ \A e \in Entries : Partway(e)
  /\ ~tx.open => \A e \in Entries : tx.next[e] = "done"

LibraryInv ==
  /\ Typed /\ IndexAgrees /\ OpsLawful /\ SeenIsSo
  /\ OneMarking /\ LeftAlone /\ ListedOnce /\ PassKnows

------------------------------------------------------------------------------
(* Rows, operations and the sequence of them *)

LEMMA PartialRows ==
  ASSUME NEW f \in Partial
  PROVE  /\ DOMAIN f \subseteq Entries
         /\ \A e \in DOMAIN f : f[e] \in SoundRows
BY DEF Partial

LEMMA PartialOf ==
  ASSUME NEW es \in SUBSET Entries, NEW f \in [es -> SoundRows]
  PROVE  f \in Partial /\ DOMAIN f = es
BY DEF Partial

LEMMA OpParts ==
  ASSUME NEW op \in Op
  PROVE  /\ op.by \in Passes \cup {"user"}
         /\ op.seen \in Partial /\ op.new \in Partial /\ op.crowded \subseteq Entries
         /\ DOMAIN op.new \subseteq Entries
         /\ \A e \in DOMAIN op.new : op.new[e] \in SoundRows
<1>1. op.new \in Partial /\ op.seen \in Partial
  BY DEF Op
<1> QED
  BY <1>1, PartialRows DEF Op

LEMMA OpAt ==
  ASSUME Typed, NEW i \in 1..Len(pending)
  PROVE  /\ pending[i] \in Op
         /\ pending[i].by \in Passes \cup {"user"}
         /\ DOMAIN pending[i].new \subseteq Entries
         /\ \A e \in DOMAIN pending[i].new : pending[i].new[e] \in SoundRows
<1>1. pending[i] \in Op
  BY ElementOfSeq DEF Typed
<1> QED
  BY <1>1, OpParts

LEMMA NoRowIsSound == NoRow \in SoundRows
<1>1. "none" \in Titles \cup {"none"}
  OBVIOUS
<1> QED
  BY <1>1 DEF NoRow, SoundRows, Sound, Row

\* The entries under way are those some pending operation will write.
LEMMA BusyIs ==
  ASSUME Typed
  PROVE  \A e : e \in Busy <=> \E i \in 1..Len(pending) : Touches(i, e)
<1>1. DOMAIN pending = 1..Len(pending)
  BY LenProperties DEF Typed
<1> QED
  BY <1>1 DEF Busy, Touches

\* A new operation is the last.
Joins(op) ==
  /\ pending' \in Seq(Op) /\ Len(pending') = Len(pending) + 1
  /\ \A i \in 1..Len(pending) : pending'[i] = pending[i]
  /\ pending'[Len(pending) + 1] = op
  /\ Len(pending) \in Nat /\ Len(pending') <= MaxPending

LEMMA ReadsJoins ==
  ASSUME Typed, NEW by \in Passes \cup {"user"}, NEW es \in SUBSET Entries,
         NEW seen \in [es -> SoundRows], NEW new \in [es -> SoundRows],
         Reads(by, seen, new)
  PROVE  Joins([by |-> by, seen |-> seen, new |-> new, crowded |-> Busy \cap es])
<1> DEFINE op == [by |-> by, seen |-> seen, new |-> new, crowded |-> Busy \cap es]
<1>1. seen \in Partial /\ new \in Partial /\ DOMAIN new = es
  BY PartialOf
<1>2. op \in Op
  BY <1>1 DEF Op
<1>3. pending' = Append(pending, op) /\ Len(pending) < MaxPending
  BY <1>1 DEF Reads
<1>4. pending \in Seq(Op) /\ Len(pending) \in Nat
  BY LenProperties DEF Typed
<1> HIDE DEF op
<1>5. Joins(op)
  BY <1>2, <1>3, <1>4, AppendProperties, LibraryAssumption DEF Joins
<1> QED
  BY <1>5 DEF op

\* The oldest operation leaves.
Leaves ==
  /\ pending' \in Seq(Op) /\ Len(pending') = Len(pending) - 1
  /\ \A i \in 1..Len(pending') : pending'[i] = pending[i + 1]
  /\ Len(pending) \in Nat \ {0} /\ Len(pending') <= MaxPending
  /\ Head(pending) = pending[1] /\ pending[1] \in Op

LEMMA TailLeaves ==
  ASSUME Typed, pending # <<>>, pending' = Tail(pending)
  PROVE  Leaves
<1>1. pending \in Seq(Op) /\ Len(pending) \in Nat \ {0} /\ Len(pending) <= MaxPending
  BY EmptySeq DEF Typed
<1>2. /\ pending' \in Seq(Op) /\ Len(pending') = Len(pending) - 1
      /\ \A i \in 1..Len(pending') : pending'[i] = pending[i + 1]
      /\ Head(pending) = pending[1] /\ pending[1] \in Op
  BY <1>1, HeadTailProperties, ElementOfSeq
<1> QED
  BY <1>1, <1>2, LibraryAssumption DEF Leaves

------------------------------------------------------------------------------
(* Passes *)

\* Every pass goes on as it was, with no more entries to itself than before.
Undone(es) ==
  /\ passes' \in [Passes -> PassState]
  /\ \A p \in Passes : /\ passes'[p].at = passes[p].at /\ passes'[p].todo = passes[p].todo
                       /\ passes'[p].item = passes[p].item
                       /\ passes'[p].steady = passes[p].steady \ es

LEMMA DisturbIs ==
  ASSUME NEW ps \in [Passes -> PassState], NEW by, NEW es, NEW p \in Passes
  PROVE  /\ Disturb(ps, by, es)[p] \in PassState
         /\ Disturb(ps, by, es)[p].at = ps[p].at
         /\ Disturb(ps, by, es)[p].todo = ps[p].todo
         /\ Disturb(ps, by, es)[p].item = ps[p].item
         /\ p = by => Disturb(ps, by, es)[p].steady = ps[p].steady
         /\ p # by => Disturb(ps, by, es)[p].steady = ps[p].steady \ es
<1>1. ps[p] \in PassState
  OBVIOUS
<1>2. Disturb(ps, by, es)[p] = IF p = by THEN ps[p] ELSE [ps[p] EXCEPT !.steady = @ \ es]
  BY DEF Disturb
<1> QED
  BY <1>1, <1>2 DEF PassState

LEMMA DisturbTyped ==
  ASSUME NEW ps \in [Passes -> PassState], NEW by, NEW es
  PROVE  Disturb(ps, by, es) \in [Passes -> PassState]
<1>1. \A p \in Passes : Disturb(ps, by, es)[p] \in PassState
  BY DisturbIs
<1> QED
  BY <1>1 DEF Disturb

LEMMA DisturbedAll ==
  ASSUME Typed, NEW by, by \notin Passes, NEW es, passes' = Disturb(passes, by, es)
  PROVE  Undone(es)
<1>1. passes \in [Passes -> PassState]
  BY DEF Typed
<1>2. ASSUME NEW p \in Passes
      PROVE  /\ passes'[p].at = passes[p].at /\ passes'[p].todo = passes[p].todo
             /\ passes'[p].item = passes[p].item /\ passes'[p].steady = passes[p].steady \ es
  BY <1>1, DisturbIs
<1> QED
  BY <1>1, <1>2, DisturbTyped DEF Undone

LEMMA IdleIsPass ==
  /\ PassIdle \in PassState /\ PassIdle.at = "idle" /\ PassIdle.todo = {} /\ PassIdle.steady = {}
BY DEF PassIdle, PassState

------------------------------------------------------------------------------
(* What an operation that joins or leaves does to the others *)

LEMMA JoinKeeps ==
  ASSUME LibraryInv, NEW op, Joins(op), UNCHANGED <<day, rows>>, Lawful(op),
         \A e \in DOMAIN op.new : op.seen[e] = rows[e],
         op.crowded = Busy \cap DOMAIN op.new
  PROVE  OpsLawful' /\ SeenIsSo'
<1>1. OpsLawful'
  BY DEF LibraryInv, OpsLawful, Joins, Lawful
<1>2. ASSUME NEW j \in 1..Len(pending), NEW e \in DOMAIN op.new \ op.crowded
      PROVE  ~Touches(j, e)
  BY <1>2, BusyIs DEF LibraryInv
<1>3. SeenIsSo'
  BY <1>2 DEF LibraryInv, SeenIsSo, Joins, Touches
<1> QED
  BY <1>1, <1>3

LEMMA LeaveKeeps ==
  ASSUME LibraryInv, Leaves, UNCHANGED day,
         \A e \in Entries : e \notin DOMAIN pending[1].new => rows'[e] = rows[e]
  PROVE  OpsLawful' /\ SeenIsSo'
<1>1. OpsLawful'
  BY DEF LibraryInv, OpsLawful, Leaves, Lawful
<1>2. SUFFICES ASSUME NEW i \in 1..Len(pending'),
                      NEW e \in DOMAIN pending'[i].new \ pending'[i].crowded
               PROVE  /\ pending'[i].seen[e] = rows'[e]
                      /\ \A j \in 1..(i - 1) : ~Touches(j, e)'
  BY <1>1 DEF SeenIsSo
<1>3. i + 1 \in 1..Len(pending) /\ pending'[i] = pending[i + 1] /\ 1 \in 1..((i + 1) - 1)
  BY DEF Leaves
<1>4. /\ pending[i + 1].seen[e] = rows[e]
      /\ \A j \in 1..((i + 1) - 1) : ~Touches(j, e)
  BY <1>2, <1>3 DEF LibraryInv, SeenIsSo
<1>5. e \in Entries /\ rows'[e] = rows[e]
  BY <1>2, <1>3, <1>4, OpAt DEF LibraryInv, Touches
<1>6. \A j \in 1..(i - 1) : ~Touches(j, e)'
  BY <1>3, <1>4 DEF Touches, Leaves
<1> QED
  BY <1>3, <1>4, <1>5, <1>6

------------------------------------------------------------------------------
(* Steps *)

\* An operation of the user, or a purge, has read what it will write.
LEMMA UserReadKeeps ==
  ASSUME LibraryInv, NEW es \in SUBSET Entries, NEW new \in [es -> SoundRows],
         Reads("user", [e \in es |-> rows[e]], new),
         passes' = Disturb(passes, "user", es), UNCHANGED <<day, rows, index, files>>,
         \A e \in es : rows[e].st # "none" /\ new[e].st = "none" =>
           rows[e].st = "trashed" /\ day >= rows[e].trashedAt + Retention
  PROVE  LibraryInv'
<1> DEFINE seen == [e \in es |-> rows[e]]
           op == [by |-> "user", seen |-> seen, new |-> new, crowded |-> Busy \cap es]
<1>1. Typed /\ seen \in [es -> SoundRows] /\ DOMAIN new = es
  BY DEF LibraryInv, Typed
<1>2. Joins(op)
  BY <1>1, ReadsJoins
<1>3. /\ op.by = "user" /\ op.seen = seen /\ op.new = new /\ op.crowded = Busy \cap es
      /\ \A e \in es : seen[e] = rows[e]
  OBVIOUS
<1>4. Lawful(op)
  BY <1>1 DEF Lawful
<1> HIDE DEF op, seen
<1>5. Undone(es)
  BY <1>1, DisturbedAll, LibraryAssumption
<1>6. Typed' /\ IndexAgrees'
  BY <1>2, <1>5 DEF LibraryInv, Typed, IndexAgrees, Joins, Undone
<1>7. OpsLawful' /\ SeenIsSo'
  BY <1>1, <1>2, <1>3, <1>4, JoinKeeps
<1>8. OneMarking' /\ ListedOnce'
  <2>1. \A i \in 1..Len(pending) : pending[i].by \in Passes \cup {"user"}
    BY <1>1, OpAt
  <2>2. OneMarking'
    BY <1>2, <1>3, <1>5, <2>1 DEF LibraryInv, OneMarking, Joins, Undone
  <2> QED
    BY <1>5, <2>2 DEF LibraryInv, ListedOnce, Undone
<1>9. LeftAlone'
  BY <1>1, <1>2, <1>3, <1>5 DEF LibraryInv, LeftAlone, Joins, Undone, Touches
<1>10. PassKnows'
  <2>1. SUFFICES ASSUME NEW p \in Passes, NEW e \in passes'[p].steady
                 PROVE  Knows(p, e)'
    BY DEF PassKnows
  <2> QED
    BY <1>1, <1>2, <1>3, <1>5 DEF LibraryInv, PassKnows, Knows, LookedAt, AsFiled, Joins, Undone, Touches
<1> QED
  BY <1>6, <1>7, <1>8, <1>9, <1>10 DEF LibraryInv

LEMMA ChangedSound ==
  ASSUME day \in Nat \ {0}, NEW row \in SoundRows, NEW kind, NEW title \in Titles \cup {"none"},
         Allowed(kind, row),
         kind \in UserKinds \cup {"markMissing", "markAvailable"},
         kind = "rename" => title \in Titles
  PROVE  /\ Changed(kind, row, title) \in SoundRows
         /\ Changed(kind, row, title).st # "none"
         /\ kind = "markMissing" => Changed(kind, row, title).st = "missing"
         /\ kind = "markAvailable" => Changed(kind, row, title).st = "available"
<1>1. /\ row \in Row /\ row.st # "none" /\ row.title # "none"
      /\ row.st = "trashed" <=> row.trashedAt # 0
      /\ kind \in {"markMissing", "markAvailable", "moveToTrash"} => row.st # "trashed"
      /\ "none" \notin Titles
  BY LibraryAssumption DEF SoundRows, Sound, Allowed
<1>2. SoundRows = {r \in Row : /\ r.st = "trashed" <=> r.trashedAt # 0
                               /\ r.st = "none" <=> r.title = "none"}
  BY DEF SoundRows, Sound
<1>3. CASE kind = "rename"
  BY <1>1, <1>2, <1>3 DEF Changed, Row
<1>4. CASE kind = "setFavorite"
  BY <1>1, <1>2, <1>4 DEF Changed
<1>5. CASE kind = "markMissing"
  BY <1>1, <1>2, <1>5 DEF Changed, Row
<1>6. CASE kind = "markAvailable"
  BY <1>1, <1>2, <1>6 DEF Changed, Row
<1>7. CASE kind = "moveToTrash"
  BY <1>1, <1>2, <1>7 DEF Changed, Row
<1>8. CASE kind = "restoreFromTrash"
  BY <1>1, <1>2, <1>8 DEF Changed, Row
<1> QED
  BY <1>3, <1>4, <1>5, <1>6, <1>7, <1>8 DEF UserKinds

LEMMA UserActsKeeps ==
  ASSUME LibraryInv, NEW e \in Entries, NEW kind \in UserKinds, NEW title \in Titles \cup {"none"},
         kind = "rename" => title \in Titles, UserActs(kind, e, title)
  PROVE  LibraryInv'
<1> DEFINE row == Changed(kind, rows[e], title)
           new == [x \in {e} |-> row]
<1>1. /\ Allowed(kind, rows[e]) /\ Reads("user", [x \in {e} |-> rows[e]], new)
      /\ passes' = Disturb(passes, "user", {e}) /\ UNCHANGED <<day, rows, index, files>>
  BY DEF UserActs, Transition
<1>2. day \in Nat \ {0} /\ rows[e] \in SoundRows
  BY DEF LibraryInv, Typed
<1>3. row \in SoundRows /\ row.st # "none"
  BY <1>1, <1>2, ChangedSound
<1> HIDE DEF row
<1>4. new \in [{e} -> SoundRows] /\ \A x \in {e} : new[x].st # "none"
  BY <1>3
<1>5. [x \in {e} |-> rows[e]] = [x \in {e} |-> rows[x]]
  OBVIOUS
<1> HIDE DEF new
<1> QED
  BY <1>1, <1>4, <1>5, UserReadKeeps

LEMMA SaveKeeps ==
  ASSUME LibraryInv, NEW e \in Entries, NEW title \in Titles, Save(e, title)
  PROVE  LibraryInv'
<1> DEFINE row == [st |-> "available", trashedAt |-> 0, title |-> title]
           new == [x \in {e} |-> row]
<1>1. /\ Reads("user", [x \in {e} |-> rows[e]], new)
      /\ passes' = Disturb(passes, "user", {e}) /\ UNCHANGED <<day, rows, index, files>>
  BY DEF Save
<1>2. row \in SoundRows /\ row.st # "none"
  BY LibraryAssumption DEF SoundRows, Sound, Row
<1> HIDE DEF row
<1>3. new \in [{e} -> SoundRows] /\ \A x \in {e} : new[x].st # "none"
  BY <1>2
<1>4. [x \in {e} |-> rows[e]] = [x \in {e} |-> rows[x]]
  OBVIOUS
<1> HIDE DEF new
<1> QED
  BY <1>1, <1>3, <1>4, UserReadKeeps

\* A purge deletes what has been in the trash for its days.
LEMMA PurgeKeeps ==
  ASSUME LibraryInv, PurgeSelects
  PROVE  LibraryInv'
<1> DEFINE es == {e \in Entries : Expired(e)}
           new == [e \in es |-> NoRow]
<1>1. /\ Reads("user", [e \in es |-> rows[e]], new)
      /\ passes' = Disturb(passes, "user", es) /\ UNCHANGED <<day, rows, index, files>>
  BY DEF PurgeSelects
<1>2. es \in SUBSET Entries /\ new \in [es -> SoundRows]
  BY NoRowIsSound
<1>3. \A e \in es : rows[e].st = "trashed" /\ day >= rows[e].trashedAt + Retention
  <2>1. \A e \in Entries : rows[e].trashedAt \in Nat
    BY DEF LibraryInv, Typed, SoundRows, Row
  <2> QED
    BY <2>1, LibraryAssumption DEF Expired, LibraryInv, Typed
<1> HIDE DEF es, new
<1> QED
  BY <1>1, <1>2, <1>3, UserReadKeeps

------------------------------------------------------------------------------
(* The oldest operation is written, or fails *)

\* Who waited for it goes on; `es` is not its own any more.
Relieved(es) ==
  /\ passes' \in [Passes -> PassState]
  /\ \A p \in Passes : /\ passes'[p].todo = passes[p].todo /\ passes'[p].item = passes[p].item
                       /\ passes'[p].steady = passes[p].steady \ es
                       /\ p # pending[1].by => passes'[p].at = passes[p].at
                       /\ p = pending[1].by => passes'[p].at = "looking"

LEMMA LeaveKeepsPasses ==
  ASSUME LibraryInv, Leaves, NEW es, Relieved(es), UNCHANGED files,
         \A e \in Entries : e \notin DOMAIN pending[1].new => rows'[e] = rows[e],
         \A e \in DOMAIN pending[1].new : e \notin es => rows'[e] = pending[1].new[e]
  PROVE  OneMarking' /\ LeftAlone' /\ ListedOnce' /\ PassKnows'
<1>1. \A i \in 1..Len(pending) : pending[i].by \in Passes \cup {"user"}
  BY OpAt DEF LibraryInv
<1>2. /\ 1 \in 1..Len(pending)
      /\ \A i \in 1..Len(pending') : i + 1 \in 1..Len(pending) /\ i + 1 # 1
                                     /\ pending'[i] = pending[i + 1]
      /\ \A i \in 1..Len(pending) : i # 1 => i - 1 \in 1..Len(pending') /\ pending'[i - 1] = pending[i]
  BY DEF Leaves
<1>3. \A i \in 1..Len(pending) : i # 1 /\ pending[i].by # "user" => pending[i].by # pending[1].by
  BY <1>2 DEF LibraryInv, OneMarking
<1>4. OneMarking'
  <2>1. ASSUME NEW i \in 1..Len(pending'), pending'[i].by # "user"
        PROVE  /\ passes'[pending'[i].by].at = "marking"
               /\ \A j \in 1..Len(pending') : pending'[j].by = pending'[i].by => j = i
    <3>1. /\ i + 1 \in 1..Len(pending) /\ pending'[i] = pending[i + 1]
          /\ pending[i + 1].by \in Passes /\ pending[i + 1].by # pending[1].by
          /\ passes[pending[i + 1].by].at = "marking"
      BY <1>1, <1>2, <1>3, <2>1 DEF LibraryInv, OneMarking
    <3>2. \A j \in 1..Len(pending') : pending'[j].by = pending'[i].by => j = i
      <4>1. SUFFICES ASSUME NEW j \in 1..Len(pending'), pending'[j].by = pending'[i].by
                     PROVE  j = i
        OBVIOUS
      <4>2. j + 1 \in 1..Len(pending) /\ pending[j + 1].by = pending[i + 1].by
        BY <1>2, <4>1
      <4>3. j + 1 = i + 1
        BY <2>1, <3>1, <4>2 DEF LibraryInv, OneMarking
      <4> QED
        BY <4>3
    <3> QED
      BY <3>1, <3>2 DEF Relieved
  <2>2. ASSUME NEW p \in Passes
        PROVE  /\ passes'[p].at = "idle" => passes'[p].steady = {}
               /\ passes'[p].at = "found" => passes'[p].item \in Item
    BY DEF Relieved, LibraryInv, OneMarking
  <2> QED
    BY <2>1, <2>2 DEF OneMarking
<1>5. LeftAlone'
  BY <1>2 DEF LibraryInv, LeftAlone, Relieved, Touches
<1>6. ListedOnce'
  BY DEF LibraryInv, ListedOnce, Relieved
<1>7. PassKnows'
  <2>1. SUFFICES ASSUME NEW p \in Passes, NEW e \in passes'[p].steady
                 PROVE  Knows(p, e)'
    BY DEF PassKnows
  <2>2. /\ e \in passes[p].steady /\ e \notin es /\ e \in Entries
        /\ passes[p].at = "marking" => passes[p].at # "found"
    BY <2>1 DEF Relieved, LibraryInv, Typed, PassState
  <2>3. Knows(p, e)
    BY <2>2 DEF LibraryInv, PassKnows
  <2>4. pending[1].by \in Passes => passes[pending[1].by].at = "marking"
    BY <1>2, LibraryAssumption DEF LibraryInv, OneMarking
  <2>5. LookedAt(p, e) => LookedAt(p, e)'
    BY DEF LookedAt, Relieved
  <2>6. CASE Touches(1, e)
    <3>1. pending[1].by = p
      BY <1>2, <2>2, <2>6 DEF LibraryInv, LeftAlone
    <3>2. /\ rows'[e] = pending[1].new[e] /\ LookedAt(p, e) /\ AsFiled(e, pending[1].new[e])
          /\ pending[1].new[e].st \in {"available", "missing"}
      BY <1>2, <2>2, <2>3, <2>6 DEF Touches, Knows
    <3>3. \A i \in 1..Len(pending') : ~Touches(i, e)'
      <4>1. SUFFICES ASSUME NEW i \in 1..Len(pending'), Touches(i, e)'
                     PROVE  FALSE
        OBVIOUS
      <4>2. i + 1 \in 1..Len(pending) /\ Touches(i + 1, e) /\ i + 1 # 1
        BY <1>2, <4>1 DEF Touches
      <4>3. pending[i + 1].by = p
        BY <2>2, <4>2 DEF LibraryInv, LeftAlone
      <4> QED
        BY <1>3, <3>1, <4>2, <4>3, LibraryAssumption
    <3>4. passes'[p].at = "looking"
      BY <3>1 DEF Relieved
    <3>5. AsFiled(e, rows[e])'
      BY <3>2 DEF AsFiled
    <3> QED
      BY <2>5, <3>2, <3>3, <3>4, <3>5 DEF Knows, LookedAt
  <2>7. CASE ~Touches(1, e)
    <3>1. rows'[e] = rows[e]
      BY <2>2, <2>7 DEF Touches
    <3>2. LookedAt(p, e)' => LookedAt(p, e)
      BY <2>4 DEF LookedAt, Relieved
    <3>3. (\A i \in 1..Len(pending') : ~Touches(i, e)') => \A i \in 1..Len(pending) : ~Touches(i, e)
      <4>1. ASSUME NEW i \in 1..Len(pending), Touches(i, e)
            PROVE  i - 1 \in 1..Len(pending') /\ Touches(i - 1, e)'
        BY <1>2, <2>7, <4>1 DEF Touches
      <4> QED
        BY <4>1
    <3>4. ASSUME NEW i \in 1..Len(pending'), Touches(i, e)'
          PROVE  /\ LookedAt(p, e) /\ AsFiled(e, pending'[i].new[e])
                 /\ pending'[i].new[e].st \in {"available", "missing"}
      <4>1. i + 1 \in 1..Len(pending) /\ Touches(i + 1, e) /\ pending'[i] = pending[i + 1]
        BY <1>2, <3>4 DEF Touches
      <4> QED
        BY <2>3, <4>1 DEF Knows
    <3>5. /\ rows'[e].st \in {"available", "missing"}
          /\ \A item \in passes'[p].todo : item.entry = e => item.row = rows'[e]
          /\ passes'[p].at = "found" /\ passes'[p].item.entry = e =>
               passes'[p].item.row = rows'[e] /\ ~AsFiled(e, rows[e])'
      BY <2>3, <3>1 DEF Knows, Relieved, AsFiled
    <3>6. LookedAt(p, e)' /\ (\A i \in 1..Len(pending') : ~Touches(i, e)') => AsFiled(e, rows[e])'
      BY <2>3, <3>1, <3>2, <3>3 DEF Knows, AsFiled
    <3>7. \A i \in 1..Len(pending') : Touches(i, e)' =>
            LookedAt(p, e)' /\ AsFiled(e, pending[i].new[e])'
                            /\ pending'[i].new[e].st \in {"available", "missing"}
      BY <2>5, <3>4 DEF AsFiled
    <3> QED
      BY <3>5, <3>6, <3>7 DEF Knows
  <2> QED
    BY <2>6, <2>7
<1> QED
  BY <1>4, <1>5, <1>6, <1>7

\* What a transaction leaves: the rows of its operation, and their lines.
Written ==
  LET new == Head(pending).new IN
  /\ pending # <<>>
  /\ rows' = [e \in Entries |-> IF e \in DOMAIN new THEN new[e] ELSE rows[e]]
  /\ index' = [e \in Entries |-> IF e \in DOMAIN new THEN Lines(new[e]) ELSE index[e]]
  /\ Served

LEMMA CommitsWrite ==
  ASSUME LibraryInv, Transacted, Commits
  PROVE  Written
<1>1. /\ Typed /\ tx \in Transaction /\ pending # <<>> /\ \A e \in Entries : Partway(e)
      /\ \A e \in Entries : tx.next[e] = "done"
      /\ rows' = tx.rows /\ index' = tx.index /\ Served
  BY DEF LibraryInv, Transacted, Commits
<1>2. Head(pending) = pending[1]
  BY <1>1 DEF Typed
<1>3. \A e \in Entries :
        /\ tx.rows[e] = IF e \in DOMAIN pending[1].new THEN pending[1].new[e] ELSE rows[e]
        /\ tx.index[e] = IF e \in DOMAIN pending[1].new THEN Lines(pending[1].new[e]) ELSE index[e]
  BY <1>1 DEF Partway
<1>4. tx.rows \in [Entries -> Row] /\ tx.index \in [Entries -> Seq(Titles)]
  BY <1>1 DEF Transaction
<1>5. /\ rows' = [e \in Entries |-> IF e \in DOMAIN pending[1].new THEN pending[1].new[e] ELSE rows[e]]
      /\ index' = [e \in Entries |-> IF e \in DOMAIN pending[1].new
                                     THEN Lines(pending[1].new[e]) ELSE index[e]]
  BY <1>1, <1>3, <1>4
<1> QED
  BY <1>1, <1>2, <1>5 DEF Written

LEMMA WritesKeeps ==
  ASSUME LibraryInv, Written
  PROVE  LibraryInv'
<1> DEFINE new == pending[1].new
           by == pending[1].by
<1>1. Typed /\ pending # <<>> /\ pending' = Tail(pending)
  BY DEF LibraryInv, Written, Served
<1>2. Leaves
  BY <1>1, TailLeaves
<1>3. /\ Head(pending) = pending[1] /\ 1 \in 1..Len(pending)
      /\ by \in Passes \cup {"user"} /\ DOMAIN new \subseteq Entries
      /\ \A e \in DOMAIN new : new[e] \in SoundRows
  BY <1>1, <1>2, OpAt DEF Leaves
<1>4. /\ UNCHANGED <<day, files>>
      /\ rows' = [e \in Entries |-> IF e \in DOMAIN new THEN new[e] ELSE rows[e]]
      /\ index' = [e \in Entries |-> IF e \in DOMAIN new THEN Lines(new[e]) ELSE index[e]]
      /\ passes' = IF by = "user" THEN passes ELSE [passes EXCEPT ![by].at = "looking"]
  BY <1>3 DEF Written, Served
<1>5. /\ rows' \in [Entries -> SoundRows]
      /\ \A e \in Entries : rows'[e] = IF e \in DOMAIN new THEN new[e] ELSE rows[e]
  BY <1>1, <1>3, <1>4 DEF Typed
<1>6. index' \in [Entries -> Seq(Titles)] /\ IndexAgrees'
  <2>1. ASSUME NEW row \in SoundRows
        PROVE  Lines(row) \in Seq(Titles)
    <3>1. CASE row.st \in {"available", "missing"}
      <4>1. row.title \in Titles
        BY <3>1 DEF SoundRows, Sound, Row
      <4> QED
        BY <3>1, <4>1 DEF Lines
    <3>2. CASE row.st \notin {"available", "missing"}
      BY <3>2 DEF Lines
    <3> QED
      BY <3>1, <3>2
  <2>2. \A e \in Entries : index'[e] = IF e \in DOMAIN new THEN Lines(new[e]) ELSE index[e]
    BY <1>4
  <2>3. \A e \in Entries : index'[e] = Lines(rows'[e])
    BY <1>3, <1>5, <2>2 DEF LibraryInv, IndexAgrees, Lines
  <2>4. index' \in [Entries -> Seq(Titles)]
    BY <1>1, <1>3, <1>4, <2>1 DEF Typed
  <2> QED
    BY <2>3, <2>4 DEF IndexAgrees, Lines
<1>7. Relieved({})
  BY <1>1, <1>3, <1>4, LibraryAssumption DEF Typed, Relieved, PassState
<1>8. Typed'
  BY <1>1, <1>2, <1>4, <1>5, <1>6, <1>7 DEF Typed, Leaves, Relieved
<1>9. \A e \in Entries : e \notin DOMAIN new => rows'[e] = rows[e]
  BY <1>5
<1>10. \A e \in DOMAIN new : e \notin {} => rows'[e] = new[e]
  BY <1>3, <1>5
<1>11. OpsLawful' /\ SeenIsSo'
  BY <1>2, <1>4, <1>9, LeaveKeeps
<1>12. OneMarking' /\ LeftAlone' /\ ListedOnce' /\ PassKnows'
  BY <1>2, <1>4, <1>7, <1>9, <1>10, LeaveKeepsPasses
<1> QED
  BY <1>6, <1>8, <1>11, <1>12 DEF LibraryInv

\* Between its statements a transaction shows nothing.
LEMMA StatementsShowNothing ==
  ASSUME LibraryInv, UNCHANGED <<day, rows, index, pending, passes, files>>
  PROVE  LibraryInv'
BY DEF LibraryInv, Typed, IndexAgrees, OpsLawful, Lawful, SeenIsSo, OneMarking,
       LeftAlone, ListedOnce, PassKnows, Knows, LookedAt, Touches, AsFiled

LEMMA BeginsTransacts ==
  ASSUME LibraryInv, Transacted, Begins
  PROVE  Transacted'
<1>1. /\ Typed /\ pending # <<>> /\ UNCHANGED <<rows, index, pending>>
      /\ tx' = [open |-> TRUE, rows |-> rows, index |-> index,
                next |-> [e \in Entries |-> IF e \in DOMAIN Head(pending).new THEN "row" ELSE "done"]]
  BY DEF LibraryInv, Begins
<1>2. Head(pending) = pending[1] /\ rows \in [Entries -> Row]
  BY <1>1 DEF Typed, SoundRows
<1>3. /\ tx' \in Transaction /\ tx'.open /\ tx'.rows = rows /\ tx'.index = index
      /\ \A e \in Entries : tx'.next[e] = IF e \in DOMAIN pending[1].new THEN "row" ELSE "done"
  BY <1>1, <1>2 DEF Typed, Transaction
<1> QED
  BY <1>1, <1>3 DEF Transacted, Partway

LEMMA StatementsTransact ==
  ASSUME LibraryInv, Transacted, NEW e \in Entries, PutsRow(e) \/ RemovesLine(e) \/ InsertsLine(e)
  PROVE  Transacted'
<1>1. /\ Typed /\ tx \in Transaction /\ UNCHANGED <<rows, index, pending>>
      /\ tx.next[e] # "done"
  BY DEF LibraryInv, Transacted, PutsRow, RemovesLine, InsertsLine
<1>2. /\ tx.open /\ pending # <<>> /\ \A x \in Entries : Partway(x)
      /\ e \in DOMAIN pending[1].new
  BY <1>1 DEF Transacted, Partway
<1>3. /\ Head(pending) = pending[1] /\ 1 \in 1..Len(pending)
  BY <1>1, <1>2 DEF Typed
<1>4. PICK row \in SoundRows : row = pending[1].new[e]
  BY <1>1, <1>2, <1>3, OpAt
<1>5. /\ row \in Row /\ (row.st \in {"available", "missing"} => row.title \in Titles)
      /\ tx.rows \in [Entries -> Row] /\ tx.index \in [Entries -> Seq(Titles)]
      /\ tx.next \in [Entries -> {"row", "remove", "insert", "done"}]
  BY <1>1, <1>4 DEF Transaction, SoundRows, Sound, Row
<1>6. ASSUME NEW x \in Entries \ {e}, tx'.rows[x] = tx.rows[x], tx'.index[x] = tx.index[x],
             tx'.next[x] = tx.next[x]
      PROVE  Partway(x)'
  BY <1>1, <1>2, <1>6 DEF Partway
<1>7. CASE PutsRow(e)
  <2>1. tx' = [tx EXCEPT !.rows[e] = row, !.next[e] = "remove"]
    BY <1>3, <1>4, <1>7 DEF PutsRow
  <2>2. /\ tx' \in Transaction /\ tx'.open /\ tx'.rows[e] = row /\ tx'.next[e] = "remove"
        /\ \A x \in Entries \ {e} : /\ tx'.rows[x] = tx.rows[x] /\ tx'.index[x] = tx.index[x]
                                    /\ tx'.next[x] = tx.next[x]
    BY <1>1, <1>2, <1>5, <2>1 DEF Transaction
  <2>3. Partway(e)'
    BY <1>1, <1>2, <1>4, <2>2 DEF Partway
  <2> QED
    BY <1>1, <1>2, <1>6, <2>2, <2>3 DEF Transacted
<1>8. CASE RemovesLine(e)
  <2>1. PICK after \in {"insert", "done"}, none \in Seq(Titles) :
          /\ tx' = [tx EXCEPT !.index[e] = none, !.next[e] = after]
          /\ tx.next[e] = "remove" /\ none = <<>>
          /\ row.st \in {"available", "missing"} <=> after = "insert"
    <3>1. /\ tx.next[e] = "remove"
          /\ tx' = [tx EXCEPT !.index[e] = <<>>,
                              !.next[e] = IF row.st \in {"available", "missing"} THEN "insert" ELSE "done"]
      BY <1>3, <1>4, <1>8 DEF RemovesLine
    <3>2. PICK none \in Seq(Titles) : none = <<>>
      <4>1. <<>> \in Seq(Titles)
        OBVIOUS
      <4> QED
        BY <4>1, Zenon
    <3>3. PICK after \in {"insert", "done"} :
            after = IF row.st \in {"available", "missing"} THEN "insert" ELSE "done"
      OBVIOUS
    <3>4. tx' = [tx EXCEPT !.index[e] = none, !.next[e] = after]
      BY <3>1, <3>2, <3>3
    <3> QED
      BY <3>1, <3>2, <3>3, <3>4
  <2>2. /\ tx' \in Transaction /\ tx'.open /\ tx'.rows[e] = tx.rows[e] /\ tx'.index[e] = none
        /\ tx'.next[e] = after
        /\ \A x \in Entries \ {e} : /\ tx'.rows[x] = tx.rows[x] /\ tx'.index[x] = tx.index[x]
                                    /\ tx'.next[x] = tx.next[x]
    BY <1>1, <1>2, <1>5, <2>1 DEF Transaction
  <2>3. Partway(e)'
    BY <1>1, <1>2, <1>4, <2>1, <2>2 DEF Partway, Lines
  <2> QED
    BY <1>1, <1>2, <1>6, <2>2, <2>3 DEF Transacted
<1>9. CASE InsertsLine(e)
  <2>1. /\ tx' = [tx EXCEPT !.index[e] = Append(@, row.title), !.next[e] = "done"]
        /\ tx.next[e] = "insert"
    BY <1>3, <1>4, <1>9 DEF InsertsLine
  <2>2. /\ tx.index[e] = <<>> /\ row.title \in Titles /\ row.st \in {"available", "missing"}
        /\ tx.rows[e] = row
    BY <1>2, <1>4, <1>5, <2>1 DEF Partway
  <2>3. PICK line \in Seq(Titles) : line = Append(tx.index[e], row.title) /\ line = <<row.title>>
    <3>1. tx.index[e] \in Seq(Titles)
      BY <1>5
    <3>2. Append(tx.index[e], row.title) \in Seq(Titles)
      BY <2>2, <3>1
    <3>3. Append(<<>>, row.title) = <<row.title>>
      OBVIOUS
    <3> QED
      BY <2>2, <3>2, <3>3
  <2>4. tx' = [tx EXCEPT !.index[e] = line, !.next[e] = "done"]
    BY <2>1, <2>3
  <2>5. /\ tx' \in Transaction /\ tx'.open /\ tx'.rows[e] = tx.rows[e] /\ tx'.index[e] = line
        /\ tx'.next[e] = "done"
        /\ \A x \in Entries \ {e} : /\ tx'.rows[x] = tx.rows[x] /\ tx'.index[x] = tx.index[x]
                                    /\ tx'.next[x] = tx.next[x]
    BY <1>1, <1>2, <1>5, <2>4 DEF Transaction
  <2>6. Partway(e)'
    BY <1>1, <1>2, <1>4, <2>2, <2>3, <2>5 DEF Partway, Lines
  <2> QED
    BY <1>1, <1>2, <1>6, <2>5, <2>6 DEF Transacted
<1> QED
  BY <1>7, <1>8, <1>9

\* An operation that queues up leaves the one at work first.
LEMMA TransactionStays ==
  ASSUME LibraryInv, Transacted, tx' = tx,
         tx.open => /\ UNCHANGED <<rows, index>>
                    /\ \/ pending' = pending
                       \/ \E by, seen, new : Reads(by, seen, new)
  PROVE  Transacted'
<1>1. CASE ~tx.open
  BY <1>1 DEF Transacted
<1>2. CASE tx.open
  <2>1. pending \in Seq(Op) /\ pending # <<>>
    BY <1>2 DEF LibraryInv, Typed, Transacted
  <2>2. pending' # <<>> /\ pending'[1] = pending[1]
    <3>1. CASE pending' = pending
      BY <2>1, <3>1
    <3>2. ASSUME NEW by, NEW seen, NEW new, Reads(by, seen, new)
          PROVE  pending' # <<>> /\ pending'[1] = pending[1]
      <4>1. \E op : pending' = Append(pending, op)
        BY <3>2 DEF Reads
      <4> QED
        BY <2>1, <4>1
    <3> QED
      BY <1>2, <3>1, <3>2
  <2> QED
    BY <1>2, <2>2 DEF Transacted, Partway
<1> QED
  BY <1>1, <1>2

LEMMA NoTransaction == NoTx \in Transaction /\ ~NoTx.open /\ \A e \in Entries : NoTx.next[e] = "done"
<1>1. NoRow \in Row /\ <<>> \in Seq(Titles)
  BY NoRowIsSound DEF SoundRows
<1> QED
  BY <1>1 DEF NoTx, Transaction

LEMMA WriteFailsKeeps ==
  ASSUME LibraryInv, WriteFails
  PROVE  LibraryInv'
<1> DEFINE new == pending[1].new
           by == pending[1].by
           went == IF by = "user" THEN passes ELSE [passes EXCEPT ![by].at = "looking"]
<1>1. /\ Typed /\ pending # <<>> /\ pending' = Tail(pending) /\ UNCHANGED <<day, rows, index, files>>
      /\ passes \in [Passes -> PassState]
  BY DEF LibraryInv, WriteFails, Typed
<1>2. Leaves
  BY <1>1, TailLeaves
<1>3. Head(pending) = pending[1] /\ 1 \in 1..Len(pending) /\ by \in Passes \cup {"user"}
  BY <1>1, <1>2, OpAt DEF Leaves
<1>4. passes' = Disturb(went, "nobody", DOMAIN new)
  BY <1>3 DEF WriteFails
<1>5. /\ went \in [Passes -> PassState]
      /\ \A p \in Passes : /\ went[p].todo = passes[p].todo /\ went[p].item = passes[p].item
                           /\ went[p].steady = passes[p].steady
                           /\ p # by => went[p].at = passes[p].at
                           /\ p = by => went[p].at = "looking"
  BY <1>1, <1>3, LibraryAssumption DEF PassState
<1> HIDE DEF went
<1>6. ASSUME NEW p \in Passes
      PROVE  /\ passes'[p].at = went[p].at /\ passes'[p].todo = went[p].todo
             /\ passes'[p].item = went[p].item /\ passes'[p].steady = went[p].steady \ DOMAIN new
  BY <1>4, <1>5, DisturbIs, LibraryAssumption
<1>7. passes' \in [Passes -> PassState]
  BY <1>4, <1>5, DisturbTyped
<1>8. Relieved(DOMAIN new)
  BY <1>5, <1>6, <1>7 DEF Relieved
<1>9. Typed' /\ IndexAgrees'
  BY <1>1, <1>2, <1>7 DEF LibraryInv, Typed, IndexAgrees, Leaves
<1>10. OpsLawful' /\ SeenIsSo'
  BY <1>1, <1>2, LeaveKeeps
<1>11. OneMarking' /\ LeftAlone' /\ ListedOnce' /\ PassKnows'
  BY <1>1, <1>2, <1>8, LeaveKeepsPasses
<1> QED
  BY <1>9, <1>10, <1>11 DEF LibraryInv

------------------------------------------------------------------------------
(* A reconciliation *)

LEMMA PassListsKeeps ==
  ASSUME LibraryInv, NEW p \in Passes, PassLists(p)
  PROVE  LibraryInv'
<1> DEFINE shown == {e \in Entries : rows[e].st \in {"available", "missing"}}
           todo == {[entry |-> e, row |-> rows[e]] : e \in shown}
           pass == [at |-> "looking", todo |-> todo, item |-> NoItem, steady |-> shown \ Busy]
<1>1. /\ Typed /\ passes[p].at = "idle" /\ UNCHANGED <<day, rows, index, pending, files>>
      /\ passes' = [passes EXCEPT ![p] = pass]
  BY DEF LibraryInv, PassLists
<1>2. todo \subseteq Item /\ pass \in PassState
  BY <1>1 DEF Typed, Item, PassState
<1>3. /\ passes' \in [Passes -> PassState]
      /\ \A q \in Passes : passes'[q] = IF q = p THEN pass ELSE passes[q]
      /\ pass.at = "looking" /\ pass.todo = todo /\ pass.steady = shown \ Busy
  BY <1>1, <1>2 DEF Typed
<1>4. Typed' /\ IndexAgrees' /\ OpsLawful' /\ SeenIsSo'
  BY <1>1, <1>3 DEF LibraryInv, Typed, IndexAgrees, OpsLawful, Lawful, SeenIsSo, Touches
<1>5. /\ \A item, other \in todo : item.entry = other.entry => item = other
      /\ \A item \in todo : item.row = rows[item.entry]
      /\ \A e \in shown : \E item \in todo : item.entry = e
  <2>1. \A item \in todo : item = [entry |-> item.entry, row |-> rows[item.entry]]
    OBVIOUS
  <2>2. ASSUME NEW e \in shown
        PROVE  \E item \in todo : item.entry = e
    <3>1. [entry |-> e, row |-> rows[e]] \in todo
      OBVIOUS
    <3> QED
      BY <3>1
  <2>3. \A item, other \in todo : item.entry = other.entry => item = other
    BY <2>1
  <2>4. \A item \in todo : item.row = rows[item.entry]
    BY <2>1
  <2> QED
    BY <2>2, <2>3, <2>4
<1>6. \A e \in shown \ Busy : \A i \in 1..Len(pending) : ~Touches(i, e)
  BY <1>1, BusyIs
<1> HIDE DEF pass, todo
<1>7. OneMarking'
  BY <1>1, <1>3 DEF LibraryInv, OneMarking
<1>8. LeftAlone' /\ ListedOnce'
  BY <1>1, <1>3, <1>5, <1>6 DEF LibraryInv, LeftAlone, ListedOnce, Touches
<1>9. PassKnows'
  <2>1. SUFFICES ASSUME NEW q \in Passes, NEW e \in passes'[q].steady
                 PROVE  Knows(q, e)'
    BY DEF PassKnows
  <2>2. CASE q = p
    <3>1. e \in shown \ Busy
      BY <1>3, <2>1, <2>2
    <3> QED
      BY <1>1, <1>3, <1>5, <1>6, <2>2, <3>1 DEF Knows, LookedAt, Touches
  <2>3. CASE q # p
    <3>1. Knows(q, e) /\ passes'[q] = passes[q]
      BY <1>3, <2>1, <2>3 DEF LibraryInv, PassKnows
    <3> QED
      BY <1>1, <3>1 DEF Knows, LookedAt, Touches, AsFiled
  <2> QED
    BY <2>2, <2>3
<1> QED
  BY <1>4, <1>7, <1>8, <1>9 DEF LibraryInv

LEMMA PassLooksKeeps ==
  ASSUME LibraryInv, NEW p \in Passes, NEW item \in passes[p].todo, PassLooks(p, item)
  PROVE  LibraryInv'
<1> DEFINE differs == Differs(item)
           pass == [passes[p] EXCEPT !.at = IF differs THEN "found" ELSE "looking",
                                     !.todo = @ \ {item}, !.item = IF differs THEN item ELSE NoItem]
<1>1. /\ Typed /\ passes[p].at = "looking" /\ UNCHANGED <<day, rows, index, pending, files>>
      /\ passes' = [passes EXCEPT ![p] = pass]
  BY DEF LibraryInv, PassLooks, Typed
<1>2. item \in Item /\ passes[p] \in PassState
  BY <1>1 DEF Typed, PassState
<1>3. /\ pass \in PassState /\ pass.todo = passes[p].todo \ {item} /\ pass.steady = passes[p].steady
      /\ differs => pass.at = "found" /\ pass.item = item
      /\ ~differs => pass.at = "looking"
  BY <1>2 DEF PassState
<1>4. differs <=> ~AsFiled(item.entry, item.row)
  BY DEF Differs, AsFiled
<1> HIDE DEF pass, differs
<1>5. /\ passes' \in [Passes -> PassState]
      /\ \A q \in Passes : passes'[q] = IF q = p THEN pass ELSE passes[q]
  BY <1>1, <1>3 DEF Typed
<1>6. Typed' /\ IndexAgrees' /\ OpsLawful' /\ SeenIsSo'
  BY <1>1, <1>5 DEF LibraryInv, Typed, IndexAgrees, OpsLawful, Lawful, SeenIsSo, Touches
<1>7. OneMarking'
  BY <1>1, <1>2, <1>3, <1>5 DEF LibraryInv, OneMarking
<1>8. LeftAlone' /\ ListedOnce'
  BY <1>1, <1>3, <1>5 DEF LibraryInv, LeftAlone, ListedOnce, Touches
<1>9. PassKnows'
  <2>1. SUFFICES ASSUME NEW q \in Passes, NEW e \in passes'[q].steady
                 PROVE  Knows(q, e)'
    BY DEF PassKnows
  <2>2. Knows(q, e)
    BY <1>3, <1>5, <2>1 DEF LibraryInv, PassKnows
  <2>3. CASE q # p
    BY <1>1, <1>5, <2>2, <2>3 DEF Knows, LookedAt, Touches, AsFiled
  <2>4. CASE q = p /\ item.entry = e
    <3>1. item.row = rows[e] /\ ~LookedAt(p, e)
      BY <2>2, <2>4 DEF Knows, LookedAt
    <3>2. \A i \in 1..Len(pending) : ~Touches(i, e)
      BY <2>2, <2>4, <3>1 DEF Knows
    <3> QED
      BY <1>1, <1>3, <1>4, <1>5, <2>2, <2>4, <3>1, <3>2 DEF Knows, LookedAt, Touches, AsFiled
  <2>5. CASE q = p /\ item.entry # e
    <3>1. LookedAt(p, e)' <=> LookedAt(p, e)
      BY <1>1, <1>3, <1>5, <2>5 DEF LookedAt
    <3> QED
      BY <1>1, <1>3, <1>5, <2>2, <2>5, <3>1 DEF Knows, Touches, AsFiled
  <2> QED
    BY <2>3, <2>4, <2>5
<1> QED
  BY <1>6, <1>7, <1>8, <1>9 DEF LibraryInv

\* What a pass marks it reads again: what it was alone with is as it was listed.
LEMMA PassMarksKeeps ==
  ASSUME LibraryInv, NEW p \in Passes, PassMarks(p)
  PROVE  LibraryInv'
<1> DEFINE kind == IF passes[p].item.row.st = "available" THEN "markMissing" ELSE "markAvailable"
           went(at) == [passes EXCEPT ![p].at = at, ![p].item = NoItem]
<1>1. /\ Typed /\ passes[p].at = "found" /\ UNCHANGED <<day, rows, index, files>>
      /\ passes \in [Passes -> PassState]
  BY DEF LibraryInv, PassMarks, Typed
<1>2. PICK x \in Entries : x = passes[p].item.entry
  BY <1>1 DEF LibraryInv, OneMarking, Item
<1>2a. rows[x] \in SoundRows /\ day \in Nat \ {0}
  BY <1>1 DEF Typed
<1>3. \A i \in 1..Len(pending) : pending[i].by # p
  BY <1>1, LibraryAssumption DEF LibraryInv, OneMarking
<1>4. ASSUME NEW at \in {"looking", "marking"}
      PROVE  /\ went(at) \in [Passes -> PassState]
             /\ went(at)[p].at = at /\ went(at)[p].todo = passes[p].todo
             /\ went(at)[p].steady = passes[p].steady
             /\ \A q \in Passes : q # p => went(at)[q] = passes[q]
  BY <1>1 DEF PassState
<1>5. \A e : passes[p].item.entry # e => (LookedAt(p, e) <=> \A item \in passes[p].todo : item.entry # e)
  BY DEF LookedAt
<1>6. CASE Allowed(kind, rows[x])
  <2> DEFINE row == Changed(kind, rows[x], "none")
             seen == [e \in {x} |-> rows[x]]
             new == [e \in {x} |-> row]
             op == [by |-> p, seen |-> seen, new |-> new, crowded |-> Busy \cap {x}]
  <2>1. Reads(p, seen, new) /\ passes' = Disturb(went("marking"), p, {x})
    BY <1>1, <1>2, <1>6 DEF PassMarks, Transition
  <2>2. /\ row \in SoundRows /\ row.st \in {"missing", "available"}
        /\ kind = "markMissing" => row.st = "missing"
        /\ kind = "markAvailable" => row.st = "available"
    BY <1>2, <1>2a, <1>6, ChangedSound
  <2>3. rows[x].st # "trashed"
    BY <1>6 DEF Allowed
  <2> HIDE DEF row, went, kind
  <2>4. Joins(op)
    BY <1>1, <1>2, <1>2a, <2>1, <2>2, ReadsJoins
  <2>5. /\ op.by = p /\ op.seen = seen /\ op.new = new /\ op.crowded = Busy \cap {x}
        /\ DOMAIN new = {x} /\ seen[x] = rows[x] /\ new[x] = row
    OBVIOUS
  <2>6. Lawful(op)
    BY <2>2, <2>3, <2>5 DEF Lawful
  <2> HIDE DEF op, seen, new
  <2>7. /\ passes' \in [Passes -> PassState]
        /\ passes'[p].at = "marking" /\ passes'[p].todo = passes[p].todo
        /\ passes'[p].steady = passes[p].steady
    BY <1>4, <2>1, DisturbTyped, DisturbIs
  <2>8. ASSUME NEW q \in Passes, q # p
        PROVE  /\ passes'[q].at = passes[q].at /\ passes'[q].todo = passes[q].todo
               /\ passes'[q].item = passes[q].item /\ passes'[q].steady = passes[q].steady \ {x}
    <3>1. went("marking") \in [Passes -> PassState] /\ went("marking")[q] = passes[q]
      BY <1>4, <2>8
    <3> QED
      BY <2>1, <2>8, <3>1, DisturbIs
  <2>9. Typed' /\ IndexAgrees'
    BY <1>1, <2>4, <2>7 DEF LibraryInv, Typed, IndexAgrees, Joins
  <2>10. OpsLawful' /\ SeenIsSo'
    BY <1>1, <2>4, <2>5, <2>6, JoinKeeps
  <2>11. \A i \in 1..Len(pending) : pending[i].by \in Passes \cup {"user"}
    BY <1>1, OpAt
  <2>12. OneMarking'
    BY <1>3, <2>4, <2>5, <2>7, <2>8, <2>11 DEF LibraryInv, OneMarking, Joins
  <2>13. LeftAlone'
    BY <2>4, <2>5, <2>7, <2>8 DEF LibraryInv, LeftAlone, Joins, Touches
  <2>14. ListedOnce'
    BY <2>7, <2>8 DEF LibraryInv, ListedOnce
  <2>15. PassKnows'
    <3>1. SUFFICES ASSUME NEW q \in Passes, NEW e \in passes'[q].steady
                   PROVE  Knows(q, e)'
      BY DEF PassKnows
    <3>2. e \in passes[q].steady /\ Knows(q, e)
      BY <2>7, <2>8, <3>1 DEF LibraryInv, PassKnows
    <3>3. CASE e = x
      <4>1. q = p
        BY <2>8, <3>1, <3>3
      <4>2. passes[p].item.row = rows[x] /\ ~AsFiled(x, rows[x]) /\ rows[x].st \in {"available", "missing"}
        BY <1>1, <1>2, <3>2, <3>3, <4>1 DEF Knows
      <4>3. AsFiled(x, row)
        BY <2>2, <4>2 DEF AsFiled, kind
      <4>4. LookedAt(p, x)'
        BY <1>1, <1>2, <2>7 DEF LookedAt, LibraryInv, ListedOnce
      <4>5. \A i \in 1..Len(pending) : ~Touches(i, x)
        BY <1>3, <3>2, <3>3, <4>1 DEF LibraryInv, LeftAlone
      <4>6. \A i \in 1..Len(pending') : Touches(i, x)' =>
              LookedAt(p, x)' /\ AsFiled(x, pending'[i].new[x])
                              /\ pending'[i].new[x].st \in {"available", "missing"}
        BY <2>2, <2>4, <2>5, <4>3, <4>4, <4>5 DEF Joins, Touches
      <4>7. \E i \in 1..Len(pending') : Touches(i, x)'
        <5>1. PICK i : i = Len(pending) + 1
          OBVIOUS
        <5>2. i \in 1..Len(pending') /\ Touches(i, x)'
          BY <2>4, <2>5, <5>1 DEF Joins, Touches
        <5> QED
          BY <5>2
      <4>8. \A item \in passes'[p].todo : item.entry # x
        BY <1>1, <1>2, <2>7 DEF LibraryInv, ListedOnce
      <4> QED
        BY <1>1, <2>7, <3>3, <4>1, <4>2, <4>6, <4>7, <4>8 DEF Knows, AsFiled
    <3>4. CASE e # x
      <4>1. \A i \in 1..Len(pending') : Touches(i, e)' =>
              i \in 1..Len(pending) /\ Touches(i, e) /\ pending'[i] = pending[i]
        BY <2>4, <2>5, <3>4 DEF Joins, Touches
      <4>2. \A i \in 1..Len(pending) : Touches(i, e) => i \in 1..Len(pending') /\ Touches(i, e)'
        BY <2>4 DEF Joins, Touches
      <4>3. LookedAt(q, e)' <=> LookedAt(q, e)
        BY <1>1, <1>2, <2>7, <2>8, <3>4 DEF LookedAt
      <4> QED
        BY <1>1, <2>7, <2>8, <3>2, <4>1, <4>2, <4>3 DEF Knows, AsFiled
    <3> QED
      BY <3>3, <3>4
  <2> QED
    BY <2>9, <2>10, <2>12, <2>13, <2>14, <2>15 DEF LibraryInv
<1>7. CASE ~Allowed(kind, rows[x])
  <2>1. pending' = pending /\ passes' = Disturb(went("looking"), p, {})
    BY <1>1, <1>2, <1>7 DEF PassMarks
  <2>2. kind \in {"markMissing", "markAvailable"}
    OBVIOUS
  <2>3. x \notin passes[p].steady
    BY <1>1, <1>2, <1>7, <2>2 DEF LibraryInv, PassKnows, Knows, Allowed
  <2> HIDE DEF went, kind
  <2>4. /\ passes' \in [Passes -> PassState]
        /\ passes'[p].at = "looking" /\ passes'[p].todo = passes[p].todo
        /\ passes'[p].steady = passes[p].steady
    BY <1>4, <2>1, DisturbTyped, DisturbIs
  <2>5. ASSUME NEW q \in Passes, q # p
        PROVE  /\ passes'[q].at = passes[q].at /\ passes'[q].todo = passes[q].todo
               /\ passes'[q].item = passes[q].item /\ passes'[q].steady = passes[q].steady
    <3>1. went("looking") \in [Passes -> PassState] /\ went("looking")[q] = passes[q]
      BY <1>4, <2>5
    <3>2. /\ passes'[q].at = passes[q].at /\ passes'[q].todo = passes[q].todo
          /\ passes'[q].item = passes[q].item /\ passes'[q].steady = passes[q].steady \ {}
      <4>1. PICK none : none = {}
        OBVIOUS
      <4>2. passes' = Disturb(went("looking"), p, none)
        BY <2>1, <4>1
      <4>3. /\ passes'[q].at = passes[q].at /\ passes'[q].todo = passes[q].todo
            /\ passes'[q].item = passes[q].item /\ passes'[q].steady = passes[q].steady \ none
        BY <2>5, <3>1, <4>2, DisturbIs
      <4> QED
        BY <4>1, <4>3
    <3>3. passes[q].steady \ {} = passes[q].steady
      BY <1>1 DEF PassState
    <3> QED
      BY <3>2, <3>3
  <2>6. Typed' /\ IndexAgrees' /\ OpsLawful' /\ SeenIsSo'
    BY <1>1, <2>1, <2>4 DEF LibraryInv, Typed, IndexAgrees, OpsLawful, Lawful, SeenIsSo, Touches
  <2>7. OneMarking'
    <3>1. \A i \in 1..Len(pending) : pending[i].by \in Passes \cup {"user"}
      BY <1>1, OpAt
    <3> QED
      BY <1>3, <2>1, <2>4, <2>5, <3>1 DEF LibraryInv, OneMarking
  <2>8. LeftAlone' /\ ListedOnce'
    BY <2>1, <2>4, <2>5 DEF LibraryInv, LeftAlone, ListedOnce, Touches
  <2>9. PassKnows'
    <3>1. SUFFICES ASSUME NEW q \in Passes, NEW e \in passes'[q].steady
                   PROVE  Knows(q, e)'
      BY DEF PassKnows
    <3>2. Knows(q, e) /\ (q = p => e # x)
      BY <2>3, <2>4, <2>5, <3>1 DEF LibraryInv, PassKnows
    <3>3. LookedAt(q, e)' <=> LookedAt(q, e)
      BY <1>1, <1>2, <2>4, <2>5, <3>2 DEF LookedAt
    <3> QED
      BY <1>1, <2>1, <2>4, <2>5, <3>2, <3>3 DEF Knows, AsFiled, Touches
  <2> QED
    BY <2>6, <2>7, <2>8, <2>9 DEF LibraryInv
<1> QED
  BY <1>6, <1>7

LEMMA PassEndsKeeps ==
  ASSUME LibraryInv, NEW p \in Passes, PassEnds(p)
  PROVE  LibraryInv'
<1>1. /\ Typed /\ passes[p].at = "looking" /\ UNCHANGED <<day, rows, index, pending, files>>
      /\ passes' = [passes EXCEPT ![p] = PassIdle]
  BY DEF LibraryInv, PassEnds
<1>2. /\ passes' \in [Passes -> PassState]
      /\ \A q \in Passes : passes'[q] = IF q = p THEN PassIdle ELSE passes[q]
  BY <1>1, IdleIsPass DEF Typed
<1>3. Typed' /\ IndexAgrees' /\ OpsLawful' /\ SeenIsSo'
  BY <1>1, <1>2 DEF LibraryInv, Typed, IndexAgrees, OpsLawful, Lawful, SeenIsSo, Touches
<1>4. OneMarking'
  BY <1>1, <1>2, IdleIsPass DEF LibraryInv, OneMarking
<1>5. LeftAlone' /\ ListedOnce'
  BY <1>1, <1>2, IdleIsPass DEF LibraryInv, LeftAlone, ListedOnce, Touches
<1>6. PassKnows'
  BY <1>1, <1>2, IdleIsPass DEF LibraryInv, PassKnows, Knows, LookedAt, Touches, AsFiled
<1> QED
  BY <1>3, <1>4, <1>5, <1>6 DEF LibraryInv

------------------------------------------------------------------------------
(* The world *)

LEMMA WorldKeeps ==
  ASSUME LibraryInv, (\E e \in Entries : FileChanges(e)) \/ Dawns \/ Dies \/ UNCHANGED libraryVars
  PROVE  LibraryInv'
<1>1. ASSUME NEW e \in Entries, FileChanges(e)
      PROVE  LibraryInv'
  <2>1. /\ Typed /\ passes' = Disturb(passes, "nobody", {e}) /\ UNCHANGED <<day, rows, index, pending>>
        /\ files' \subseteq Entries /\ \A x \in Entries : x # e => (x \in files' <=> x \in files)
    BY <1>1 DEF LibraryInv, FileChanges, Typed
  <2>2. Undone({e})
    BY <2>1, DisturbedAll, LibraryAssumption
  <2>3. Typed' /\ IndexAgrees' /\ OpsLawful' /\ SeenIsSo'
    BY <2>1, <2>2 DEF LibraryInv, Typed, IndexAgrees, OpsLawful, Lawful, SeenIsSo, Touches, Undone
  <2>4. \A i \in 1..Len(pending) : pending[i].by \in Passes \cup {"user"}
    BY <2>1, OpAt
  <2>5. OneMarking'
    BY <2>1, <2>2, <2>4 DEF LibraryInv, OneMarking, Undone
  <2>6. LeftAlone' /\ ListedOnce'
    <3>1. \A p \in Passes : /\ \A x \in passes'[p].steady : x \in passes[p].steady
                           /\ passes'[p].at = passes[p].at /\ passes'[p].todo = passes[p].todo
                           /\ passes'[p].item = passes[p].item
      BY <2>2 DEF Undone
    <3>2. pending' = pending
      BY <2>1
    <3>3. LeftAlone'
      BY <3>1, <3>2 DEF LibraryInv, LeftAlone, Touches
    <3> QED
      BY <3>1, <3>3 DEF LibraryInv, ListedOnce
  <2>7. PassKnows'
    <3>1. SUFFICES ASSUME NEW p \in Passes, NEW x \in passes'[p].steady
                   PROVE  Knows(p, x)'
      BY DEF PassKnows
    <3>2. x \in passes[p].steady /\ x # e /\ x \in Entries
      <4>1. passes'[p] \in PassState /\ passes'[p].steady = passes[p].steady \ {e}
        BY <2>2 DEF Undone
      <4> QED
        BY <3>1, <4>1 DEF PassState
    <3>3. Knows(p, x) /\ (x \in files' <=> x \in files)
      BY <2>1, <3>2 DEF LibraryInv, PassKnows
    <3> QED
      BY <2>1, <2>2, <3>3 DEF Knows, LookedAt, Touches, AsFiled, Undone
  <2> QED
    BY <2>3, <2>5, <2>6, <2>7 DEF LibraryInv
<1>2. ASSUME Dawns
      PROVE  LibraryInv'
  <2>1. Typed /\ day' = day + 1 /\ UNCHANGED <<rows, index, pending, passes, files>>
    BY <1>2 DEF LibraryInv, Dawns
  <2>2. OpsLawful'
    <3>1. SUFFICES ASSUME NEW i \in 1..Len(pending)
                   PROVE  Lawful(pending[i])'
      BY <2>1 DEF OpsLawful
    <3>2. /\ Lawful(pending[i]) /\ pending[i].seen \in Partial
          /\ DOMAIN pending[i].seen = DOMAIN pending[i].new
      BY <2>1, OpAt, OpParts DEF LibraryInv, OpsLawful, Lawful
    <3>3. \A e \in DOMAIN pending[i].new : pending[i].seen[e].trashedAt \in Nat
      BY <3>2, PartialRows DEF SoundRows, Row
    <3> QED
      BY <2>1, <3>2, <3>3, LibraryAssumption DEF Lawful, Typed
  <2> QED
    BY <2>1, <2>2 DEF LibraryInv, Typed, IndexAgrees, SeenIsSo, OneMarking, LeftAlone,
                      ListedOnce, PassKnows, Knows, LookedAt, Touches, AsFiled
<1>3. ASSUME Dies
      PROVE  LibraryInv'
  <2>1. /\ Typed /\ pending' = <<>> /\ passes' = [p \in Passes |-> PassIdle]
        /\ UNCHANGED <<day, rows, index, files>>
    BY <1>3 DEF LibraryInv, Dies
  <2>2. /\ Len(pending') = 0 /\ pending' \in Seq(Op) /\ 1..0 = {}
        /\ passes' \in [Passes -> PassState] /\ \A p \in Passes : passes'[p] = PassIdle
    BY <2>1, IdleIsPass, EmptySeq
  <2>3. Typed' /\ IndexAgrees' /\ OpsLawful' /\ SeenIsSo'
    BY <2>1, <2>2, LibraryAssumption DEF LibraryInv, Typed, IndexAgrees, OpsLawful, SeenIsSo
  <2> QED
    BY <2>1, <2>2, <2>3, IdleIsPass DEF LibraryInv, OneMarking, LeftAlone, ListedOnce, PassKnows
<1>4. ASSUME UNCHANGED libraryVars
      PROVE  LibraryInv'
  BY <1>4 DEF libraryVars, LibraryInv, Typed, IndexAgrees, OpsLawful, Lawful, SeenIsSo, OneMarking,
              LeftAlone, ListedOnce, PassKnows, Knows, LookedAt, Touches, AsFiled
<1> QED
  BY <1>1, <1>2, <1>3, <1>4

LEMMA LibraryInitially == InitLibrary => LibraryInv
<1> SUFFICES ASSUME InitLibrary PROVE LibraryInv
  OBVIOUS
<1>1. /\ day = 1 /\ rows = [e \in Entries |-> NoRow] /\ index = [e \in Entries |-> <<>>]
      /\ pending = <<>> /\ passes = [p \in Passes |-> PassIdle] /\ files \subseteq Entries
  BY DEF InitLibrary
<1>2. /\ Len(pending) = 0 /\ pending \in Seq(Op) /\ 1..0 = {}
      /\ passes \in [Passes -> PassState] /\ \A p \in Passes : passes[p] = PassIdle
  BY <1>1, IdleIsPass, EmptySeq
<1>3. Typed /\ IndexAgrees /\ OpsLawful /\ SeenIsSo
  BY <1>1, <1>2, NoRowIsSound, LibraryAssumption
     DEF Typed, IndexAgrees, OpsLawful, SeenIsSo, NoRow
<1> QED
  BY <1>1, <1>2, <1>3, IdleIsPass DEF LibraryInv, OneMarking, LeftAlone, ListedOnce, PassKnows

------------------------------------------------------------------------------
(* The theorems *)

\* Every step keeps the invariant, and every step that is not of a transaction
\* leaves that as it is, or ends it.
LEMMA StepKeeps ==
  ASSUME LibraryInv, Transacted, [NextLibrary]_libraryVars
  PROVE  LibraryInv' /\ Transacted'
<1>1. ASSUME NEW e \in Entries, NEW title \in Titles,
             Save(e, title) \/ UserActs("rename", e, title)
      PROVE  LibraryInv' /\ Transacted'
  <2>1. LibraryInv'
    BY <1>1, SaveKeeps, UserActsKeeps DEF UserKinds
  <2>2. Transacted'
    BY <1>1, TransactionStays DEF Save, UserActs, Transition
  <2> QED
    BY <2>1, <2>2
<1>2. ASSUME NEW e \in Entries, NEW kind \in UserKinds \ {"rename"}, UserActs(kind, e, "none")
      PROVE  LibraryInv' /\ Transacted'
  <2>1. LibraryInv'
    BY <1>2, UserActsKeeps
  <2>2. Transacted'
    BY <1>2, TransactionStays DEF UserActs, Transition
  <2> QED
    BY <2>1, <2>2
<1>3. ASSUME PurgeSelects
      PROVE  LibraryInv' /\ Transacted'
  <2>1. LibraryInv'
    BY <1>3, PurgeKeeps
  <2>2. Transacted'
    BY <1>3, TransactionStays DEF PurgeSelects
  <2> QED
    BY <2>1, <2>2
<1>4. ASSUME Begins \/ (\E e \in Entries : PutsRow(e) \/ RemovesLine(e) \/ InsertsLine(e))
      PROVE  LibraryInv' /\ Transacted'
  <2>1. LibraryInv'
    BY <1>4, StatementsShowNothing DEF Begins, PutsRow, RemovesLine, InsertsLine
  <2>2. Transacted'
    BY <1>4, BeginsTransacts, StatementsTransact
  <2> QED
    BY <2>1, <2>2
<1>5. ASSUME Commits \/ WriteFails \/ Dies
      PROVE  LibraryInv' /\ Transacted'
  <2>1. LibraryInv'
    BY <1>5, CommitsWrite, WritesKeeps, WriteFailsKeeps, WorldKeeps
  <2>2. tx' = NoTx
    BY <1>5 DEF Commits, WriteFails, Dies
  <2>3. Transacted'
    BY <2>2, NoTransaction DEF Transacted
  <2> QED
    BY <2>1, <2>3
<1>6. ASSUME NEW p \in Passes, PassLists(p) \/ PassMarks(p) \/ PassEnds(p)
      PROVE  LibraryInv' /\ Transacted'
  <2>1. LibraryInv'
    BY <1>6, PassListsKeeps, PassMarksKeeps, PassEndsKeeps
  <2>2. Transacted'
    BY <1>6, TransactionStays DEF PassLists, PassMarks, PassEnds
  <2> QED
    BY <2>1, <2>2
<1>7. ASSUME NEW p \in Passes, NEW item \in passes[p].todo, PassLooks(p, item)
      PROVE  LibraryInv' /\ Transacted'
  <2>1. LibraryInv'
    BY <1>7, PassLooksKeeps
  <2>2. Transacted'
    BY <1>7, TransactionStays DEF PassLooks
  <2> QED
    BY <2>1, <2>2
<1>8. ASSUME (\E e \in Entries : FileChanges(e)) \/ Dawns \/ UNCHANGED libraryVars
      PROVE  LibraryInv' /\ Transacted'
  <2>1. LibraryInv'
    BY <1>8, WorldKeeps
  <2>2. Transacted'
    BY <1>8, TransactionStays DEF FileChanges, Dawns, libraryVars
  <2> QED
    BY <2>1, <2>2
<1> QED
  BY <1>1, <1>2, <1>3, <1>4, <1>5, <1>6, <1>7, <1>8 DEF NextLibrary

\* The inductive invariant holds in every state reached.
THEOREM LibraryInvariant == SpecLibrary => [](LibraryInv /\ Transacted)
<1>1. InitLibrary => LibraryInv /\ Transacted
  <2> SUFFICES ASSUME InitLibrary PROVE Transacted
    BY LibraryInitially
  <2> QED
    BY NoTransaction DEF InitLibrary, Transacted
<1>2. LibraryInv /\ Transacted /\ [NextLibrary]_libraryVars => (LibraryInv /\ Transacted)'
  BY StepKeeps
<1> QED
  BY <1>1, <1>2, PTL DEF SpecLibrary

\* Every row can be read again, and an operation names entries there are
\* (library_entry.dart:49-51).
THEOREM LibraryTypeCorrect == SpecLibrary => []LibraryTypeOK
<1>1. LibraryInv /\ Transacted => LibraryTypeOK
  <2> SUFFICES ASSUME LibraryInv, Transacted PROVE LibraryTypeOK
    OBVIOUS
  <2>1. Typed
    BY DEF LibraryInv
  <2>2. /\ rows \in [Entries -> Row]
        /\ \A e \in Entries : /\ rows[e].st = "trashed" <=> rows[e].trashedAt # 0
                              /\ rows[e].st = "none" <=> rows[e].title = "none"
    BY <2>1 DEF Typed, SoundRows, Sound
  <2>3. DOMAIN pending = 1..Len(pending)
    BY <2>1, LenProperties DEF Typed
  <2>4. \A i \in DOMAIN pending :
          /\ pending[i].by \in Passes \cup {"user"}
          /\ DOMAIN pending[i].new \subseteq Entries
          /\ DOMAIN pending[i].new = DOMAIN pending[i].seen
          /\ pending[i].crowded \subseteq DOMAIN pending[i].new
    BY <2>1, <2>3, OpAt DEF LibraryInv, OpsLawful, Lawful
  <2>5. \A p \in Passes : passes[p].at \in {"idle", "looking", "found", "marking"}
    BY <2>1 DEF Typed, PassState
  <2> QED
    BY <2>1, <2>2, <2>4, <2>5 DEF Typed, Transacted, LibraryTypeOK
<1> QED
  BY <1>1, LibraryInvariant, PTL

\* The search finds what is not in the trash, once and under the title it has,
\* whatever operations overlap, fail between their statements or are lost with
\* the process (drift_library_repository.dart:35-52, 239-246).
THEOREM SearchAgrees == SpecLibrary => []IndexAgrees
<1>1. LibraryInv => IndexAgrees
  BY DEF LibraryInv
<1> QED
  BY <1>1, LibraryInvariant, PTL

\* The rows change when the oldest operation is written, into what it has made
\* of the rows it has seen.
LEMMA RowsChange ==
  ASSUME LibraryInv, Transacted, [NextLibrary]_libraryVars, NEW e \in Entries, rows'[e] # rows[e]
  PROVE  /\ Head(pending) = pending[1] /\ Lawful(pending[1]) /\ e \in DOMAIN pending[1].new
         /\ rows'[e] = pending[1].new[e]
         /\ pending[1].seen[e] = rows[e] \/ e \in pending[1].crowded
<1>1. Written
  <2>1. Commits
    BY DEF NextLibrary, libraryVars, Save, UserActs, FileChanges, PurgeSelects, WriteFails, Begins,
           PutsRow, RemovesLine, InsertsLine, PassLists, PassMarks, PassEnds, PassLooks, Dawns, Dies
  <2> QED
    BY <2>1, CommitsWrite
<1>2. Leaves
  BY <1>1, TailLeaves DEF LibraryInv, Written, Served
<1>3. 1 \in 1..Len(pending) /\ Head(pending) = pending[1]
  BY <1>2 DEF Leaves
<1>4. e \in DOMAIN pending[1].new /\ rows'[e] = pending[1].new[e]
  BY <1>1, <1>3 DEF Written
<1> QED
  BY <1>3, <1>4 DEF LibraryInv, OpsLawful, SeenIsSo

\* An operation writes over the row it has seen, unless another on the entry
\* was under way (drift_library_repository.dart:270-285).
THEOREM StaleWritesAreCrowded == SpecLibrary => StaleOnlyIfCrowded
<1> DEFINE Fresh == \A e \in Entries : rows'[e] # rows[e] =>
             LET op == Head(pending) IN op.seen[e] = rows[e] \/ e \in op.crowded
<1>1. LibraryInv /\ Transacted /\ [NextLibrary]_libraryVars => [Fresh]_libraryVars
  BY RowsChange
<1> QED
  BY <1>1, LibraryInvariant, PTL DEF SpecLibrary, StaleOnlyIfCrowded

\* Only a restore takes an entry out of the trash and only a purge in its time
\* deletes it (library_entry.dart:20-21, 54-55).
THEOREM TrashIsKept == SpecLibrary => TrashKept
<1> DEFINE LeavesTrash(e) == rows[e].st = "trashed" /\ rows'[e].st \in {"available", "missing"}
           Deleted(e) == rows[e].st # "none" /\ rows'[e].st = "none"
           Kept == \A e \in Entries :
             LET op == Head(pending)
                 leavesTrash == rows[e].st = "trashed" /\ rows'[e].st \in {"available", "missing"}
                 deleted == rows[e].st # "none" /\ rows'[e].st = "none"
             IN /\ leavesTrash => \/ op.by = "user" /\ op.seen[e].st = "trashed"
                                  \/ e \in op.crowded
                /\ deleted => \/ rows[e].st = "trashed" /\ day >= rows[e].trashedAt + Retention
                              \/ e \in op.crowded
<1>1. LibraryInv /\ Transacted /\ [NextLibrary]_libraryVars => [Kept]_libraryVars
  <2> SUFFICES ASSUME LibraryInv, Transacted, [NextLibrary]_libraryVars, NEW e \in Entries,
                      LeavesTrash(e) \/ Deleted(e)
               PROVE  /\ LeavesTrash(e) => \/ Head(pending).by = "user"
                                              /\ Head(pending).seen[e].st = "trashed"
                                           \/ e \in Head(pending).crowded
                      /\ Deleted(e) => \/ rows[e].st = "trashed" /\ day >= rows[e].trashedAt + Retention
                                       \/ e \in Head(pending).crowded
    OBVIOUS
  <2>1. rows'[e] # rows[e]
    OBVIOUS
  <2> QED
    BY <2>1, RowsChange DEF Lawful
<1> QED
  BY <1>1, LibraryInvariant, PTL DEF SpecLibrary, TrashKept

\* A pass that is through shows what it was alone with as the files are
\* (library_view.dart:31-33).
THEOREM PassesTellTruth == SpecLibrary => []PassTellsTruth
<1>1. LibraryInv => PassTellsTruth
  <2> SUFFICES ASSUME LibraryInv, NEW p \in Passes, NEW e \in passes[p].steady,
                      passes[p].at = "looking", passes[p].todo = {}
               PROVE  AsFiled(e, rows[e])
    BY DEF PassTellsTruth, AsFiled
  <2>1. Knows(p, e) /\ LookedAt(p, e)
    BY DEF LibraryInv, PassKnows, LookedAt
  <2>2. \A i \in 1..Len(pending) : pending[i].by # p
    BY LibraryAssumption DEF LibraryInv, OneMarking
  <2>3. \A i \in 1..Len(pending) : ~Touches(i, e)
    BY <2>2 DEF LibraryInv, LeftAlone
  <2> QED
    BY <2>1, <2>3 DEF Knows
<1> QED
  BY <1>1, LibraryInvariant, PTL
=============================================================================
