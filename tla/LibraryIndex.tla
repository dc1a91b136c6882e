---------------------------- MODULE LibraryIndex ----------------------------
(***************************************************************************)
(* The library of the app and its search index (features/library,          *)
(* core/storage/search_index.dart), with the pass that compares the        *)
(* library with the files.                                                 *)
(*                                                                         *)
(* An operation on an entry reads its row, awaits the answer, and saves    *)
(* the whole row with its line of the index in one transaction; a purge    *)
(* selects the expired rows and deletes them, each with its line, in a     *)
(* transaction.  The isolate of the database (external) serves statements  *)
(* and transactions in the order they come, so operations write in the     *)
(* order they read: `pending` are those that have read.  A query waits for *)
(* the transaction under way, whose statements are awaited one by one: it  *)
(* may fail, or the process die, between any two of them.                  *)
(*                                                                         *)
(* Of the columns the status, the trash date and the title are kept, which *)
(* stands for what the index holds; setTags is as rename.  Nothing in the  *)
(* app adds entries yet: save is the contract of the repository.           *)
(***************************************************************************)
EXTENDS Naturals, Sequences, FiniteSets

CONSTANTS
  Entries,
  Titles,
  Passes,         \* the reconciliations under way at one time
  Retention,      \* trashRetentionDays
  MaxPending,     \* bound: operations that have read and not written
  LastDay         \* bound: the last day looked at

ASSUME LibraryAssumption ==
  /\ Retention \in Nat \ {0} /\ MaxPending \in Nat /\ LastDay \in Nat
  /\ "none" \notin Titles /\ "user" \notin Passes /\ "nobody" \notin Passes

VARIABLES
  day,            \* DateTime.now(), from 1
  rows,           \* library_entry_rows
  index,          \* library_search: the titles of the lines of each entry
  tx,             \* the transaction under way: the tables as it sees them
  pending,        \* the operations between read and write
  passes,
  files           \* external: the entries whose file exists

libraryVars == <<day, rows, index, tx, pending, passes, files>>

Row == [st : {"none", "available", "missing", "trashed"}, trashedAt : Nat,
        title : Titles \cup {"none"}]

NoRow == [st |-> "none", trashedAt |-> 0, title |-> "none"]

\* `next` is the statement that comes next for each entry.
Transaction ==
  [open : BOOLEAN, rows : [Entries -> Row], index : [Entries -> Seq(Titles)],
   next : [Entries -> {"row", "remove", "insert", "done"}]]

NoTx == [open |-> FALSE, rows |-> [e \in Entries |-> NoRow],
         index |-> [e \in Entries |-> <<>>], next |-> [e \in Entries |-> "done"]]

\* `steady`, a history: the entries of a pass nothing else has touched since
\* its listing.
NoItem == [entry |-> "none", row |-> NoRow]

PassIdle == [at |-> "idle", todo |-> {}, item |-> NoItem, steady |-> {}]

\* A trash date is set iff the entry is in the trash: a row that says otherwise
\* cannot be read any more (library_entry.dart:49-51).
LibraryTypeOK ==
  /\ day \in Nat
  /\ rows \in [Entries -> Row]
  /\ \A e \in Entries : /\ rows[e].st = "trashed" <=> rows[e].trashedAt # 0
                        /\ rows[e].st = "none" <=> rows[e].title = "none"
  /\ index \in [Entries -> Seq(Titles)]
  /\ tx \in Transaction /\ (tx.open => pending # <<>>)
  /\ Len(pending) <= MaxPending
  /\ \A i \in DOMAIN pending :
       /\ pending[i].by \in Passes \cup {"user"}
       /\ DOMAIN pending[i].new \subseteq Entries
       /\ DOMAIN pending[i].new = DOMAIN pending[i].seen
       /\ pending[i].crowded \subseteq DOMAIN pending[i].new
  /\ \A p \in Passes : passes[p].at \in {"idle", "looking", "found", "marking"}
  /\ files \subseteq Entries

InitLibrary ==
  /\ day = 1
  /\ rows = [e \in Entries |-> NoRow]
  /\ index = [e \in Entries |-> <<>>]
  /\ tx = NoTx
  /\ pending = <<>>
  /\ passes = [p \in Passes |-> PassIdle]
  /\ files \in SUBSET Entries

------------------------------------------------------------------------------
(* Reading *)

\* The entries an operation under way will write.
Busy == UNION {DOMAIN pending[i].new : i \in DOMAIN pending}

\* An operation that has read `seen` will write `new`; `crowded`, a history, is
\* what another was about to write when it read.
Reads(by, seen, new) ==
  /\ Len(pending) < MaxPending
  /\ pending' = Append(pending, [by |-> by, seen |-> seen, new |-> new,
                                 crowded |-> Busy \cap DOMAIN new])

\* Passes are told of what others do to their entries.
Disturb(ps, by, es) ==
  [p \in Passes |-> IF p = by THEN ps[p] ELSE [ps[p] EXCEPT !.steady = @ \ es]]

\* A mutant: what is in the trash is marked as well.
AllowedMarks(kind, row) ==
  /\ row.st # "none"
  /\ kind = "moveToTrash" => row.st # "trashed"
  /\ kind = "restoreFromTrash" => row.st = "trashed"

\* What _transition and the functions it is given refuse.
Allowed(kind, row) ==
  /\ row.st # "none"
  /\ kind \in {"markMissing", "markAvailable", "moveToTrash"} => row.st # "trashed"
  /\ kind = "restoreFromTrash" => row.st = "trashed"

\* A mutant: the trash date outlives the restore.
ChangedDated(kind, row, title) ==
  CASE kind = "rename" -> [row EXCEPT !.title = title]
    [] kind = "setFavorite" -> row
    [] kind = "markMissing" -> [row EXCEPT !.st = "missing"]
    [] kind \in {"markAvailable", "restoreFromTrash"} -> [row EXCEPT !.st = "available"]
    [] kind = "moveToTrash" -> [row EXCEPT !.st = "trashed", !.trashedAt = day]

Changed(kind, row, title) ==
  CASE kind = "rename" -> [row EXCEPT !.title = title]
    [] kind = "setFavorite" -> row
    [] kind = "markMissing" -> [row EXCEPT !.st = "missing"]
    [] kind = "markAvailable" -> [row EXCEPT !.st = "available"]
    [] kind = "moveToTrash" -> [row EXCEPT !.st = "trashed", !.trashedAt = day]
    [] kind = "restoreFromTrash" -> [row EXCEPT !.st = "available", !.trashedAt = 0]

\* _transition up to its save, for the row as it is read.
Transition(kind, by, e, row, title) ==
  /\ ~tx.open /\ Allowed(kind, row)
  /\ Reads(by, [x \in {e} |-> row], [x \in {e} |-> Changed(kind, row, title)])

UserKinds == {"rename", "setFavorite", "moveToTrash", "restoreFromTrash"}

UserActs(kind, e, title) ==
  /\ Transition(kind, "user", e, rows[e], title)
  /\ passes' = Disturb(passes, "user", {e})
  /\ UNCHANGED <<day, rows, index, tx, files>>

\* save, of a new entry: it reads nothing.
Save(e, title) ==
  /\ rows[e].st = "none" /\ e \notin Busy
  /\ Reads("user", [x \in {e} |-> rows[e]],
           [x \in {e} |-> [st |-> "available", trashedAt |-> 0, title |-> title]])
  /\ passes' = Disturb(passes, "user", {e})
  /\ UNCHANGED <<day, rows, index, tx, files>>

\* trashedAt <= cutoff
Expired(e) == rows[e].st = "trashed" /\ rows[e].trashedAt <= day - Retention

\* purgeExpiredTrash up to its transaction.
PurgeSelects ==
  LET expired == {e \in Entries : Expired(e)} IN
  /\ ~tx.open /\ expired # {}
  /\ Reads("user", [e \in expired |-> rows[e]], [e \in expired |-> NoRow])
  /\ passes' = Disturb(passes, "user", expired)
  /\ UNCHANGED <<day, rows, index, tx, files>>

------------------------------------------------------------------------------
(* Writing *)

Begins ==
  /\ ~tx.open /\ pending # <<>>
  /\ tx' = [open |-> TRUE, rows |-> rows, index |-> index,
            next |-> [e \in Entries |-> IF e \in DOMAIN Head(pending).new THEN "row" ELSE "done"]]
  /\ UNCHANGED <<day, rows, index, pending, passes, files>>

\* A purge goes through its entries one by one.
Turn(e) == \A x \in Entries \ {e} : tx.next[x] \in {"row", "done"}

\* A mutant: the row is not written in the transaction.
PutsRowOutside(e) ==
  /\ tx.next[e] = "row" /\ Turn(e)
  /\ rows' = [rows EXCEPT ![e] = Head(pending).new[e]]
  /\ tx' = [tx EXCEPT !.rows[e] = Head(pending).new[e], !.next[e] = "remove"]
  /\ UNCHANGED <<day, index, pending, passes, files>>

\* The whole row, whatever it is by now; or none, by a purge.
PutsRow(e) ==
  /\ tx.next[e] = "row" /\ Turn(e)
  /\ tx' = [tx EXCEPT !.rows[e] = Head(pending).new[e], !.next[e] = "remove"]
  /\ UNCHANGED <<day, rows, index, pending, passes, files>>

\* remove, which is also the beginning of upsert.
RemovesLine(e) ==
  LET searched == Head(pending).new[e].st \in {"available", "missing"} IN
  /\ tx.next[e] = "remove"
  /\ tx' = [tx EXCEPT !.index[e] = <<>>, !.next[e] = IF searched THEN "insert" ELSE "done"]
  /\ UNCHANGED <<day, rows, index, pending, passes, files>>

InsertsLine(e) ==
  /\ tx.next[e] = "insert"
  /\ tx' = [tx EXCEPT !.index[e] = Append(@, Head(pending).new[e].title), !.next[e] = "done"]
  /\ UNCHANGED <<day, rows, index, pending, passes, files>>

Served ==
  LET by == Head(pending).by IN
  /\ pending' = Tail(pending)
  /\ passes' = IF by = "user" THEN passes ELSE [passes EXCEPT ![by].at = "looking"]
  /\ UNCHANGED <<day, files>>

Commits ==
  /\ tx.open /\ \A e \in Entries : tx.next[e] = "done"
  /\ rows' = tx.rows /\ index' = tx.index /\ tx' = NoTx
  /\ Served

\* One of the statements fails: the transaction is rolled back.
WriteFails ==
  LET op == Head(pending) IN
  /\ pending # <<>> /\ tx' = NoTx
  /\ pending' = Tail(pending)
  /\ passes' = Disturb(IF op.by = "user" THEN passes ELSE [passes EXCEPT ![op.by].at = "looking"],
                       "nobody", DOMAIN op.new)
  /\ UNCHANGED <<day, rows, index, files>>

------------------------------------------------------------------------------
(* ReconcileLibraryFilesUseCase *)

PassLists(p) ==
  LET shown == {e \in Entries : rows[e].st \in {"available", "missing"}} IN
  /\ ~tx.open /\ passes[p].at = "idle" /\ shown # {}
  /\ passes' = [passes EXCEPT ![p] =
       [at |-> "looking", todo |-> {[entry |-> e, row |-> rows[e]] : e \in shown},
        item |-> NoItem, steady |-> shown \ Busy]]
  /\ UNCHANGED <<day, rows, index, tx, pending, files>>

\* A mutant: only files that are gone are noticed.
DiffersGone(item) == item.entry \notin files /\ item.row.st = "available"

\* What the listing says of the entry is not what the file system says.
Differs(item) == (item.entry \in files) # (item.row.st = "available")

\* exists, for one entry of the listing.
PassLooks(p, item) ==
  /\ passes[p].at = "looking" /\ item \in passes[p].todo
  /\ passes' = [passes EXCEPT ![p].at = IF Differs(item) THEN "found" ELSE "looking",
                              ![p].todo = @ \ {item},
                              ![p].item = IF Differs(item) THEN item ELSE NoItem]
  /\ UNCHANGED <<day, rows, index, tx, pending, files>>

\* A mutant: the row of the listing is changed and saved.
PassMarksListed(p) ==
  LET item == passes[p].item
      kind == IF item.row.st = "available" THEN "markMissing" ELSE "markAvailable"
  IN /\ passes[p].at = "found"
     /\ Transition(kind, p, item.entry, item.row, "none")
     /\ passes' = Disturb([passes EXCEPT ![p].at = "marking", ![p].item = NoItem], p, {item.entry})
     /\ UNCHANGED <<day, rows, index, tx, files>>

\* markMissing or markAvailable, which reads the row again; a refusal is ignored.
PassMarks(p) ==
  LET item == passes[p].item
      kind == IF item.row.st = "available" THEN "markMissing" ELSE "markAvailable"
      allowed == Allowed(kind, rows[item.entry])
  IN /\ ~tx.open /\ passes[p].at = "found"
     /\ IF allowed THEN Transition(kind, p, item.entry, rows[item.entry], "none")
                   ELSE UNCHANGED pending
     /\ passes' = Disturb([passes EXCEPT ![p].at = IF allowed THEN "marking" ELSE "looking",
                                         ![p].item = NoItem],
                          p, IF allowed THEN {item.entry} ELSE {})
     /\ UNCHANGED <<day, rows, index, tx, files>>

PassEnds(p) ==
  /\ passes[p].at = "looking" /\ passes[p].todo = {}
  /\ passes' = [passes EXCEPT ![p] = PassIdle]
  /\ UNCHANGED <<day, rows, index, tx, pending, files>>

------------------------------------------------------------------------------
(* The world *)

\* A file is moved away, or back.
FileChanges(e) ==
  /\ files' = IF e \in files THEN files \ {e} ELSE files \cup {e}
  /\ passes' = Disturb(passes, "nobody", {e})
  /\ UNCHANGED <<day, rows, index, tx, pending>>

Dawns == day < LastDay /\ day' = day + 1 /\ UNCHANGED <<rows, index, tx, pending, passes, files>>

\* The process dies; the database outlives it.
Dies ==
  /\ pending' = <<>> /\ tx' = NoTx
  /\ passes' = [p \in Passes |-> PassIdle]
  /\ UNCHANGED <<day, rows, index, files>>

NextLibrary ==
  \/ \E e \in Entries :
       \/ \E title \in Titles : Save(e, title) \/ UserActs("rename", e, title)
       \/ \E kind \in UserKinds \ {"rename"} : UserActs(kind, e, "none")
       \/ PutsRow(e) \/ RemovesLine(e) \/ InsertsLine(e)
       \/ FileChanges(e)
  \/ PurgeSelects \/ Begins \/ Commits \/ WriteFails
  \/ \E p \in Passes :
       \/ PassLists(p) \/ PassMarks(p) \/ PassEnds(p)
       \/ \E item \in passes[p].todo : PassLooks(p, item)
  \/ Dawns \/ Dies

SpecLibrary == InitLibrary /\ [][NextLibrary]_libraryVars

------------------------------------------------------------------------------
(* Properties *)

\* The search finds every entry that is not in the trash, once and under the
\* title it has, and nothing else, wherever a save or a purge fails, or the
\* process dies, between its statements (drift_library_repository.dart:35-52,
\* 239-246; search_index.dart:48-50).
IndexAgrees ==
  \A e \in Entries :
    index[e] = IF rows[e].st \in {"available", "missing"} THEN <<rows[e].title>> ELSE <<>>

\* What is written is made of the row it is written over, unless another
\* operation on the entry was under way when this one read it: only then an
\* edit, a restore or a purge can be lost (drift_library_repository.dart:270-285,
\* 232-246).
StaleOnlyIfCrowded ==
  [][\A e \in Entries : rows'[e] # rows[e] =>
       LET op == Head(pending) IN op.seen[e] = rows[e] \/ e \in op.crowded]_libraryVars

\* What is in the trash stays there until it is restored or, after the days it
\* is kept, purged, whatever a reconciliation finds; and only from there is an
\* entry deleted (library_entry.dart:20-21, 54-55): with the same exception.
TrashKept ==
  [][\A e \in Entries :
       LET op == Head(pending)
           leavesTrash == rows[e].st = "trashed" /\ rows'[e].st \in {"available", "missing"}
           deleted == rows[e].st # "none" /\ rows'[e].st = "none"
       IN /\ leavesTrash => \/ op.by = "user" /\ op.seen[e].st = "trashed"
                            \/ e \in op.crowded
          /\ deleted => \/ rows[e].st = "trashed" /\ day >= rows[e].trashedAt + Retention
                        \/ e \in op.crowded]_libraryVars

\* When a pass is through, what it was the only one to touch is shown as the
\* files are (library_view.dart:31-33).
PassTellsTruth ==
  \A p \in Passes : passes[p].at = "looking" /\ passes[p].todo = {} =>
    \A e \in passes[p].steady : rows[e].st = "available" <=> e \in files
=============================================================================
