------------------------------- MODULE Export -------------------------------
(***************************************************************************)
(* The CSV export of a list that is in use (ExportButton, paginate).       *)
(*                                                                         *)
(* The button asks for the filtered list in chunks of CHUNK_SIZE, one      *)
(* after another, until the number of pages the LAST answer named.  Each   *)
(* answer takes two statements that run side by side, one for the rows and *)
(* one for the count; past the end a third fetches the last page.          *)
(* Meanwhile the shop works: rows are added, leave the list (deleted, or   *)
(* no longer matching the filter), and in the list of phones a row jumps   *)
(* to the top at every check-in, because that list is sorted by the time   *)
(* of the last change.                                                     *)
(*                                                                         *)
(* Definitions named "...Forgotten" are faulty variants.                   *)
(***************************************************************************)
EXTENDS Naturals, SequencesExt

CONSTANTS Rows, CHUNK_SIZE, MAX_CHUNKS

ASSUME ExportAssumption == CHUNK_SIZE \in Nat \ {0} /\ MAX_CHUNKS \in Nat \ {0}

VARIABLES
  table,    \* the list as the database would return it now
  export,   \* [at, page, pages]: waiting for a click, asking, done or failed
  answer,   \* of the chunk being read: [rows, total], each a set of at most one
  rows,     \* what has been collected
  expected, \* rows on the list since the click, that neither left it nor jumped
  slid      \* a row left, or one was added between the two statements

exportVars == <<table, export, answer, rows, expected, slid>>

Idle == [at |-> "idle", page |-> 1, pages |-> 1]
Unread == [rows |-> {}, total |-> {}]

Tables == {t \in SeqOf(Rows, 3) : IsInjective(t)}

ExportTypeOK ==
  /\ table \in Seq(Rows)
  /\ export \in [at: {"idle", "asking", "done", "failed"},
                 page: 1..(MAX_CHUNKS + 1), pages: Nat \ {0}]
  /\ answer.total \subseteq Nat /\ answer.rows \subseteq Seq(Rows)
  /\ rows \in Seq(Rows) /\ expected \subseteq Rows
  /\ slid \in BOOLEAN

ExportInit ==
  /\ table \in Tables
  /\ export = Idle /\ answer = Unread
  /\ rows = <<>> /\ expected = {} /\ slid = FALSE

-----------------------------------------------------------------------------
\* toSkipTake: the rows of one page.
Slice(page) ==
  SubSeq(table, (page - 1) * CHUNK_SIZE + 1,
         IF page * CHUNK_SIZE < Len(table) THEN page * CHUNK_SIZE ELSE Len(table))

TotalPages(total) == IF total = 0 THEN 1 ELSE (total + CHUNK_SIZE - 1) \div CHUNK_SIZE

Click ==
  /\ export.at # "asking"
  /\ export' = [Idle EXCEPT !.at = "asking"]
  /\ rows' = <<>> /\ answer' = Unread
  /\ expected' = ToSet(table) /\ slid' = FALSE
  /\ UNCHANGED table

ReadRows ==
  /\ export.at = "asking" /\ answer.rows = {}
  /\ answer' = [answer EXCEPT !.rows = {Slice(export.page)}]
  /\ UNCHANGED <<table, export, rows, expected, slid>>

ReadTotal ==
  /\ export.at = "asking" /\ answer.total = {}
  /\ answer' = [answer EXCEPT !.total = {Len(table)}]
  /\ UNCHANGED <<table, export, rows, expected, slid>>

\* "Asking for page 99 of a 3-page result returns the last page".
Corrected(page, got, total) ==
  IF got = <<>> /\ total > 0 /\ (page - 1) * CHUNK_SIZE >= total
  THEN Slice(TotalPages(total)) ELSE got

PagesForgotten(total) == IF export.page = 1 THEN TotalPages(total) ELSE export.pages

\* The number of pages is the newest answer's.
Pages(total) == TotalPages(total)

\* A whole answer is added to the file; the loop goes on while there are pages.
AddToFile ==
  \E got \in answer.rows, total \in answer.total :
    /\ rows' = rows \o Corrected(export.page, got, total)
    /\ export' = [at |-> IF export.page < Pages(total) /\ export.page < MAX_CHUNKS
                         THEN "asking" ELSE "done",
                  page |-> export.page + 1, pages |-> Pages(total)]
    /\ answer' = Unread
    /\ UNCHANGED <<table, expected, slid>>

\* A chunk that cannot be fetched ends the export without a file.
ExportFails ==
  /\ export.at = "asking"
  /\ export' = Idle /\ answer' = Unread /\ rows' = <<>>
  /\ UNCHANGED <<table, expected, slid>>

-----------------------------------------------------------------------------
\* Where a row is added follows from the list's order; the models takes any.
RowAdded(r, i) ==
  /\ r \notin ToSet(table) /\ i \in 1..(Len(table) + 1)
  /\ table' = InsertAt(table, i, r)
  /\ slid' = (slid \/ (answer.total # {} /\ answer.rows = {}))
  /\ UNCHANGED <<export, answer, rows, expected>>

\* handleRemoteStateUpdate, a check-in, a location report: updatedAt is now.
RowChanged(i) ==
  /\ i \in 1..Len(table)
  /\ table' = <<table[i]>> \o RemoveAt(table, i)
  /\ expected' = expected \ {table[i]}
  /\ slid' = (slid \/ (answer.total # {} /\ answer.rows = {}))
  /\ UNCHANGED <<export, answer, rows>>

RowLeaves(i) ==
  /\ i \in 1..Len(table)
  /\ table' = RemoveAt(table, i)
  /\ slid' = TRUE
  /\ expected' = expected \ {table[i]}
  /\ UNCHANGED <<export, answer, rows>>

ExportNext ==
  \/ Click \/ ReadRows \/ ReadTotal \/ AddToFile \/ ExportFails
  \/ \E i \in 1..(Len(table) + 1) :
       RowChanged(i) \/ RowLeaves(i) \/ \E r \in Rows : RowAdded(r, i)

ExportSpec == ExportInit /\ [][ExportNext]_exportVars

-----------------------------------------------------------------------------
\* "Exports the whole filtered result set, not just the page on screen": rows
\* added or moved while the export runs push others into a later chunk, never
\* out of the file.  The exceptions are the rows that themselves jump to the
\* top, every row once one has left or slid between the two statements of an
\* answer, and whatever lies beyond MAX_CHUNKS chunks.
ExportLosesNothing ==
  export.at = "done" /\ ~slid /\ export.pages < export.page =>
    expected \subseteq ToSet(rows)

=============================================================================
