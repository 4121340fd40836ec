------------------------------ MODULE GridControl ------------------------------
(***************************************************************************)
(* components/GridControl.tsx: a table over the rows its screen passes it, *)
(* with client-side paging and inline editing of one row.  The screen that *)
(* uses the grid EXTENDS this module and supplies rows, page size and      *)
(* validation.  Cell templates, alignment and the server-side pager, which *)
(* no screen uses, are left out.                                           *)
(***************************************************************************)
EXTENDS Integers, Sequences, FiniteSetsExt

CONSTANTS
  NoKey,     \* no row is being edited
  NewKey,    \* the sentinel id '__new__' of the row that is not saved yet
  NoRow      \* null, and the empty draft

ASSUME GridAssumption == NoKey # NewKey

VARIABLES
  clientPage,   \* the page last asked for, from 1
  editingKey,   \* the key of the row being edited, or NoKey
  draft,        \* the values typed so far
  problems,     \* the columns with a message ("errors")
  addedRow      \* the blank row opened by the add button, or NoRow

grid == <<clientPage, editingKey, draft, problems, addedRow>>

InitGrid ==
  /\ clientPage = 1
  /\ editingKey = NoKey
  /\ draft = NoRow
  /\ problems = {}
  /\ addedRow = NoRow

\* A grid that is unmounted and mounted again starts over.
RemountGrid ==
  /\ clientPage' = 1
  /\ editingKey' = NoKey
  /\ draft' = NoRow
  /\ problems' = {}
  /\ addedRow' = NoRow

(***************************************************************************)
(* What is on the screen.  pageSize 0 stands for a grid without paging.    *)
(***************************************************************************)
AllRows(rows) == IF addedRow = NoRow THEN rows ELSE <<addedRow>> \o rows

TotalPages(count, pageSize) == Max({1, (count + pageSize - 1) \div pageSize})

CurrentPage(count, pageSize) == Min({clientPage, TotalPages(count, pageSize)})

VisibleRows(rows, pageSize) ==
  LET all     == AllRows(rows)
      current == CurrentPage(Len(all), pageSize)
  IN  IF pageSize = 0 THEN all
      ELSE SubSeq(all, (current - 1) * pageSize + 1, Min({current * pageSize, Len(all)}))

(***************************************************************************)
(* The pager and the inline editor.                                        *)
(***************************************************************************)
TurnPage(rows, pageSize, step) ==
  LET count   == Len(AllRows(rows))
      current == CurrentPage(count, pageSize)
  IN  /\ pageSize > 0
      /\ current + step \in 1 .. TotalPages(count, pageSize)
      /\ clientPage' = current + step
      /\ UNCHANGED <<editingKey, draft, problems, addedRow>>

BeginEdit(key, row) ==
  /\ editingKey' = key
  /\ draft' = row
  /\ problems' = {}
  /\ UNCHANGED <<clientPage, addedRow>>

BeginAdd(row) ==
  /\ editingKey = NoKey
  /\ addedRow' = row
  /\ editingKey' = NewKey
  /\ draft' = row
  /\ problems' = {}
  /\ UNCHANGED clientPage

ChangeDraft(column, value) ==
  /\ draft' = [draft EXCEPT ![column] = value]
  /\ UNCHANGED <<clientPage, editingKey, problems, addedRow>>

\* saveEdit finds columns with a message and keeps the editor open.
RefuseSave(found) ==
  /\ found # {}
  /\ problems' = found
  /\ UNCHANGED <<clientPage, editingKey, draft, addedRow>>

\* The end of saveEdit, which does not wait for onRowSave, and cancelEdit.  The
\* code leaves the draft, which nothing reads before beginEdit replaces it.
CloseEditor ==
  /\ editingKey' = NoKey
  /\ draft' = NoRow
  /\ problems' = {}
  /\ addedRow' = NoRow
  /\ UNCHANGED clientPage

(***************************************************************************)
(* What the grid promises its screen.                                      *)
(***************************************************************************)

\* A blank row is shown exactly as long as some editor is open, and the new
\* row is never edited without being shown (GridControl.tsx:237-272): no
\* sequence of adding, editing another row, saving and cancelling leaves a
\* blank row behind that nothing can close.
OneOpenEditor ==
  /\ addedRow # NoRow => editingKey # NoKey
  /\ editingKey = NewKey => addedRow # NoRow

\* Whatever page was asked for and however many rows have gone since, a grid
\* with rows shows some of them (the clamping of GridControl.tsx:212-214).
PageIsNeverEmpty(rows, pageSize) ==
  AllRows(rows) # <<>> => VisibleRows(rows, pageSize) # <<>>
=============================================================================
