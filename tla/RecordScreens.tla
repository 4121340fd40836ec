----------------------------- MODULE RecordScreens -----------------------------
(***************************************************************************)
(* The Records and Log a Record screens inside the shell, and the server   *)
(* they ask.  A screen is mounted when the shell shows it and loses its    *)
(* state when it does not any more; a new token makes its effects run      *)
(* again.  Requests are answered in any order, late, or not at all, and    *)
(* the answer to one that was served may be lost.  The lists of facilities *)
(* and fields are read when their answer arrives, records when served.     *)
(* A date is a number, 0 stands for none; what is typed is one of a few    *)
(* texts.  Names, units and the marking of exceedances are left out.       *)
(***************************************************************************)
EXTENDS GridControl, AppShell, SequencesExt

CONSTANTS
  Dates,          \* the dates a user picks
  Today,          \* the date the form starts with
  FirstStore,     \* what the server has at first: [facilities, catalog, records]
  PageSize,       \* rows of a page of records: 10 in the code
  MaxEntries      \* bound: entries of the form

\* The names of fields; the ids of the records there are at first are no numbers of saves.
Names == {f.name : f \in ToSet(FirstStore.catalog)}
Kinds == {"number", "yesno", "date"}
Fields == [name : Names, kind : Kinds, summary : BOOLEAN]

ASSUME RecordScreensAssumption ==
  /\ Dates \subseteq Nat \ {0} /\ Today \in Dates /\ PageSize \in Nat \ {0}
  /\ FirstStore = [facilities |-> FirstStore.facilities, catalog |-> FirstStore.catalog, records |-> FirstStore.records]
  /\ FirstStore.facilities \in Seq(ToSet(FirstStore.facilities))
  /\ FirstStore.catalog \in Seq(Fields)
  /\ IsFiniteSet(FirstStore.records)
  /\ \A r \in FirstStore.records : r.id \notin Nat \ {0}

VARIABLES
  facilities, catalog,                  \* of either screen: lists, NoRow while loading
  selected, records, from, to, error,   \* RecordsScreen
  chosen, date, entries, saveState,     \* LogRecordScreen; chosen is selectedFacilityId
  requests,                             \* the requests whose answer somebody waits for
  store,                                \* the server's tables
  saves, confirmed                      \* history: records sent, and those reported as saved

lists == <<facilities, catalog>>
drillDown == <<selected, records, from, to, error, grid>>
form == <<chosen, date, entries, saveState>>
told == <<saves, confirmed>>
vars == <<shell, lists, drillDown, form, requests, store, told>>

(***************************************************************************)
(* Requests.  of is the query, or the record to create; answer is NoRow    *)
(* until the server has answered.  An effect that runs again cancels what  *)
(* it still waits for; nobody reads that answer, so it is dropped at once. *)
(***************************************************************************)
Get(kind, of) == [kind |-> kind, of |-> of, answer |-> NoRow, mine |-> TRUE]
CancelNothing(kinds) == requests
Cancel(kinds) == {r \in requests : r.kind \notin kinds}

Loads == {Get("facilities", NoRow), Get("catalog", NoRow)}
Query(s, f, t) == IF s = NoRow THEN {} ELSE {Get("records", [facility |-> s, from |-> f, to |-> t])}

InRange(d, f, t) == (f = 0 \/ d >= f) /\ (t = 0 \/ d <= t)
Matches(r, q) == r.facility = q.facility /\ InRange(r.date, q.from, q.to)

\* The newest records first.
Found(q) ==
  {list \in SetToSeqs({r \in store.records : Matches(r, q)}) :
     \A i, j \in DOMAIN list : i < j => list[i].date >= list[j].date}

\* POST /me/org/records: LogRecordHandler and the binding of a date.
Accepts(r) ==
  /\ r.facility \in ToSet(store.facilities)
  /\ ~\E s \in store.records : s.facility = r.facility /\ s.date = r.date
  /\ \A v \in ToSet(r.values) : v.kind = "date" => v.value = "day"
  /\ \A i, j \in DOMAIN r.values : r.values[i].field = r.values[j].field => i = j
  /\ \A v \in ToSet(r.values) : \E f \in ToSet(store.catalog) : f.name = v.field /\ f.kind = v.kind

(***************************************************************************)
(* Mounting, and running the effects again.                                *)
(***************************************************************************)

Mount ==
  /\ facilities' = NoRow /\ catalog' = <<>>
  /\ selected' = NoRow /\ records' = NoRow /\ from' = 0 /\ to' = 0 /\ error' = FALSE
  /\ chosen' = NoRow /\ date' = Today /\ saveState' = "idle" /\ entries' = <<>>
  /\ RemountGrid
  /\ requests' = {[r EXCEPT !.mine = FALSE] : r \in Cancel({"facilities", "catalog", "records"})}
       \cup (IF Shown' \in {"records", "log"} THEN Loads ELSE {})

RunEffects ==
  /\ requests' = Cancel({"facilities", "catalog", "records"}) \cup Loads \cup Query(selected, from, to)
  /\ records' = IF selected = NoRow THEN records ELSE NoRow
  /\ UNCHANGED <<lists, selected, from, to, error, grid, form>>

\* What a step of the shell does to the screen it shows.
Follow ==
  \/ Shown' # Shown /\ Mount
  \/ Shown' = Shown /\ token' # token /\ Shown \in {"records", "log"} /\ RunEffects
  \/ /\ Shown' = Shown /\ (token' = token \/ Shown \notin {"records", "log"})
     /\ UNCHANGED <<lists, drillDown, form, requests>>

ShellStep == NextShell /\ Follow /\ UNCHANGED <<store, told>>

(***************************************************************************)
(* Records.                                                                *)
(***************************************************************************)
Input == Spend("inputs")
OnRecords == Shown = "records" /\ Input
Listed == IF facilities = NoRow THEN <<>> ELSE facilities
Rows == IF records = NoRow THEN <<>> ELSE records
ByRecords == UNCHANGED <<session, browser, route, lists, form, store, told>>

\* The records effect, whenever what it asks for changes.
Ask(s, f, t) ==
  /\ selected' = s /\ from' = f /\ to' = t
  /\ records' = IF s = NoRow THEN records ELSE NoRow
  /\ requests' = Cancel({"records"}) \cup Query(s, f, t)
  /\ UNCHANGED error

SelectFacility ==
  /\ OnRecords /\ selected = NoRow
  /\ \E f \in ToSet(Listed) : Ask(f, from, to)
  /\ RemountGrid
  /\ ByRecords

BackToFacilities ==
  /\ OnRecords /\ selected # NoRow
  /\ Ask(NoRow, from, to)
  /\ UNCHANGED grid /\ ByRecords

SetRange ==
  /\ OnRecords /\ selected # NoRow
  /\ \E d \in Dates : \/ d # from /\ Ask(selected, d, to)
                      \/ d # to /\ Ask(selected, from, d)
  /\ UNCHANGED grid /\ ByRecords

TurnThePage ==
  /\ OnRecords /\ selected # NoRow
  /\ \E step \in {1, -1} : TurnPage(Rows, PageSize, step)
  /\ UNCHANGED <<selected, records, from, to, error, requests>> /\ ByRecords

\* A column for each summary field.
SummaryFields == {f \in ToSet(catalog) : f.summary}

\* A record has one value of a field, and shows it while it is of the field's type.
ValueOf(f, r) == CHOOSE v \in ToSet(r.values) : v.field = f.name /\ v.kind = f.kind
HasValue(f, r) == \E v \in ToSet(r.values) : v.field = f.name /\ v.kind = f.kind

CellAsRecorded(f, r) == IF HasValue(f, r) THEN ValueOf(f, r).value ELSE "dash"

Cell(f, r) ==
  IF ~HasValue(f, r) THEN "dash"
  ELSE IF f.kind = "yesno" THEN IF ValueOf(f, r).value = "true" THEN "Yes" ELSE "No"
  ELSE ValueOf(f, r).value

(***************************************************************************)
(* Log a Record.                                                           *)
(***************************************************************************)
FormShown == Shown = "log" /\ Listed # <<>>
ByForm == UNCHANGED <<session, browser, route, lists, drillDown, store>>

SelectedFacility == IF chosen # NoRow THEN chosen ELSE Listed[1]
Used == {entries[i].field : i \in DOMAIN entries}
FirstUnusedField ==
  {catalog[i] : i \in {j \in DOMAIN catalog : /\ catalog[j].name \notin Used
                                              /\ \A k \in 1 .. j - 1 : catalog[k].name \in Used}}
EmptyValueFor(kind) == IF kind = "yesno" THEN "false" ELSE ""
EntryOf(f) == [field |-> f.name, value |-> EmptyValueFor(f.kind)]

AddField ==
  /\ FormShown /\ Len(entries) < MaxEntries /\ Input
  /\ \E f \in FirstUnusedField : entries' = Append(entries, EntryOf(f))
  /\ UNCHANGED <<chosen, date, saveState, requests, told>> /\ ByForm

FieldOptions(entry) ==
  {f \in ToSet(catalog) : f.name = entry.field \/ f.name \notin Used}

ChooseField ==
  /\ FormShown /\ Input
  /\ \E i \in DOMAIN entries : \E f \in FieldOptions(entries[i]) :
       entries' = [entries EXCEPT ![i] = EntryOf(f)]
  /\ UNCHANGED <<chosen, date, saveState, requests, told>> /\ ByForm

\* The editor of an entry follows the type of its field; without one it takes a number.
FieldOf(entry) == {f \in ToSet(catalog) : f.name = entry.field}
KindOf(entry) == IF FieldOf(entry) = {} THEN "number" ELSE (CHOOSE f \in FieldOf(entry) : TRUE).kind
Typed(kind) ==
  CASE kind = "number" -> {"", "7"} [] kind = "yesno" -> {"true", "false"} [] kind = "date" -> {"day"}

SetValue ==
  /\ FormShown /\ Input
  /\ \E i \in DOMAIN entries : \E v \in Typed(KindOf(entries[i])) \ {entries[i].value} :
       entries' = [entries EXCEPT ![i].value = v]
  /\ UNCHANGED <<chosen, date, saveState, requests, told>> /\ ByForm

RemoveEntry ==
  /\ FormShown /\ Input
  /\ \E i \in DOMAIN entries : entries' = RemoveAt(entries, i)
  /\ UNCHANGED <<chosen, date, saveState, requests, told>> /\ ByForm

ChooseFacilityOrDate ==
  /\ FormShown /\ Input
  /\ \/ chosen' \in ToSet(Listed) \ {SelectedFacility} /\ UNCHANGED date
     \/ date' \in Dates \ {date} /\ UNCHANGED chosen
  /\ UNCHANGED <<entries, saveState, requests, told>> /\ ByForm

\* buildValues: a field that is gone and an empty date are skipped; what is no
\* number counts as 0.  The values keep the places of their entries.
Skipped(entry) == FieldOf(entry) = {} \/ (KindOf(entry) = "date" /\ entry.value = "")
Sent(entry) ==
  [field |-> entry.field, kind |-> KindOf(entry),
   value |-> CASE KindOf(entry) = "number" -> IF entry.value = "7" THEN "7" ELSE "0"
               [] KindOf(entry) = "yesno" -> IF entry.value = "true" THEN "true" ELSE "false"
               [] KindOf(entry) = "date" -> entry.value]
BuildValues == [i \in {j \in DOMAIN entries : ~Skipped(entries[j])} |-> Sent(entries[i])]

\* What the editors show: "" for an empty one.
EditorText(entry) ==
  CASE KindOf(entry) = "number" -> IF entry.value = "7" THEN "7" ELSE ""
    [] KindOf(entry) = "yesno" -> IF entry.value = "true" THEN "Yes" ELSE "No"
    [] KindOf(entry) = "date" -> IF entry.value = "day" THEN "day" ELSE ""
Form == {[field |-> entries[i].field, kind |-> KindOf(entries[i]), text |-> EditorText(entries[i])] :
           i \in {j \in DOMAIN entries : FieldOf(entries[j]) # {}}}

Save ==
  /\ FormShown /\ saveState # "saving" /\ Input
  /\ saveState' = "saving"
  /\ saves' = Append(saves, [facility |-> SelectedFacility, date |-> date, shown |-> Form])
  /\ requests' = requests \cup
       {Get("create", [id |-> Len(saves'), facility |-> SelectedFacility, date |-> date, values |-> BuildValues])}
  /\ UNCHANGED <<chosen, date, entries, confirmed>> /\ ByForm

(***************************************************************************)
(* The server, and other users: a field changes its type or is retired, a  *)
(* facility is removed with its records.                                   *)
(***************************************************************************)
Answered(r, answer) == requests' = (requests \ {r}) \cup {[r EXCEPT !.answer = answer]}

Serve(r) ==
  /\ r \in requests /\ r.answer = NoRow
  /\ \/ /\ r.kind = "create"
        /\ IF Accepts(r.of) THEN store' = [store EXCEPT !.records = @ \cup {r.of}] ELSE UNCHANGED store
        /\ Answered(r, [ok |-> Accepts(r.of), list |-> <<>>])
     \/ /\ r.kind = "records"
        /\ \E list \in Found(r.of) : Answered(r, [ok |-> TRUE, list |-> list])
        /\ UNCHANGED store
  /\ UNCHANGED <<shell, lists, drillDown, form, told>>

OtherUser ==
  /\ Spend("changes")
  /\ \/ \E i \in DOMAIN store.catalog, k \in Kinds :
          store.catalog[i].kind # k /\ store' = [store EXCEPT !.catalog[i].kind = k]
     \/ \E i \in DOMAIN store.catalog : store' = [store EXCEPT !.catalog = RemoveAt(@, i)]
     \/ \E i \in DOMAIN store.facilities :
          store' = [store EXCEPT !.facilities = RemoveAt(@, i),
                                 !.records = {r \in @ : r.facility # store.facilities[i]}]
  /\ UNCHANGED <<session, browser, route, lists, drillDown, form, requests, told>>

(***************************************************************************)
(* An answer reaches its screen; ok is FALSE for an error and for an       *)
(* answer that never comes.                                                *)
(***************************************************************************)
ChosenFromUnlessChosen(list) == IF list = <<>> \/ chosen # NoRow THEN chosen ELSE list[1]
ChosenFrom(list) == IF list = <<>> THEN chosen ELSE list[1]

TakeFacilities(ok, list) ==
  IF Shown = "log"
  THEN /\ facilities' = IF ok THEN list ELSE <<>>
       /\ chosen' = IF ok THEN ChosenFrom(list) ELSE chosen
       /\ UNCHANGED <<catalog, drillDown, date, entries, saveState, told>>
  ELSE /\ facilities' = IF ok THEN list ELSE facilities
       /\ error' = (error \/ ~ok)
       /\ UNCHANGED <<catalog, selected, records, from, to, grid, form, told>>

TakeCatalog(ok, list) ==
  /\ catalog' = IF ok THEN list ELSE catalog
  /\ UNCHANGED <<facilities, drillDown, form, told>>

TakeRecordsQuietly(ok, list) ==
  /\ records' = IF ok THEN list ELSE records
  /\ UNCHANGED <<lists, selected, from, to, error, grid, form, told>>

TakeRecords(ok, list) ==
  /\ records' = IF ok THEN list ELSE records
  /\ error' = (error \/ ~ok)
  /\ UNCHANGED <<lists, selected, from, to, grid, form, told>>

TakeSaved(r, ok) ==
  /\ saveState' = IF ~r.mine THEN saveState ELSE IF ok THEN "saved" ELSE "error"
  /\ confirmed' = IF r.mine /\ ok THEN confirmed \cup {r.of.id} ELSE confirmed
  /\ UNCHANGED <<lists, drillDown, chosen, date, entries, saves>>

Take(r, ok, list) ==
  CASE r.kind = "facilities" -> TakeFacilities(ok, list)
    [] r.kind = "catalog" -> TakeCatalog(ok, list)
    [] r.kind = "records" -> TakeRecords(ok, list)
    [] r.kind = "create" -> TakeSaved(r, ok)

Arrive(r) ==
  /\ r \in requests
  /\ \/ /\ r.kind \in {"facilities", "catalog"} /\ Take(r, TRUE, store[r.kind])
        /\ UNCHANGED left
     \/ r.answer # NoRow /\ Take(r, r.answer.ok, r.answer.list) /\ UNCHANGED left
     \/ Take(r, FALSE, <<>>) /\ Spend("failures")
  /\ requests' = requests \ {r}
  /\ UNCHANGED <<session, browser, route, store>>

Init ==
  /\ InitShell /\ InitGrid
  /\ facilities = NoRow /\ catalog = <<>>
  /\ selected = NoRow /\ records = NoRow /\ from = 0 /\ to = 0 /\ error = FALSE
  /\ chosen = NoRow /\ date = Today /\ entries = <<>> /\ saveState = "idle"
  /\ requests = {}
  /\ store = FirstStore
  /\ saves = <<>> /\ confirmed = {}

Next ==
  \/ ShellStep
  \/ SelectFacility \/ BackToFacilities \/ SetRange \/ TurnThePage
  \/ AddField \/ ChooseField \/ SetValue \/ RemoveEntry \/ ChooseFacilityOrDate \/ Save
  \/ OtherUser
  \/ \E r \in requests : Serve(r) \/ Arrive(r)

\* The browser fires the events and runs the effects it has to, and every
\* request is answered or fails.
Fairness ==
  /\ WF_vars(Sync /\ Follow /\ UNCHANGED <<store, told>>)
  /\ WF_vars(Redirect /\ Follow /\ UNCHANGED <<store, told>>)
  /\ WF_vars(\E r \in requests : Serve(r))
  /\ WF_vars(\E r \in requests : Arrive(r))

Spec == Init /\ [][Next]_vars /\ Fairness

(***************************************************************************)
(* Properties.                                                             *)
(***************************************************************************)

\* The state of a screen lives while the shell shows it, and no longer; saves
\* under way belong to the form that sent them.
TypeOK ==
  /\ auth \in {"loading", "out", "in", "error"} /\ token \in Nat
  /\ at \in DOMAIN history /\ changes \in Nat
  /\ screen \in Screens
  /\ Shown \in Screens \cup {"none"}
  /\ selected # NoRow => Shown = "records"
  /\ entries # <<>> \/ saveState # "idle" => Shown = "log"
  /\ {from, to} \subseteq Dates \cup {0} /\ date \in Dates
  /\ confirmed \subseteq DOMAIN saves

\* The records listed are those of the facility and the range in the pickers,
\* however fast they are changed and in whatever order the answers come
\* (RecordsScreen.tsx:133-149).
ShownRecordsMatchTheFilter ==
  selected # NoRow => \A r \in ToSet(Rows) : r.facility = selected /\ InRange(r.date, from, to)

\* A page number that outlives the range it was turned in shows rows all the
\* same (RecordsScreen.tsx:194-202 keeps one grid for all ranges).
RecordsPageIsNeverEmpty == selected # NoRow => PageIsNeverEmpty(Rows, PageSize)

\* No field is entered twice, which the server would refuse for the whole
\* record: fields are added, changed and removed while catalogs come in
\* (LogRecordScreen.tsx:86-87, 242-248).
NoFieldTwice == \A i, j \in DOMAIN entries : entries[i].field = entries[j].field => i = j

\* The facility that Save sends is one the form offers, also after a new list
\* has come without the one chosen before (LogRecordScreen.tsx:107-123).
ChosenFacilityIsOffered == FormShown => SelectedFacility \in ToSet(Listed)

\* What the screens hold is of the screen shown, pages and pickers included.
ScreensAreConsistent == TypeOK /\ RecordsPageIsNeverEmpty /\ NoFieldTwice /\ ChosenFacilityIsOffered

\* A record reported as saved is listed under its facility and date, with what
\* its editors showed in the columns, as long as its facility is there and the
\* field has the type it then had.  An empty editor may be recorded as 0.
ConfirmedRecordsAreShown ==
  selected # NoRow /\ records # NoRow =>
    \A id \in {c \in confirmed : saves[c].facility = selected /\ InRange(saves[c].date, from, to)
                                  /\ \E r \in store.records : r.id = c} :
      \E r \in ToSet(Rows) :
        /\ r.id = id
        /\ \A s \in saves[id].shown : s.text # "" =>
             \A f \in SummaryFields : f.name = s.field /\ f.kind = s.kind => Cell(f, r) = s.text

\* A save ends, so that its button does not stay disabled, and records that are
\* loading come: each with its answer or with an error (LogRecordScreen.tsx:175-188,
\* RecordsScreen.tsx:133-149).
RequestsSettle ==
  /\ saveState = "saving" ~> saveState # "saving"
  /\ (selected # NoRow /\ records = NoRow) ~> (selected = NoRow \/ records # NoRow \/ error)
=================================================================================
