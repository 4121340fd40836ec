------------------------------ MODULE ListScreens ------------------------------
(***************************************************************************)
(* The screens that keep a list of the server's: Facilities, Organizations,*)
(* Production Fields and Report templates, a Facility's details with two   *)
(* lists on two tabs, and Field Limits.  They share one shape (reload, run,*)
(* handleRowSave, a GridControl on a desktop and cards on a phone), so one *)
(* behaviour shows one of them, chosen at the start; ListResources says    *)
(* where their lists differ.  Requests are answered in any order, may be   *)
(* refused, and an answer may be lost after the server has done the work.  *)
(***************************************************************************)
EXTENDS ListResources

CONSTANTS
  Screens,          \* the screens to explore
  Routes,           \* the Facilities whose details can be opened
  FirstRoute,       \* the one opened first
  Org,              \* the one list of a screen that is not about a Facility
  Stored(_, _),     \* what the server has at first, per list and route
  Ids,              \* the ids the server has given before
  MaxEvents,        \* bound: changes sent, token renewals, openings and resizes
  MaxInputs,        \* bound: these and the entries typed
  MaxTogether(_)    \* bound of each screen: events and inputs together

VARIABLES
  screen, layout,   \* which screen, and "grid" or "cards"
  tab,              \* the list that is on show, of those of the screen
  route,            \* the Facility in the address, or Org
  head,             \* the second load: the Facility found, or the catalog
  lists,            \* what the screen has of each of its lists, or None
  error,            \* whether an error is shown
  asked,            \* pendingDelete and confirmingId: a row's key, or None
  cards,            \* the cards mounted, by key
  form,             \* the add form above the cards
  store,            \* the server's rows by list and route
  requests,         \* the requests not answered yet
  sends,            \* how many were sent, loads included
  events, inputs,   \* how many there were
  served,           \* history: the work done for each list since all was answered
  mixed, missed     \* history: lists shown out of order, and not read when they should be

page == <<layout, tab, route, head, lists, error, asked, cards, form>>
history == <<mixed, missed>>
vars == <<grid, screen, page, store, requests, sends, events, inputs, served, history>>

rows == lists[tab]

(***************************************************************************)
(* Requests: each operation of the API clients is one fetch.  effect marks *)
(* a load that the next run of its effect cancels; reload() called after a *)
(* change is not one of them.  A cancelled load is dropped at once: its    *)
(* answer would change nothing.  History: at numbers the work the server   *)
(* does for a list, 0 is none; late tells that later work was heard of.    *)
(***************************************************************************)
Request(n, op, t, of, row, effect) ==
  [n |-> n, op |-> op, tab |-> t, of |-> of, row |-> row, effect |-> effect,
   back |-> "sent", list |-> <<>>, at |-> 0, late |-> FALSE]

HasGrid == {"facilities", "orgs", "fields", "details", "ranges"}
HasCards == {"facilities", "orgs", "fields", "reports"}
PageSize == IF screen = "ranges" THEN 1 ELSE 0    \* 15 in the code

\* The lists of a screen, the routes they are for, and the rows they can hold.
TabsOf(s) == IF s = "details" THEN {"permits", "limits"} ELSE {s}
FirstTab(s) == IF s = "details" THEN "permits" ELSE s
RoutesOf(s) == IF s = "details" THEN Routes ELSE {Org}
StoredRows(s) == UNION {Range(Stored(t, f)) : t \in TabsOf(s), f \in RoutesOf(s)}

Keys   == {NewKey} \cup Ids \cup Nat \cup ToSet(EmissionTypes)
Texts  == {Blank, Spaces, Padded, Plain}
Cells  == Texts \cup Nat \cup ToSet(EmissionTypes)
            \cup UNION {UNION {{row.name, row.value} : row \in StoredRows(s)} : s \in Screens}
AnyRow == [id : Keys, name : Cells, value : Cells, active : BOOLEAN]

Filled(t) == t \notin {Blank, Spaces, Padded}

\* What a row of each list is like: the names of Orgs and fields are given, a limit is
\* of its emission type and above nothing, and a range has both bounds or neither.
Listable(t, row) ==
  CASE t \in {"orgs", "fields"} -> Filled(row.name)
    [] t = "limits" -> row.name \in ToSet(EmissionTypes) /\ row.value \in Nat \ {0} /\ row.id = row.name
    [] t = "ranges" -> row.name \in Nat \cup {Blank} /\ row.value \in Nat \cup {Blank}
    [] OTHER -> TRUE

\* The screens and the lists there are at first; a row's key is its own.
ASSUME ListsAssumption ==
  /\ Screens \subseteq HasGrid \cup HasCards /\ FirstRoute \in Routes
  /\ EmissionTypes \in Seq(ToSet(EmissionTypes))
  /\ \A s \in Screens : \A t \in TabsOf(s) : \A f \in RoutesOf(s) :
       /\ Stored(t, f) \in Seq(AnyRow)
       /\ \A row \in Range(Stored(t, f)) :
            row.id \in Ids \cup ToSet(EmissionTypes) /\ Listable(t, row)
  /\ \A s \in Screens \cap {"orgs", "fields"} :
       \A x, y \in StoredRows(s) : x.id = y.id => x.name = y.name

\* What is distinct: keys from one another and from none, texts from numbers, null from rows.
ASSUME ValuesAssumption ==
  /\ NoKey \notin Keys /\ NewKey \notin Ids \cup Nat \cup ToSet(EmissionTypes)
  /\ \A id \in Ids : id \notin Nat \cup ToSet(EmissionTypes)
  /\ \A type \in ToSet(EmissionTypes) : type \notin Nat \cup Texts
  /\ Cardinality(Texts) = 4 /\ \A t \in Texts : t \notin Nat
  /\ NoRow \notin AnyRow /\ None \notin AnyRow \cup Seq(AnyRow)

HasHead == screen \in {"details", "ranges"}

LoadsUnlessPending(of) ==
  IF requests # {} THEN {} ELSE {Request(sends', "list", t, of, NoRow, TRUE) : t \in TabsOf(screen)}

\* The load effects of a screen run together, each on its own.
Loads(of) ==
  {Request(sends', "list", t, of, NoRow, TRUE) : t \in TabsOf(screen)}
    \cup {Request(sends', "head", "head", of, NoRow, TRUE) : x \in IF HasHead THEN {of} ELSE {}}

NoSend == UNCHANGED <<requests, sends, events, inputs, served, history>>

Input ==
  /\ inputs < MaxInputs /\ events' + inputs < MaxTogether(screen)
  /\ inputs' = inputs + 1
Event == events < MaxEvents /\ events' = events + 1 /\ Input
Type == UNCHANGED <<requests, sends, events, served, history>> /\ Input

\* run(op) and the save of Field Limits: the error goes, whichever list of the
\* screen it was about, and the request leaves.
Run(op, row) ==
  /\ Event
  /\ sends' = sends + 1
  /\ requests' = requests \cup {Request(sends', op, tab, route, row, FALSE)}
  /\ error' = FALSE
  /\ UNCHANGED <<served, history>>

\* The load effects run again: what the previous run still waits for is
\* cancelled first.
LoadAgain(of) ==
  /\ Event
  /\ sends' = sends + 1
  /\ requests' = {r \in requests : ~r.effect} \cup Loads(of)
  /\ UNCHANGED <<served, history>>

NoCards == [k \in {} |-> None]
EmptyForm == [name |-> Blank, value |-> Blank]

\* A card starts from its row when it is mounted, and never again.
CardsOf(list, mounted) ==
  [k \in KeysOf(list) |->
     IF k \in DOMAIN mounted THEN mounted[k]
     ELSE [editing |-> FALSE,
           text |-> CardText(screen, CHOOSE x \in Range(list) : KeyOf(x) = k)]]

Init ==
  /\ InitGrid
  /\ screen \in Screens
  /\ layout \in {l \in {"grid", "cards"} : screen \in IF l = "grid" THEN HasGrid ELSE HasCards}
  /\ tab = FirstTab(screen)
  /\ route = IF screen = "details" THEN FirstRoute ELSE Org
  /\ head = None
  /\ lists = [t \in TabsOf(screen) |-> None]
  /\ error = FALSE
  /\ asked = None
  /\ cards = NoCards
  /\ form = EmptyForm
  /\ store = [t \in TabsOf(screen) |-> [f \in RoutesOf(screen) |-> Stored(t, f)]]
  /\ sends = 0
  /\ requests = {Request(0, "list", t, route, NoRow, TRUE) : t \in TabsOf(screen)}
       \cup {Request(0, "head", "head", route, NoRow, TRUE) : x \in IF HasHead THEN {route} ELSE {}}
  /\ events = 0
  /\ inputs = 0
  /\ served = [t \in TabsOf(screen) |-> [f \in RoutesOf(screen) |-> 0]]
  /\ mixed = {}
  /\ missed = {}

(***************************************************************************)
(* The grid.  The tabs of a Facility show it while their list loads, and   *)
(* only one of them at a time.                                             *)
(***************************************************************************)
GridShown ==
  /\ layout = "grid"
  /\ IF screen = "details" THEN head # None ELSE rows # None /\ (HasHead => head # None)

Visible == IF rows = None THEN <<>> ELSE VisibleRows(rows, PageSize)
EditorShown == GridShown /\ \E row \in Range(Visible) : KeyOf(row) = editingKey

ByGrid == UNCHANGED <<screen, page, store>> /\ NoSend

\* What the user may enter: the options of a select, numbers, a date, texts.
Typed(column) ==
  CASE tab = "limits" /\ column = "name" -> Available(rows)
    [] tab = "limits" /\ column = "value" -> {0, 2}
    [] tab = "ranges" -> {1, 2}
    [] tab = "permits" /\ column = "value" -> {Plain}
    [] OTHER -> {Spaces, Padded}

Columns(d) ==
  CASE tab = "facilities" -> FacilityColumns(d)
    [] tab = "orgs" -> OrgColumns(d)
    [] tab = "fields" -> FieldColumns(d)
    [] tab = "permits" -> PermitColumns(d)
    [] tab = "limits" -> LimitColumns(d)
    [] tab = "ranges" -> RangeColumns(d)

Save(d) ==
  CASE tab = "facilities" -> FacilitySave(d)
    [] tab = "orgs" -> OrgSave(d)
    [] tab = "fields" -> FieldSave(d)
    [] tab = "permits" -> PermitSave(d)
    [] tab = "limits" -> LimitSave(d)
    [] tab = "ranges" -> RangeSave(d)

AddRow ==
  /\ GridShown
  /\ \E row \in NewRows(tab, rows) : BeginAdd(row)
  /\ ByGrid

\* Permits are added and deleted, never edited (rowEditable).
EditRow ==
  /\ GridShown
  /\ tab # "permits"
  /\ \E row \in Range(Visible) : KeyOf(row) # editingKey /\ BeginEdit(KeyOf(row), row)
  /\ ByGrid

TypeInRow ==
  /\ EditorShown
  /\ \E c \in Columns(draft).editable : \E v \in Typed(c) : ChangeDraft(c, v)
  /\ UNCHANGED <<screen, page, store>> /\ Type

TurnThePage ==
  /\ GridShown
  /\ rows # None
  /\ \E step \in {-1, 1} : TurnPage(rows, PageSize, step)
  /\ ByGrid

SwitchTab ==
  /\ GridShown
  /\ \E t \in TabsOf(screen) \ {tab} : tab' = t
  /\ RemountGrid
  /\ UNCHANGED <<screen, layout, route, head, lists, error, asked, cards, form, store>> /\ NoSend

CancelRow == EditorShown /\ CloseEditor /\ ByGrid

SaveRow ==
  /\ EditorShown
  /\ \/ RefuseSave(Columns(draft).invalid) /\ ByGrid
     \/ /\ Columns(draft).invalid = {}
        /\ CloseEditor
        /\ Run(Save(draft).op, Save(draft).row)
        /\ UNCHANGED <<screen, layout, tab, route, head, lists, asked, cards, form, store>>

(***************************************************************************)
(* The buttons of a row or a card: delete, at once or after a question, or *)
(* retire and reactivate by what the row shows.                            *)
(***************************************************************************)
Ask(row) == asked' = row /\ UNCHANGED error /\ NoSend
FacilityButtons(row) == Ask(row)
ReportButtons(row) == row # asked /\ Ask(row)
OrgButtons(row) == Run("remove", row) /\ UNCHANGED asked
PermitButtons(row) == Run("remove", row) /\ UNCHANGED asked
LimitButtons(row) == Run("remove", row) /\ UNCHANGED asked
FieldButtons(row) == Run(IF row.active THEN "retire" ELSE "reactivate", row) /\ UNCHANGED asked

RowButton ==
  /\ GridShown
  /\ \E row \in Range(Visible) : KeyOf(row) # editingKey /\ ~IsNew(row) /\
       \/ screen = "facilities" /\ FacilityButtons(row)
       \/ screen = "orgs" /\ OrgButtons(row)
       \/ screen = "fields" /\ FieldButtons(row)
       \/ tab = "permits" /\ PermitButtons(row)
       \/ tab = "limits" /\ LimitButtons(row)
  /\ UNCHANGED <<grid, screen, layout, tab, route, head, lists, cards, form, store>>

CardButton ==
  /\ layout = "cards" /\ rows # None
  /\ \E row \in Range(rows) : ~cards[KeyOf(row)].editing /\
       \/ screen = "facilities" /\ FacilityButtons(row)
       \/ screen = "orgs" /\ OrgButtons(row)
       \/ screen = "fields" /\ FieldButtons(row)
       \/ screen = "reports" /\ ReportButtons(row)
  /\ UNCHANGED <<grid, screen, layout, tab, route, head, lists, cards, form, store>>

\* The dialog of Facilities closes at once.  The question of Reports stays on
\* the card of its template until some delete has succeeded.
ConfirmDialog ==
  /\ screen = "facilities" /\ asked # None
  /\ asked' = None
  /\ Run("remove", asked)
  /\ UNCHANGED <<grid, screen, layout, tab, route, head, lists, cards, form, store>>

ConfirmCard ==
  /\ screen = "reports" /\ asked # None /\ rows # None
  /\ \E row \in Range(rows) : KeyOf(row) = KeyOf(asked) /\ Run("remove", row)
  /\ UNCHANGED <<grid, screen, layout, tab, route, head, lists, asked, cards, form, store>>

DoNotConfirm ==
  /\ asked # None
  /\ asked' = None
  /\ UNCHANGED <<grid, screen, layout, tab, route, head, lists, error, cards, form, store>>
  /\ NoSend

(***************************************************************************)
(* The cards of a phone or a tablet.                                       *)
(***************************************************************************)
ByCards == UNCHANGED <<grid, screen, layout, tab, route, head, lists, asked, store>>

HasCardEditor == layout = "cards" /\ screen # "reports" /\ rows # None

RowOf(k) == CHOOSE row \in Range(rows) : KeyOf(row) = k

EditCard(k) ==
  /\ ~cards[k].editing
  /\ cards' = [cards EXCEPT ![k].editing = TRUE]
  /\ UNCHANGED <<error, form>> /\ NoSend

TypeInCard(k) ==
  /\ cards[k].editing
  /\ \E v \in Typed(IF screen = "facilities" THEN "name" ELSE "value") : cards' = [cards EXCEPT ![k].text = v]
  /\ UNCHANGED <<error, form>> /\ Type

CancelCard(k) ==
  /\ cards[k].editing
  /\ cards' = [cards EXCEPT ![k] = [editing |-> FALSE, text |-> CardText(screen, RowOf(k))]]
  /\ UNCHANGED <<error, form>> /\ NoSend

SaveCard(k) ==
  /\ cards[k].editing
  /\ CardMayBeSaved(screen, cards[k].text)
  /\ cards' = [cards EXCEPT ![k].editing = FALSE]
  /\ Run("save", CardRow(screen, RowOf(k), cards[k].text))
  /\ UNCHANGED form

OnCard == HasCardEditor /\ ByCards /\
  \E k \in DOMAIN cards : EditCard(k) \/ TypeInCard(k) \/ CancelCard(k) \/ SaveCard(k)

FormColumns == IF screen = "fields" THEN {"name", "value"} ELSE {"name"}

TypeInForm ==
  /\ HasCardEditor /\ ByCards
  /\ \E c \in FormColumns : \E v \in Typed(c) : form' = [form EXCEPT ![c] = v]
  /\ UNCHANGED <<error, cards>> /\ Type

AddByForm ==
  /\ HasCardEditor /\ ByCards
  /\ \A c \in FormColumns : ~IsBlank(form[c])
  /\ Run("add", TrimmedRow([BlankRow EXCEPT !.name = form.name, !.value = form.value]))
  /\ form' = EmptyForm
  /\ UNCHANGED cards

(***************************************************************************)
(* What happens around the screen: the access token is renewed, another    *)
(* Facility is opened by its address, the window crosses the breakpoint.   *)
(***************************************************************************)
Renew ==
  /\ LoadAgain(route)
  /\ UNCHANGED <<grid, screen, page, store>>

OpenFacility ==
  /\ screen = "details"
  /\ \E f \in Routes \ {route} : route' = f /\ LoadAgain(f)
  /\ UNCHANGED <<grid, screen, layout, tab, head, lists, error, asked, cards, form, store>>

Resize ==
  /\ screen \in HasGrid \cap HasCards
  /\ Event
  /\ layout' = IF layout = "grid" THEN "cards" ELSE "grid"
  /\ cards' = IF layout' = "cards" /\ rows # None THEN CardsOf(rows, NoCards) ELSE NoCards
  /\ form' = EmptyForm
  /\ RemountGrid
  /\ UNCHANGED <<screen, tab, route, head, lists, error, asked, store, requests, sends, served, history>>

(***************************************************************************)
(* The server works on a request, and the answer comes back later or, for  *)
(* a change, is lost.  Or the browser reports a failure and no work was    *)
(* done: the server refused, or the request or the answer to it was lost.  *)
(***************************************************************************)
Serve(r) ==
  /\ r.back = "sent" /\ r.op # "head"
  /\ served' = [served EXCEPT ![r.tab][r.of] = @ + 1]
  /\ \E list \in Outcomes(r.tab, store[r.tab][r.of], r) :
       /\ store' = [store EXCEPT ![r.tab][r.of] = list]
       /\ \E back \in {"done"} \cup {b \in {"lost"} : r.op # "list"} :
            requests' = (requests \ {r}) \cup
              {[r EXCEPT !.back = back, !.list = IF r.op = "list" THEN list ELSE @,
                         !.at = served'[r.tab][r.of]]}
  /\ UNCHANGED <<grid, screen, page, sends, events, inputs, history>>

(***************************************************************************)
(* What happened to the lists (history).  An answer comes out of order if  *)
(* one of later work came before it, or if its Facility is no longer the   *)
(* one in the address.  A list is missed if reading it failed, or if the   *)
(* answer of a change that worked was lost, until it is shown in order.    *)
(***************************************************************************)
Place(r) == <<r.tab, r.of>>
InOrder(r) == r.of = route /\ ~r.late
Shows(r) == r.back = "done" /\ (r.op = "list" \/ (screen = "ranges" /\ r.op = "save"))
Misses(r) == r.of = route /\ (r.back = "lost" \/ (r.back = "sent" /\ r.op = "list"))

\* What is heard of r tells of the work done before it that nothing was heard of yet.
Heard(r) ==
  {IF Place(q) = Place(r) /\ 0 < q.at /\ q.at < r.at THEN [q EXCEPT !.late = TRUE] ELSE q :
     q \in requests \ {r}}

Remember(r) ==
  /\ served' = IF r.op # "head" /\ \A q \in requests \ {r} : Place(q) # Place(r)
               THEN [served EXCEPT ![r.tab][r.of] = 0] ELSE served
  /\ mixed' = {t \in mixed : Shows(r) /\ r.op = "list" => t # r.tab}
                \cup {t \in {r.tab} : Shows(r) /\ ~InOrder(r)}
  /\ missed' = {t \in missed : Shows(r) /\ r.op = "list" /\ InOrder(r) => t # r.tab}
                 \cup {t \in {r.tab} : Misses(r)}

Show(t, list) ==
  /\ lists' = [lists EXCEPT ![t] = list]
  /\ cards' = IF layout = "cards" THEN CardsOf(list, cards) ELSE cards

Merged(row) ==
  [i \in DOMAIN rows |-> IF KeyOf(rows[i]) = KeyOf(row) THEN [row EXCEPT !.active = TRUE] ELSE rows[i]]

AfterChangeOfRows(r) ==
  IF screen = "ranges" \/ r.op \in {"retire", "reactivate"}
  THEN requests' = Heard(r) /\ sends' = sends
  ELSE /\ sends' = sends + 1
       /\ requests' = Heard(r) \cup {Request(sends', "list", r.tab, r.of, NoRow, FALSE)}

\* After a change that worked the list it changed is loaded again, for the
\* Facility of the change; Field Limits puts the saved limit into its list instead.
AfterChange(r) ==
  IF screen = "ranges" THEN requests' = Heard(r) /\ sends' = sends
  ELSE /\ sends' = sends + 1
       /\ requests' = Heard(r) \cup {Request(sends', "list", r.tab, r.of, NoRow, FALSE)}

Arrive(r) ==
  /\ r.back # "sent"
  /\ IF r.back = "done" /\ r.op # "list" THEN AfterChange(r)
     ELSE requests' = Heard(r) /\ sends' = sends
  /\ IF r.back = "done" /\ r.op = "list" THEN Show(r.tab, r.list)
     ELSE IF Shows(r) THEN Show(r.tab, Merged(r.row))
     ELSE UNCHANGED <<lists, cards>>
  /\ error' = (error \/ r.back = "lost")
  /\ asked' = IF screen = "reports" /\ r.op = "remove" /\ r.back = "done" THEN None ELSE asked
  /\ Remember(r)
  /\ UNCHANGED <<grid, screen, layout, tab, route, head, form, store, events, inputs>>

\* What the second load asks for never changes while a screen is open.
ArriveHead(r) ==
  /\ r.op = "head"
  /\ requests' = requests \ {r}
  /\ head' = r.of
  /\ UNCHANGED <<grid, screen, layout, tab, route, lists, error, asked, cards, form, store>>
  /\ UNCHANGED <<sends, events, inputs, served, history>>

Fail(r) ==
  /\ r.back = "sent"
  /\ requests' = requests \ {r}
  /\ error' = TRUE
  /\ Remember(r)
  /\ UNCHANGED <<grid, screen, layout, tab, route, head, lists, asked, cards, form, store>>
  /\ UNCHANGED <<sends, events, inputs>>

Next ==
  \/ AddRow \/ EditRow \/ TypeInRow \/ TurnThePage \/ SwitchTab \/ CancelRow \/ SaveRow
  \/ RowButton \/ CardButton \/ ConfirmDialog \/ ConfirmCard \/ DoNotConfirm
  \/ OnCard \/ TypeInForm \/ AddByForm
  \/ Renew \/ OpenFacility \/ Resize
  \/ \E r \in requests : Serve(r) \/ Arrive(r) \/ ArriveHead(r) \/ Fail(r)

\* A browser settles every fetch: with an answer or with a failure.
Fairness == WF_vars(\E r \in requests : Serve(r) \/ Arrive(r) \/ ArriveHead(r) \/ Fail(r))

Spec == Init /\ [][Next]_vars /\ Fairness

(***************************************************************************)
(* Properties.                                                             *)
(***************************************************************************)
Ops == {"head", "list", "add", "save", "remove", "retire", "reactivate"}
IsRow(row) ==
  /\ DOMAIN row = {"id", "name", "value", "active"}
  /\ row.id \in {NewKey} \cup Ids \cup 1 .. sends \cup ToSet(EmissionTypes)
  /\ row.active \in BOOLEAN

\* Rows, drafts and requests are what they should be, and the cards mounted are
\* those of the list (the state of the screens and of GridControl.tsx:194-201).
TypeOK ==
  /\ clientPage \in Nat \ {0}
  /\ problems \subseteq {"name", "value"}
  /\ \A row \in {draft, addedRow} \ {NoRow} : IsRow(row)
  /\ editingKey # NoKey => draft # NoRow /\ KeyOf(draft) = editingKey
  /\ \A t \in TabsOf(screen) : lists[t] # None =>
       \A i \in DOMAIN lists[t] : IsRow(lists[t][i]) /\ ~IsNew(lists[t][i])
  /\ DOMAIN cards = IF layout = "cards" /\ rows # None THEN KeysOf(rows) ELSE {}
  /\ asked # None => IsRow(asked)
  /\ error \in BOOLEAN /\ tab \in TabsOf(screen)
  /\ \A r \in requests : r.op \in Ops /\ r.n <= sends /\ r.of \in RoutesOf(screen)

\* Once everything was answered, each list the screen has is the list of the
\* server, for the Facility in the address, unless its answers were shown out of
\* order (nothing in the code puts them in order) or it was missed: through every
\* kind of change, refusals, lost answers, renewals and reloads, overlapping or
\* not (run and reload of the screens, the merge of FieldLimitsScreen.tsx:135-138).
\* And a list that was missed is not silently so: an error is shown.  The details
\* do not keep this, where a change of one list clears the error of the other
\* (FacilityDetailScreen.tsx:57, 109); nor does Field Limits, which never reloads.
SettledListIsCurrent ==
  requests = {} => \A t \in TabsOf(screen) \ mixed :
    /\ t \notin missed => lists[t] = store[t][route]
    /\ t \in missed /\ screen \notin {"details", "ranges"} => error

\* What the domain demands of a row, whichever screen, grid or card sent it
\* (ValidateName, MonthlyLimit.Create, ProductionFieldLimit.Create): a screen
\* never sends a row the server is bound to refuse.
WellFormed(t, row) ==
  CASE t \in {"facilities", "orgs"} -> Filled(row.name)
    [] t \in {"fields", "permits"} -> Filled(row.name) /\ Filled(row.value)
    [] t = "limits" -> row.name \in ToSet(EmissionTypes) /\ row.value \in Nat \ {0}
    [] t = "ranges" -> row.name \in Nat /\ row.value \in Nat /\ row.name <= row.value
RequestsAreWellFormed ==
  \A r \in requests : r.op \in {"add", "save"} => WellFormed(r.tab, r.row)

\* Saving creates a row exactly when the blank row was edited, and a saved row
\* keeps the part that is its identity: the name of an Org, the PropertyName of
\* a field (I-D21) and the emission type of a limit, however editors were
\* opened, left and reloaded under (handleRowSave and the editors of the screens).
EditsKeepTheirIdentity ==
  \A r \in requests :
    /\ r.op = "add" => IsNew(r.row)
    /\ r.op = "save" =>
         /\ ~IsNew(r.row)
         /\ r.tab \in {"orgs", "fields", "limits"} =>
              \A row \in Range(store[r.tab][r.of]) : KeyOf(row) = KeyOf(r.row) => row.name = r.row.name

\* What a screen holds and what it sends: cards of the rows there are, one open editor,
\* and requests the server can accept, each for the row its editor was opened on.
ScreenIsWellFormed == TypeOK /\ OneOpenEditor /\ RequestsAreWellFormed /\ EditsKeepTheirIdentity

\* No screen shows "Loading" for ever: the lists arrive or an error is shown, also
\* when renewals of the token cancel the loads under way (the load effects).  On
\* the details the error of a load that failed may be cleared by a change of the
\* other list, which then does load for ever; there, that it failed is all one has.
Loading == \E t \in TabsOf(screen) : lists[t] = None /\ ~(screen = "details" /\ t \in missed)
LoadingEnds == Loading ~> (~Loading \/ error)
=============================================================================
