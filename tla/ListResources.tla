----------------------------- MODULE ListResources -----------------------------
(***************************************************************************)
(* The lists the screens edit: what each grid and each card lets the user  *)
(* change, what the validators refuse, what is sent, and what a request of *)
(* each API client does at the server.  Pure definitions.                  *)
(*                                                                         *)
(* A row has an id, a name, a value and a flag; what they stand for:       *)
(*   facilities   id           name                                        *)
(*   orgs         id           name            tenantId                    *)
(*   fields       id           propertyName    friendlyName   isActive     *)
(*   reports      id           name                                        *)
(*   permits      id           permit number   expirationDate              *)
(*   limits       emissionType emissionType    tons a month                *)
(*   ranges       propertyName lowLimit        highLimit      configured   *)
(* The other columns of a Production Field and the unit of a range are     *)
(* edited as its value is, and are left out.                               *)
(***************************************************************************)
EXTENDS GridControl, Functions, SequencesExt

CONSTANTS
  EmissionTypes,    \* EMISSION_TYPES, a sequence
  Blank, Spaces,    \* texts: the empty one and one of spaces only
  Padded, Plain,    \* the text Plain with spaces around it, and without
  None              \* null

(***************************************************************************)
(* Rows and texts.                                                         *)
(***************************************************************************)
KeyOf(row) == row.id    \* rowKey
IsNew(row) == KeyOf(row) = NewKey
KeysOf(list) == {KeyOf(list[i]) : i \in DOMAIN list}
NamesOf(list) == IF list = None THEN {} ELSE {list[i].name : i \in DOMAIN list}

Trimmed(t) == IF t = Spaces THEN Blank ELSE IF t = Padded THEN Plain ELSE t
IsBlank(t) == Trimmed(t) = Blank
Number(t) == IF IsBlank(t) THEN 0 ELSE t    \* Number('') is 0

BlankRow == [id |-> NewKey, name |-> Blank, value |-> Blank, active |-> TRUE]
TrimmedRow(d) == [d EXCEPT !.name = Trimmed(@), !.value = Trimmed(@)]

BlankAmong(d, columns) == {c \in columns : IsBlank(d[c])}

(***************************************************************************)
(* The columns of each grid while the draft d is edited: those whose       *)
(* editor can change something, and those a validator finds fault with.    *)
(***************************************************************************)
FacilityColumns(d) == [editable |-> {"name"}, invalid |-> BlankAmong(d, {"name"})]

\* The name of an Org is chosen once, its tenant only later.
OrgColumns(d) ==
  [editable |-> IF IsNew(d) THEN {"name"} ELSE {"value"},
   invalid  |-> IF IsNew(d) THEN BlankAmong(d, {"name"}) ELSE {}]

FieldColumnsRename(d) == [editable |-> {"name", "value"}, invalid |-> BlankAmong(d, {"name", "value"})]

\* So is the PropertyName of a Production Field (I-D21).
FieldColumns(d) ==
  LET columns == IF IsNew(d) THEN {"name", "value"} ELSE {"value"}
  IN  [editable |-> columns, invalid |-> BlankAmong(d, columns)]

PermitColumns(d) == [editable |-> {"name", "value"}, invalid |-> BlankAmong(d, {"name", "value"})]

LimitColumns(d) ==
  [editable |-> IF IsNew(d) THEN {"name", "value"} ELSE {"value"},
   invalid  |-> {c \in {"value"} : ~(Number(d.value) > 0)}]

\* Both bounds are required, and the range must not be empty (I-D25).
RangeColumns(d) ==
  [editable |-> {"name", "value"},
   invalid  |-> BlankAmong(d, {"name", "value"})
                  \cup {c \in {"value"} : ~IsBlank(d.value) /\ Number(d.value) < Number(d.name)}]

(***************************************************************************)
(* newRow, or none where nothing can be added: no existing range is added, *)
(* and no limit once every emission type has one (I-D19).                  *)
(***************************************************************************)
Available(list) == ToSet(EmissionTypes) \ NamesOf(list)
NewLimit(list) ==
  {[BlankRow EXCEPT !.name = EmissionTypes[i]] :
     i \in {j \in DOMAIN EmissionTypes : /\ EmissionTypes[j] \in Available(list)
                                       /\ \A k \in 1 .. j - 1 : EmissionTypes[k] \notin Available(list)}}
NewRows(t, list) ==
  CASE t \in {"ranges", "reports"} -> {}
    [] t = "limits" -> NewLimit(list)
    [] OTHER -> {BlankRow}

(***************************************************************************)
(* handleRowSave: the request that stores a draft without faults, as the   *)
(* operation and the row it carries.                                       *)
(***************************************************************************)
SaveOp(d) == IF IsNew(d) THEN "add" ELSE "save"
FacilitySave(d) == [op |-> SaveOp(d), row |-> TrimmedRow(d)]
OrgSave(d) ==
  [op |-> SaveOp(d), row |-> IF IsNew(d) THEN [d EXCEPT !.name = Trimmed(@)]
                             ELSE [d EXCEPT !.value = Trimmed(@)]]
FieldSave(d) == [op |-> SaveOp(d), row |-> TrimmedRow(d)]
PermitSave(d) == [op |-> "add", row |-> [d EXCEPT !.name = Trimmed(@)]]
LimitSave(d) == [op |-> SaveOp(d), row |-> [d EXCEPT !.value = Number(@)]]
RangeSave(d) == [op |-> "save", row |-> [d EXCEPT !.name = Number(@), !.value = Number(@)]]

(***************************************************************************)
(* A card of a phone edits one text of its row.                            *)
(***************************************************************************)
FacilityCard(row, text) == [row EXCEPT !.name = Trimmed(text)]
OrgCard(row, text) == [row EXCEPT !.value = Trimmed(text)]
FieldCard(row, text) == [row EXCEPT !.value = Trimmed(text)]

CardText(s, row) == IF s = "facilities" THEN row.name ELSE row.value
CardRow(s, row, text) ==
  CASE s = "facilities" -> FacilityCard(row, text)
    [] s = "orgs" -> OrgCard(row, text)
    [] s = "fields" -> FieldCard(row, text)
\* Only the tenant of an Org may be left blank: it then signs in locally.
CardMayBeSaved(s, text) == s = "orgs" \/ ~IsBlank(text)

(***************************************************************************)
(* The API clients and what their requests do at the server: the lists it  *)
(* may have afterwards, none when the domain or the handler refuses.       *)
(***************************************************************************)
Found(list, row) == {list[i] : i \in {j \in DOMAIN list : KeyOf(list[j]) = KeyOf(row)}}

Added(list, row, id) == {Append(list, [row EXCEPT !.id = id])}
Replaced(list, row) ==
  {[i \in DOMAIN list |-> IF KeyOf(list[i]) = KeyOf(row) THEN row ELSE list[i]] : x \in Found(list, row)}
Removed(list, row) == {RemoveAt(list, i) : i \in {j \in DOMAIN list : KeyOf(list[j]) = KeyOf(row)}}

\* I-D22: another active field has this FriendlyName.
Clashes(list, row) ==
  \E i \in DOMAIN list : list[i].active /\ list[i].value = row.value /\ KeyOf(list[i]) # KeyOf(row)

FacilitiesApi(list, r) ==
  CASE r.op = "add" -> Added(list, r.row, r.n)
    [] r.op = "save" -> Replaced(list, r.row)
    [] r.op = "remove" -> Removed(list, r.row)

OrgsApi(list, r) ==
  CASE r.op = "add" -> Added(list, r.row, r.n)
    [] r.op = "save" -> UNION {Replaced(list, r.row) : x \in {y \in Found(list, r.row) : y.name = r.row.name}}
    [] r.op = "remove" -> Removed(list, r.row)

FieldsApi(list, r) ==
  CASE r.op = "add" -> IF r.row.name \in NamesOf(list) \/ Clashes(list, r.row) THEN {}
                       ELSE Added(list, r.row, r.n)
    [] r.op = "save" -> IF Clashes(list, r.row) THEN {}
                        ELSE UNION {Replaced(list, [x EXCEPT !.value = r.row.value]) : x \in Found(list, r.row)}
    [] r.op = "retire" -> UNION {Replaced(list, [x EXCEPT !.active = FALSE]) : x \in Found(list, r.row)}
    [] r.op = "reactivate" ->
         UNION {Replaced(list, [x EXCEPT !.active = TRUE]) :
                  x \in {y \in Found(list, r.row) : ~Clashes(list, y)}}

\* I-D18: the last Permit cannot be removed.
PermitsApi(list, r) ==
  CASE r.op = "add" -> Added(list, r.row, r.n)
    [] r.op = "remove" -> IF Len(list) > 1 THEN Removed(list, r.row) ELSE {}

\* I-D19: one limit per emission type.
LimitsApi(list, r) ==
  CASE r.op = "add" -> IF r.row.name \in NamesOf(list) THEN {} ELSE Added(list, r.row, r.row.name)
    [] r.op = "save" -> Replaced(list, r.row)
    [] r.op = "remove" -> Removed(list, r.row)

\* An upsert (I-D24): the range is configured afterwards.
RangesApi(list, r) == Replaced(list, [r.row EXCEPT !.active = TRUE])

ReportsApi(list, r) == Removed(list, r.row)

Outcomes(t, list, r) ==
  IF r.op \in {"list", "head"} THEN {list}
  ELSE CASE t = "facilities" -> FacilitiesApi(list, r)
       [] t = "orgs" -> OrgsApi(list, r)
       [] t = "fields" -> FieldsApi(list, r)
       [] t = "permits" -> PermitsApi(list, r)
       [] t = "limits" -> LimitsApi(list, r)
       [] t = "ranges" -> RangesApi(list, r)
       [] t = "reports" -> ReportsApi(list, r)
=============================================================================
