------------------------------ MODULE StoreHandlers ------------------------------
(***************************************************************************)
(* The handlers of the application layer and the domain rules they apply.  *)
(* A handler makes its queries one after the other, each awaited; a query  *)
(* may already settle the request.  What it decides is then a function of  *)
(* its command c and of what it has seen: the statements of SaveChanges,   *)
(* or none at all when a rule refuses the command.                         *)
(* Texts are values that are either equal or not: trimming, their length   *)
(* and the case-insensitive collation are left out.                        *)
(***************************************************************************)
EXTENDS Database

CONSTANTS
  Today,         \* the date of the server
  SeedFields,    \* the catalog of ProductionFieldSeedData: names and labels
  NoName         \* a text that is empty or too long

ASSUME TodayAssumption == Today \in Int

\* The seed has no property name and no label twice.
ASSUME SeedAssumption ==
  \A s, u \in SeedFields :
    s.propertyName = u.propertyName \/ s.friendlyName = u.friendlyName => s = u

(***************************************************************************)
(* The queries of the repositories.                                        *)
(***************************************************************************)
Orgs(d, c) == {o \in d["orgs"] : o.id = c.org}

FacilitiesOfAnyOrg(d, c) ==
  {[row |-> f, permits |-> {p \in d["permits"] : p.facility = f.id},
    limits |-> {l \in d["limits"] : l.facility = f.id}] : f \in {x \in d["facilities"] : x.id = c.facility}}

\* A Facility comes with its permits and limits, and only within its Org (I-D03).
Facilities(d, c) ==
  {[row |-> f, permits |-> {p \in d["permits"] : p.facility = f.id},
    limits |-> {l \in d["limits"] : l.facility = f.id}] :
     f \in {x \in d["facilities"] : x.org = c.org /\ x.id = c.facility}}

SameDay(d, c) ==
  {r \in d["records"] : r.org = c.org /\ r.facility = c.facility /\ r.date = c.date}

FieldById(d, c) == {f \in d["fields"] : f.id = c.field}
FieldByName(d, c) == {f \in d["fields"] : f.propertyName = c.propertyName}
ActiveByLabel(d, label) == {f \in d["fields"] : f.active /\ f.friendlyName = label}

RangeOf(d, c) == {r \in d["ranges"] : r.org = c.org /\ r.propertyName = c.propertyName}

Templates(d, c) == {t \in d["templates"] : t.id = c.template}

(***************************************************************************)
(* The queries of each handler, in order, and the rows one of them finds.  *)
(***************************************************************************)
Queries(c) ==
  CASE c.op \in {"CreateOrg", "CreateTemplate"} -> <<>>
    [] c.op \in {"AddFacility", "UpdateOrg", "DeleteOrg"} -> <<"org">>
    [] c.op \in {"RenameFacility", "RemoveFacility", "AddPermit", "RemovePermit",
                 "AddLimit", "UpdateLimit", "RemoveLimit"} -> <<"facility">>
    [] c.op = "LogRecord" -> <<"facility", "sameDay", "catalog">>
    [] c.op = "CreateField" -> <<"sameName", "sameLabel">>
    [] c.op = "UpdateField" -> <<"field", "clash">>
    [] c.op = "RetireField" -> <<"field">>
    [] c.op = "ReactivateField" -> <<"field", "oldLabel">>
    [] c.op = "SeedCatalog" -> <<"catalog">>
    [] c.op = "SetRange" -> <<"named", "range">>
    [] c.op \in {"UpdateTemplate", "DeleteTemplate"} -> <<"template">>

Result(d, c, seen, q) ==
  CASE q = "org" -> Orgs(d, c)
    [] q = "facility" -> Facilities(d, c)
    [] q = "sameDay" -> SameDay(d, c)
    [] q = "catalog" -> d["fields"]
    [] q = "field" -> FieldById(d, c)
    [] q \in {"sameName", "named"} -> FieldByName(d, c)
    [] q \in {"sameLabel", "clash"} -> ActiveByLabel(d, c.friendlyName)
    [] q = "oldLabel" -> UNION {ActiveByLabel(d, f.friendlyName) : f \in seen["field"]}
    [] q = "range" -> RangeOf(d, c)
    [] q = "template" -> Templates(d, c)

SettlesUnlessReactivating(c, q, found) ==
  \/ q \in {"org", "facility", "field", "named", "template"} /\ found = {}
  \/ q \in {"sameDay", "sameName", "sameLabel"} /\ found # {}
  \/ q = "clash" /\ \E f \in found : f.id # c.field
  \/ c.op = "SeedCatalog" /\ found # {}

\* The handler answers right after the query: not found, or already there.
Settles(c, q, found) ==
  \/ q \in {"org", "facility", "field", "named", "template"} /\ found = {}
  \/ q \in {"sameDay", "sameName", "sameLabel"} /\ found # {}
  \/ q \in {"clash", "oldLabel"} /\ \E f \in found : f.id # c.field
  \/ c.op = "SeedCatalog" /\ found # {}

(***************************************************************************)
(* Orgs and facilities.  id is the one a new row gets.                     *)
(***************************************************************************)
CreateOrg(c, id) ==
  IF c.name = NoName THEN {} ELSE {Insert("orgs", [id |-> id, tenant |-> 0])}

\* The name of an Org is immutable: a command that changes it is refused.
UpdateOrg(c, org) ==
  IF c.renames THEN {} ELSE {Update("orgs", org, [org EXCEPT !.tenant = c.tenant])}

DeleteOrg(c, org) == {Delete("orgs", {org})}

AddFacility(c, id) ==
  IF c.name = NoName THEN {}
  ELSE {Insert("facilities", [id |-> id, org |-> c.org, name |-> c.name])}

RenameFacility(c, f) ==
  IF c.name = NoName THEN {} ELSE {Update("facilities", f.row, [f.row EXCEPT !.name = c.name])}

\* The permits and limits it was loaded with go one by one, the rest cascades.
RemoveFacility(c, f) ==
  {Delete("facilities", {f.row}) \cup Delete("permits", f.permits) \cup Delete("limits", f.limits)}

\* I-D17: a Permit must not have expired.
AddPermit(c, f, id) ==
  IF c.expires < Today THEN {}
  ELSE {Insert("permits", [id |-> id, facility |-> c.facility, expires |-> c.expires, value |-> c.value])}

RemovePermitAny(c, f) ==
  {Delete("permits", {p}) :
     p \in {x \in f.permits : \E q \in f.permits : q.id = c.permit /\ x.value = q.value}}

\* I-D18: the last Permit stays.  List.Remove removes the first permit that
\* equals the one found, and permits with the same value are equal; which of
\* them comes first is up to the database.
RemovePermit(c, f) ==
  IF Cardinality(f.permits) <= 1 THEN {}
  ELSE {Delete("permits", {p}) :
          p \in {x \in f.permits : \E q \in f.permits : q.id = c.permit /\ x.value = q.value}}

OfType(c, f) == {l \in f.limits : l.type = c.type}
NewLimitRow(c, id) == [id |-> id, facility |-> c.facility, type |-> c.type, tons |-> c.tons]

\* I-D19 and I-D20: one limit per emission type, of more than zero tons.
AddLimit(c, f, id) ==
  IF OfType(c, f) # {} \/ c.tons <= 0 THEN {} ELSE {Insert("limits", NewLimitRow(c, id))}

\* An update replaces the value object, and so its row.
UpdateLimit(c, f, id) ==
  IF c.tons <= 0 THEN {}
  ELSE {Delete("limits", {l}) \cup Insert("limits", NewLimitRow(c, id)) : l \in OfType(c, f)}

RemoveLimit(c, f) == {Delete("limits", {l}) : l \in OfType(c, f)}

(***************************************************************************)
(* Records.                                                                *)
(***************************************************************************)
\* The value is one of an active field and of that field's data type.
MayBeRecorded(seen, v) ==
  \E f \in seen["catalog"] : f.active /\ f.propertyName = v.field /\ f.dataType = v.kind

LogRecord(c, seen, id) ==
  LET row == [id |-> id, org |-> c.org, facility |-> c.facility, date |-> c.date,
              values |-> [i \in DOMAIN c.values |-> c.values[i].field]]
  IN  IF (\A i \in DOMAIN c.values : MayBeRecorded(seen, c.values[i])) /\ ~SameValueKey(row)
      THEN {Insert("records", row)} ELSE {}

(***************************************************************************)
(* The catalog of production fields and the ranges of an Org.              *)
(***************************************************************************)
CreateField(c, id) ==
  IF NoName \in {c.propertyName, c.friendlyName} THEN {}
  ELSE {Insert("fields", [id |-> id, propertyName |-> c.propertyName, friendlyName |-> c.friendlyName,
                          dataType |-> c.dataType, active |-> TRUE])}

UpdateField(c, field) ==
  IF c.friendlyName = NoName THEN {}
  ELSE {Update("fields", field, [field EXCEPT !.friendlyName = c.friendlyName, !.dataType = c.dataType])}

RetireFieldDeletes(field) == {Delete("fields", {field})}

\* A retired field stays in the catalog, for what is stored under its name.
RetireField(field) == {Update("fields", field, [field EXCEPT !.active = FALSE])}
ReactivateField(field) == {Update("fields", field, [field EXCEPT !.active = TRUE])}

\* At start-up, an empty catalog is filled in one save.
SeedCatalog(id) ==
  {UNION {Insert("fields", [id |-> <<id, s.propertyName>>, propertyName |-> s.propertyName,
                            friendlyName |-> s.friendlyName, dataType |-> s.dataType, active |-> TRUE]) :
            s \in SeedFields}}

\* I-D25: the low bound does not exceed the high one.
SetRange(c, found, id) ==
  IF c.low > c.high THEN {}
  ELSE IF found = {}
       THEN {Insert("ranges", [id |-> id, org |-> c.org, propertyName |-> c.propertyName,
                               low |-> c.low, high |-> c.high])}
       ELSE {Update("ranges", r, [r EXCEPT !.low = c.low, !.high = c.high]) : r \in found}

(***************************************************************************)
(* Report templates.                                                       *)
(***************************************************************************)
CreateTemplate(c, id) ==
  IF NoName \in {c.name, c.rdl} THEN {}
  ELSE {Insert("templates", [id |-> id, name |-> c.name, rdl |-> c.rdl, updated |-> id])}

\* The time of the update always changes; here it is the id of its request.
UpdateTemplate(c, t, id) ==
  IF NoName \in {c.name, c.rdl} THEN {}
  ELSE {Update("templates", t, [t EXCEPT !.name = c.name, !.rdl = c.rdl, !.updated = id])}
DeleteTemplate(c, t) == {Delete("templates", {t})}

(***************************************************************************)
(* What the handler of c saves: a set with one piece of work, several when *)
(* the database has a choice, none when the command is refused.            *)
(***************************************************************************)
Works(c, seen, id) ==
  LET the(q) == CHOOSE x \in seen[q] : TRUE
  IN  CASE c.op = "CreateOrg" -> CreateOrg(c, id)
        [] c.op = "UpdateOrg" -> UpdateOrg(c, the("org"))
        [] c.op = "DeleteOrg" -> DeleteOrg(c, the("org"))
        [] c.op = "AddFacility" -> AddFacility(c, id)
        [] c.op = "RenameFacility" -> RenameFacility(c, the("facility"))
        [] c.op = "RemoveFacility" -> RemoveFacility(c, the("facility"))
        [] c.op = "AddPermit" -> AddPermit(c, the("facility"), id)
        [] c.op = "RemovePermit" -> RemovePermit(c, the("facility"))
        [] c.op = "AddLimit" -> AddLimit(c, the("facility"), id)
        [] c.op = "UpdateLimit" -> UpdateLimit(c, the("facility"), id)
        [] c.op = "RemoveLimit" -> RemoveLimit(c, the("facility"))
        [] c.op = "LogRecord" -> LogRecord(c, seen, id)
        [] c.op = "CreateField" -> CreateField(c, id)
        [] c.op = "UpdateField" -> UpdateField(c, the("field"))
        [] c.op = "RetireField" -> RetireField(the("field"))
        [] c.op = "ReactivateField" -> ReactivateField(the("field"))
        [] c.op = "SeedCatalog" -> SeedCatalog(id)
        [] c.op = "SetRange" -> SetRange(c, seen["range"], id)
        [] c.op = "CreateTemplate" -> CreateTemplate(c, id)
        [] c.op = "UpdateTemplate" -> UpdateTemplate(c, the("template"), id)
        [] c.op = "DeleteTemplate" -> DeleteTemplate(c, the("template"))
==================================================================================
