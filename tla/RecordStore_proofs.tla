-------------------------- MODULE RecordStore_proofs --------------------------
(***************************************************************************)
(* Proofs about the store, for any requests, any commands and any database *)
(* that is well-formed at first.  StoreInv says of every request in hand:  *)
(*   - what it has seen did not settle it, and however stale it is, is of  *)
(*     the org that asks (OwnersInv: ids are not used twice, and no row    *)
(*     changes its owner);                                                 *)
(*   - unless it was overtaken, what it has seen is what it would see now  *)
(*     (UpToDate at the save), so that the checks it has made stand for    *)
(*     the indexes, the foreign keys and the rules of the aggregates.      *)
(* The parts: what a save does to the tables, what the handlers ask for,   *)
(* when a save is admitted, when it keeps the rules, then the steps of a   *)
(* request and the theorems.  CatalogInv adds what they have seen of the   *)
(* catalog: names that it still has, for no name ever leaves it.           *)
(***************************************************************************)
EXTENDS RecordStore, FiniteSetTheorems, TLAPS

-----------------------------------------------------------------------------
(* The invariant *)

\* A request that may still add rows: it has not ended.
Unended(w) == request[w].outcome = "none"

MenuInv ==
  \A c \in menu :
    /\ c # None /\ c.op \in Operations
    /\ c.op \in {"AddLimit", "UpdateLimit"} => c.tons \in Int
    /\ c.op = "SetRange" => c.low \in Int /\ c.high \in Int

\* The rows that are yet to come have ids of their own.
IdsAreNew ==
  \A w \in Requests : Unended(w) => \A t \in Tables : Ids(db[t]) \cap NewIds(w) = {}

\* That id is not a new one, and a row of table t that has it is its owner's.
Belongs(t, column, id, owner) ==
  /\ \A w \in Requests : Unended(w) => id \notin NewIds(w)
  /\ \A row \in db[t] : row.id = id => row[column] = owner

\* However stale it is, what a request has seen is of its org.
OwnersInv(c, seen) ==
  /\ "facility" \in DOMAIN seen =>
       /\ Belongs("facilities", "org", c.facility, c.org)
       /\ \A x \in seen["facility"] :
            /\ "id" \in DOMAIN x.row /\ x.row.id = c.facility
            /\ \A p \in x.permits : Belongs("permits", "facility", p.id, c.facility)
            /\ \A l \in x.limits : Belongs("limits", "facility", l.id, c.facility)
  /\ "range" \in DOMAIN seen =>
       \A r \in seen["range"] : "id" \in DOMAIN r /\ Belongs("ranges", "org", r.id, c.org)

\* What a request in hand has seen did not settle it, and is so still if nobody has
\* saved since; only who was overtaken fails.
RequestOK(r) ==
  /\ r = [cmd |-> r.cmd, seen |-> r.seen, next |-> r.next, overtaken |-> r.overtaken,
          outcome |-> r.outcome]
  /\ r.overtaken \in BOOLEAN /\ r.outcome \in {"none", "refused", "saved", "failed"}
  /\ r.outcome = "failed" => r.overtaken
  /\ r.cmd = None /\ r.outcome = "none" => r.next = 1 /\ ~r.overtaken
  /\ r.cmd # None =>
       /\ r.outcome = "none" /\ r.cmd \in menu
       /\ r.next \in 1 .. Len(Queries(r.cmd)) + 1
       /\ DOMAIN r.seen = {Queries(r.cmd)[i] : i \in 1 .. r.next - 1}
       /\ \A q \in DOMAIN r.seen : ~Settles(r.cmd, q, r.seen[q])
       /\ ~r.overtaken => \A q \in DOMAIN r.seen : r.seen[q] = Result(db, r.cmd, r.seen, q)
       /\ OwnersInv(r.cmd, r.seen)

RequestsInv ==
  /\ request = [w \in Requests |-> request[w]]
  /\ \A w \in Requests : RequestOK(request[w])

Rules == OneLimitPerType /\ RangesAreOrdered

StoreInv ==
  /\ MenuInv /\ RequestsInv /\ WellFormed(db) /\ IdsAreNew
  /\ raced \in BOOLEAN /\ LimitsArePositive /\ (~raced => Rules)

-----------------------------------------------------------------------------
(* What a save does to the tables                                          *)

\* A table after the statements, before owners take their rows with them.
Written(d, work, t) ==
  {Rewritten(row, Chosen(work, t, "update")) :
     row \in {r \in d[t] : r.id \notin {s.row.id : s \in Chosen(work, t, "delete")}}}
    \cup {s.row : s \in Chosen(work, t, "insert")}

IsRow(t, row) == row = [column \in ColumnsOf(t) |-> row[column]]

\* Owners that have gone take their rows with them, and nothing else changes.
LEMMA CascadedTables ==
  ASSUME NEW d, d = [t \in Tables |-> d[t]], NEW e, e = Cascaded(d)
  PROVE  /\ e = [t \in Tables |-> e[t]]
         /\ \A t \in {"orgs", "fields", "ranges", "templates"} : e[t] = d[t]
         /\ e["facilities"] = {f \in d["facilities"] : f.org \in Ids(d["orgs"])}
         /\ \A t \in {"permits", "limits", "records"} :
              e[t] = {row \in d[t] : row.facility \in Ids(e["facilities"])}
<1>1. PICK facilities : facilities = {f \in d["facilities"] : f.org \in Ids(d["orgs"])}
  OBVIOUS
<1>2. e = [d EXCEPT !["facilities"] = facilities,
                    !["permits"] = {row \in @ : row.facility \in Ids(facilities)},
                    !["limits"] = {row \in @ : row.facility \in Ids(facilities)},
                    !["records"] = {row \in @ : row.facility \in Ids(facilities)}]
  BY <1>1 DEF Cascaded
<1>3. /\ e = [t \in Tables |-> e[t]]
      /\ e["facilities"] = facilities
      /\ e["permits"] = {row \in d["permits"] : row.facility \in Ids(facilities)}
      /\ e["limits"] = {row \in d["limits"] : row.facility \in Ids(facilities)}
      /\ e["records"] = {row \in d["records"] : row.facility \in Ids(facilities)}
      /\ e["orgs"] = d["orgs"] /\ e["fields"] = d["fields"]
      /\ e["ranges"] = d["ranges"] /\ e["templates"] = d["templates"]
  BY <1>2 DEF Tables
<1>4. QED
  BY <1>1, <1>3

\* So it is after a save.
LEMMA AfterTables ==
  ASSUME NEW d, NEW work, NEW e, e = After(d, work)
  PROVE  /\ e = [t \in Tables |-> e[t]]
         /\ \A t \in {"orgs", "fields", "ranges", "templates"} : e[t] = Written(d, work, t)
         /\ e["facilities"] = {f \in Written(d, work, "facilities") :
                                 f.org \in Ids(Written(d, work, "orgs"))}
         /\ \A t \in {"permits", "limits", "records"} :
              e[t] = {row \in Written(d, work, t) : row.facility \in Ids(e["facilities"])}
<1>1. PICK written : written = [t \in Tables |-> Written(d, work, t)]
  OBVIOUS
<1>2. e = Cascaded(written)
  BY <1>1 DEF After, Written
<1>3. written = [t \in Tables |-> written[t]] /\ \A t \in Tables : written[t] = Written(d, work, t)
  BY <1>1
<1>4. QED
  BY <1>2, <1>3, CascadedTables DEF Tables

\* Nobody is left without an owner.
LEMMA OwnersStay ==
  ASSUME NEW d, d = [t \in Tables |-> d[t]], Cascaded(d) = d
  PROVE  /\ \A f \in d["facilities"] : f.org \in Ids(d["orgs"])
         /\ \A t \in {"permits", "limits", "records"} :
              \A row \in d[t] : row.facility \in Ids(d["facilities"])
<1>1. /\ d["facilities"] = {f \in d["facilities"] : f.org \in Ids(d["orgs"])}
      /\ \A t \in {"permits", "limits", "records"} :
           d[t] = {row \in d[t] : row.facility \in Ids(d["facilities"])}
  BY CascadedTables
<1>2. QED
  BY <1>1

\* After a save there is nothing more to take along.
LEMMA AfterIsCascaded ==
  ASSUME NEW d, NEW work, NEW e, e = After(d, work)
  PROVE  Cascaded(e) = e
<1>1. PICK f : f = Cascaded(e)
  OBVIOUS
<1>2. e = [t \in Tables |-> e[t]]
  BY AfterTables
<1>3. f = [t \in Tables |-> f[t]]
  BY <1>1, <1>2, CascadedTables
<1>4. \A t \in {"orgs", "fields", "ranges", "templates"} : f[t] = e[t]
  BY <1>1, <1>2, CascadedTables
<1>5. f["facilities"] = e["facilities"]
  <2>1. f["facilities"] = {x \in e["facilities"] : x.org \in Ids(e["orgs"])}
    BY <1>1, <1>2, CascadedTables
  <2>2. e["facilities"] = {x \in Written(d, work, "facilities") : x.org \in Ids(e["orgs"])}
    BY AfterTables
  <2>3. QED
    BY <2>1, <2>2
<1>6. \A t \in {"permits", "limits", "records"} : f[t] = e[t]
  <2>1. \A t \in {"permits", "limits", "records"} :
          f[t] = {row \in e[t] : row.facility \in Ids(f["facilities"])}
    BY <1>1, <1>2, CascadedTables
  <2>2. \A t \in {"permits", "limits", "records"} :
          e[t] = {row \in Written(d, work, t) : row.facility \in Ids(e["facilities"])}
    BY AfterTables
  <2>3. QED
    BY <1>5, <2>1, <2>2
<1>7. \A t \in Tables : f[t] = e[t]
  BY <1>4, <1>5, <1>6 DEF Tables
<1>8. QED
  BY <1>1, <1>2, <1>3, <1>7

\* An update writes the columns that it names, on the row with its id.
LEMMA RewrittenRow ==
  ASSUME NEW t, NEW row, IsRow(t, row), NEW updates, NEW new, new = Rewritten(row, updates)
  PROVE  /\ IsRow(t, new)
         /\ \A column \in ColumnsOf(t) :
              (\A s \in updates : s.row.id = row.id => column \notin s.columns)
                => new[column] = row[column]
         /\ (\A s \in updates : s.row.id # row.id) => new = row
<1>1. DOMAIN row = ColumnsOf(t)
  BY DEF IsRow
<1>2. new = [c \in ColumnsOf(t) |->
               IF \E s \in updates : s.row.id = row.id /\ c \in s.columns
               THEN (CHOOSE s \in updates : s.row.id = row.id /\ c \in s.columns).row[c]
               ELSE row[c]]
  BY <1>1 DEF Rewritten
<1>3. IsRow(t, new)
  BY <1>2 DEF IsRow
<1>4. \A column \in ColumnsOf(t) :
        (\A s \in updates : s.row.id = row.id => column \notin s.columns)
          => new[column] = row[column]
  BY <1>2
<1>5. ASSUME \A s \in updates : s.row.id # row.id
      PROVE  new = row
  <2>1. \A column \in ColumnsOf(t) : new[column] = row[column]
    BY <1>4, <1>5
  <2>2. QED
    BY <1>3, <2>1 DEF IsRow
<1>6. QED
  BY <1>3, <1>4, <1>5
-----------------------------------------------------------------------------
(* What the handlers ask for                                               *)

\* Every statement is of a table; what is added is a row with a new id, and what is
\* written is neither the id nor the org.
Tidy(work, w) ==
  /\ \A s \in work : s.table \in Tables /\ s.do \in {"insert", "update", "delete"}
  /\ \A s \in work : s.do = "insert" => IsRow(s.table, s.row) /\ s.row.id \in NewIds(w)
  /\ \A s, u \in work : s.do = "insert" /\ u.do = "insert" /\ s.table = u.table
                          /\ s.row.id = u.row.id => s.row = u.row
  /\ \A s \in work : s.do = "update" =>
       /\ s.table \in {"orgs", "facilities", "fields", "ranges", "templates"}
       /\ "id" \notin s.columns /\ "org" \notin s.columns
  /\ \A s \in work : s.do = "insert" /\ s.table = "limits" => s.row.tons > 0

\* One new row.
LEMMA InsertIsTidy ==
  ASSUME NEW w, NEW t \in Tables, NEW row, IsRow(t, row), row.id = w,
         t = "limits" => row.tons > 0
  PROVE  Tidy(Insert(t, row), w)
BY DEF Tidy, Insert, NewIds

\* Rows that go.
LEMMA DeleteIsTidy ==
  ASSUME NEW w, NEW t \in Tables, NEW rows
  PROVE  Tidy(Delete(t, rows), w)
BY DEF Tidy, Delete

\* A row that is changed, if it is.
LEMMA UpdateIsTidy ==
  ASSUME NEW w, NEW t \in {"orgs", "facilities", "fields", "ranges", "templates"},
         NEW old, NEW new,
         \A column \in {"id", "org"} : column \in DOMAIN old => new[column] = old[column]
  PROVE  Tidy(Update(t, old, new), w)
BY DEF Tidy, Update, Tables

\* Rows that go and statements of any kind.
LEMMA DeleteAndTidy ==
  ASSUME NEW w, NEW t \in Tables, NEW rows, NEW work, Tidy(work, w)
  PROVE  Tidy(Delete(t, rows) \cup work, w)
BY DEF Tidy, Delete

\* Whatever a handler has seen, what it asks for is tidy.
LEMMA WorksAreTidy ==
  ASSUME MenuInv, NEW c \in menu, NEW seen, NEW w, NEW work \in Works(c, seen, w)
  PROVE  Tidy(work, w)
<1> DEFINE the(q) == CHOOSE x \in seen[q] : TRUE
<1>1. CASE c.op = "CreateOrg"
  <2>1. work = Insert("orgs", [id |-> w, tenant |-> 0])
    BY <1>1 DEF Works, CreateOrg
  <2>2. QED
    BY <2>1, InsertIsTidy DEF IsRow, ColumnsOf, Tables
<1>2. CASE c.op = "UpdateOrg"
  <2>1. work = Update("orgs", the("org"), [the("org") EXCEPT !.tenant = c.tenant])
    BY <1>2 DEF Works, UpdateOrg
  <2>2. QED
    BY <2>1, UpdateIsTidy
<1>3. CASE c.op = "DeleteOrg"
  BY <1>3, DeleteIsTidy DEF Works, DeleteOrg, Tables
<1>4. CASE c.op = "AddFacility"
  <2>1. work = Insert("facilities", [id |-> w, org |-> c.org, name |-> c.name])
    BY <1>4 DEF Works, AddFacility
  <2>2. QED
    BY <2>1, InsertIsTidy DEF IsRow, ColumnsOf, Tables
<1>5. CASE c.op = "RenameFacility"
  <2>1. work = Update("facilities", the("facility").row,
                      [the("facility").row EXCEPT !.name = c.name])
    BY <1>5 DEF Works, RenameFacility
  <2>2. QED
    BY <2>1, UpdateIsTidy
<1>6. CASE c.op = "RemoveFacility"
  <2>1. PICK f : f = the("facility")
    OBVIOUS
  <2>2. work = Delete("facilities", {f.row})
                 \cup (Delete("permits", f.permits) \cup Delete("limits", f.limits))
    BY <1>6, <2>1 DEF Works, RemoveFacility
  <2>3. Tidy(Delete("limits", f.limits), w)
    BY DeleteIsTidy DEF Tables
  <2>4. Tidy(Delete("permits", f.permits) \cup Delete("limits", f.limits), w)
    BY <2>3, DeleteAndTidy DEF Tables
  <2>5. QED
    BY <2>2, <2>4, DeleteAndTidy DEF Tables
<1>7. CASE c.op = "AddPermit"
  <2>1. work = Insert("permits", [id |-> w, facility |-> c.facility,
                                  expires |-> c.expires, value |-> c.value])
    BY <1>7 DEF Works, AddPermit
  <2>2. QED
    BY <2>1, InsertIsTidy DEF IsRow, ColumnsOf, Tables
<1>8. CASE c.op = "RemovePermit"
  <2>1. \E p : work = Delete("permits", {p})
    BY <1>8 DEF Works, RemovePermit
  <2>2. QED
    BY <2>1, DeleteIsTidy DEF Tables
<1>9. ASSUME c.op \in {"AddLimit", "UpdateLimit"}, c.tons > 0
      PROVE  Tidy(Insert("limits", NewLimitRow(c, w)), w)
  BY <1>9, InsertIsTidy DEF NewLimitRow, IsRow, ColumnsOf, Tables
<1>10. CASE c.op = "AddLimit"
  <2>1. work = Insert("limits", NewLimitRow(c, w)) /\ ~(c.tons <= 0) /\ c.tons \in Int
    BY <1>10 DEF Works, AddLimit, MenuInv
  <2>2. QED
    BY <1>9, <1>10, <2>1
<1>11. CASE c.op = "UpdateLimit"
  <2>1. PICK l : work = Delete("limits", {l}) \cup Insert("limits", NewLimitRow(c, w))
    BY <1>11 DEF Works, UpdateLimit
  <2>2. ~(c.tons <= 0) /\ c.tons \in Int
    BY <1>11 DEF Works, UpdateLimit, MenuInv
  <2>3. Tidy(Insert("limits", NewLimitRow(c, w)), w)
    BY <1>9, <1>11, <2>2
  <2>4. QED
    BY <2>1, <2>3, DeleteAndTidy DEF Tables
<1>12. CASE c.op = "RemoveLimit"
  <2>1. \E l : work = Delete("limits", {l})
    BY <1>12 DEF Works, RemoveLimit
  <2>2. QED
    BY <2>1, DeleteIsTidy DEF Tables
<1>13. CASE c.op = "LogRecord"
  <2>1. work = Insert("records", [id |-> w, org |-> c.org, facility |-> c.facility, date |-> c.date,
                                  values |-> [i \in DOMAIN c.values |-> c.values[i].field]])
    BY <1>13 DEF Works, LogRecord
  <2>2. QED
    BY <2>1, InsertIsTidy DEF IsRow, ColumnsOf, Tables
<1>14. CASE c.op = "CreateField"
  <2>1. work = Insert("fields", [id |-> w, propertyName |-> c.propertyName,
                                 friendlyName |-> c.friendlyName,
                                 dataType |-> c.dataType, active |-> TRUE])
    BY <1>14 DEF Works, CreateField
  <2>2. QED
    BY <2>1, InsertIsTidy DEF IsRow, ColumnsOf, Tables
<1>15. CASE c.op = "UpdateField"
  <2>1. work = Update("fields", the("field"), [the("field") EXCEPT !.friendlyName = c.friendlyName,
                                                                  !.dataType = c.dataType])
    BY <1>15 DEF Works, UpdateField
  <2>2. QED
    BY <2>1, UpdateIsTidy
<1>16. CASE c.op \in {"RetireField", "ReactivateField"}
  <2>1. PICK active : work = Update("fields", the("field"), [the("field") EXCEPT !.active = active])
    BY <1>16 DEF Works, RetireField, ReactivateField
  <2>2. QED
    BY <2>1, UpdateIsTidy
<1>17. CASE c.op = "SeedCatalog"
  <2>1. work = UNION {Insert("fields", [id |-> <<w, s.propertyName>>, propertyName |-> s.propertyName,
                                        friendlyName |-> s.friendlyName, dataType |-> s.dataType,
                                        active |-> TRUE]) : s \in SeedFields}
    BY <1>17 DEF Works, SeedCatalog
  <2>2. \A u \in work : \E s \in SeedFields :
          u = [do |-> "insert", table |-> "fields", columns |-> {},
               row |-> [id |-> <<w, s.propertyName>>, propertyName |-> s.propertyName,
                        friendlyName |-> s.friendlyName, dataType |-> s.dataType, active |-> TRUE]]
    BY <2>1 DEF Insert
  <2>3. \A u \in work : /\ u.table = "fields" /\ u.do = "insert" /\ u.row.id \in NewIds(w)
                        /\ IsRow("fields", u.row)
    BY <2>2 DEF NewIds, IsRow, ColumnsOf
  <2>4. ASSUME NEW u \in work, NEW v \in work, u.row.id = v.row.id
        PROVE  u.row = v.row
    <3>1. PICK s \in SeedFields :
            u = [do |-> "insert", table |-> "fields", columns |-> {},
                 row |-> [id |-> <<w, s.propertyName>>, propertyName |-> s.propertyName,
                          friendlyName |-> s.friendlyName, dataType |-> s.dataType, active |-> TRUE]]
      BY <2>2
    <3>2. PICK r \in SeedFields :
            v = [do |-> "insert", table |-> "fields", columns |-> {},
                 row |-> [id |-> <<w, r.propertyName>>, propertyName |-> r.propertyName,
                          friendlyName |-> r.friendlyName, dataType |-> r.dataType, active |-> TRUE]]
      BY <2>2
    <3>3. s.propertyName = r.propertyName
      <4>1. <<w, s.propertyName>> = <<w, r.propertyName>>
        BY <2>4, <3>1, <3>2
      <4>2. QED
        BY <4>1
    <3>4. QED
      BY <3>1, <3>2, <3>3, SeedAssumption
  <2>5. QED
    BY <2>3, <2>4 DEF Tidy, Tables
<1>18. CASE c.op = "SetRange"
  <2>1. CASE seen["range"] = {}
    <3>1. work = Insert("ranges", [id |-> w, org |-> c.org, propertyName |-> c.propertyName,
                                   low |-> c.low, high |-> c.high])
      BY <1>18, <2>1 DEF Works, SetRange
    <3>2. QED
      BY <3>1, InsertIsTidy DEF IsRow, ColumnsOf, Tables
  <2>2. CASE seen["range"] # {}
    <3>1. PICK r : work = Update("ranges", r, [r EXCEPT !.low = c.low, !.high = c.high])
      BY <1>18, <2>2 DEF Works, SetRange
    <3>2. QED
      BY <3>1, UpdateIsTidy
  <2>3. QED
    BY <2>1, <2>2
<1>19. CASE c.op = "CreateTemplate"
  <2>1. work = Insert("templates", [id |-> w, name |-> c.name, rdl |-> c.rdl, updated |-> w])
    BY <1>19 DEF Works, CreateTemplate
  <2>2. QED
    BY <2>1, InsertIsTidy DEF IsRow, ColumnsOf, Tables
<1>20. CASE c.op = "UpdateTemplate"
  <2>1. work = Update("templates", the("template"),
                      [the("template") EXCEPT !.name = c.name, !.rdl = c.rdl, !.updated = w])
    BY <1>20 DEF Works, UpdateTemplate
  <2>2. QED
    BY <2>1, UpdateIsTidy
<1>21. CASE c.op = "DeleteTemplate"
  BY <1>21, DeleteIsTidy DEF Works, DeleteTemplate, Tables
<1>22. c.op \in Operations
  BY DEF MenuInv
<1>23. QED
  BY <1>1, <1>2, <1>3, <1>4, <1>5, <1>6, <1>7, <1>8, <1>10, <1>11, <1>12, <1>13, <1>14,
     <1>15, <1>16, <1>17, <1>18, <1>19, <1>20, <1>21, <1>22 DEF Operations

-----------------------------------------------------------------------------
(* The tables after a save                                                 *)

\* A row that is there after the statements was there, perhaps with other columns
\* but of the same id and org, or has been added.
LEMMA WrittenRow ==
  ASSUME NEW d, WellFormed(d), NEW w, NEW work, Tidy(work, w), NEW t \in Tables,
         NEW r \in Written(d, work, t)
  PROVE  \/ \E row \in d[t] :
              /\ r = Rewritten(row, Chosen(work, t, "update"))
              /\ r.id = row.id /\ IsRow(t, r)
              /\ t \in {"facilities", "records", "ranges"} => r.org = row.org
              /\ t \in {"permits", "limits", "records"} => r = row
              /\ \A s \in work : s.table = t /\ s.do = "delete" => s.row.id # row.id
         \/ \E s \in work : s.table = t /\ s.do = "insert" /\ r = s.row
<1>1. CASE \E s \in Chosen(work, t, "insert") : r = s.row
  BY <1>1 DEF Chosen
<1>2. ASSUME NEW row \in d[t], row.id \notin {s.row.id : s \in Chosen(work, t, "delete")},
             r = Rewritten(row, Chosen(work, t, "update"))
      PROVE  /\ r.id = row.id /\ IsRow(t, r)
             /\ t \in {"facilities", "records", "ranges"} => r.org = row.org
             /\ t \in {"permits", "limits", "records"} => r = row
             /\ \A s \in work : s.table = t /\ s.do = "delete" => s.row.id # row.id
  <2>1. IsRow(t, row)
    BY DEF WellFormed, IsRow
  <2>2. \A s \in Chosen(work, t, "update") :
          "id" \notin s.columns /\ "org" \notin s.columns
    BY DEF Tidy, Chosen
  <2>3. "id" \in ColumnsOf(t) /\ (t \in {"facilities", "records", "ranges"} => "org" \in ColumnsOf(t))
    BY DEF ColumnsOf, Tables
  <2>4. r.id = row.id /\ IsRow(t, r) /\ (t \in {"facilities", "records", "ranges"} => r.org = row.org)
    BY <1>2, <2>1, <2>2, <2>3, RewrittenRow
  <2>5. t \in {"permits", "limits", "records"} => Chosen(work, t, "update") = {}
    BY DEF Tidy, Chosen
  <2>6. t \in {"permits", "limits", "records"} => r = row
    BY <1>2, <2>1, <2>5, RewrittenRow
  <2>7. \A s \in work : s.table = t /\ s.do = "delete" => s.row.id # row.id
    BY <1>2 DEF Chosen
  <2>8. QED
    BY <2>4, <2>6, <2>7
<1>3. QED
  BY <1>1, <1>2 DEF Written

\* The rows after a save are among those.
LEMMA AfterIsWritten ==
  ASSUME NEW d, NEW work, NEW t \in Tables
  PROVE  After(d, work)[t] \subseteq Written(d, work, t)
BY AfterTables DEF Tables

\* Without a statement on it a table stays as it is written.
LEMMA WrittenKept ==
  ASSUME NEW d, WellFormed(d), NEW work, NEW t \in Tables, \A s \in work : s.table # t
  PROVE  Written(d, work, t) = d[t]
<1>1. \A kind : Chosen(work, t, kind) = {}
  BY DEF Chosen
<1>2. \A row \in d[t] : IsRow(t, row)
  BY DEF WellFormed, IsRow
<1>3. \A row \in d[t] : Rewritten(row, {}) = row
  BY <1>2, RewrittenRow
<1>4. QED
  BY <1>1, <1>3 DEF Written

\* So it does but for the rows that are added.
LEMMA WrittenInserted ==
  ASSUME NEW d, WellFormed(d), NEW t \in Tables, NEW row
  PROVE  Written(d, Insert(t, row), t) = d[t] \cup {row}
<1>1. PICK work : work = Insert(t, row)
  OBVIOUS
<1>2. Chosen(work, t, "update") = {} /\ Chosen(work, t, "delete") = {}
  BY <1>1 DEF Chosen, Insert
<1>3. {s.row : s \in Chosen(work, t, "insert")} = {row}
  <2>1. PICK x : x = [do |-> "insert", table |-> t, row |-> row, columns |-> {}]
    OBVIOUS
  <2>2. work = {x} /\ x.do = "insert" /\ x.table = t /\ x.row = row
    BY <1>1, <2>1 DEF Insert
  <2>3. Chosen(work, t, "insert") = {x}
    BY <2>2 DEF Chosen
  <2>4. QED
    BY <2>2, <2>3
<1>4. \A r \in d[t] : IsRow(t, r)
  BY DEF WellFormed, IsRow
<1>5. \A r \in d[t] : Rewritten(r, {}) = r
  BY <1>4, RewrittenRow
<1>6. QED
  BY <1>1, <1>2, <1>3, <1>5 DEF Written

\* Without updates a row stays unless it is deleted.
LEMMA WrittenStays ==
  ASSUME NEW d, WellFormed(d), NEW work, NEW t \in Tables,
         \A s \in work : s.table = t => s.do # "update",
         NEW row \in d[t], \A s \in work : s.table = t /\ s.do = "delete" => s.row.id # row.id
  PROVE  row \in Written(d, work, t)
<1>1. Chosen(work, t, "update") = {} /\ row.id \notin {s.row.id : s \in Chosen(work, t, "delete")}
  BY DEF Chosen
<1>2. IsRow(t, row)
  BY DEF WellFormed, IsRow
<1>3. Rewritten(row, {}) = row
  BY <1>2, RewrittenRow
<1>4. QED
  BY <1>1, <1>3 DEF Written

\* A row that is added is written.
LEMMA InsertedIsWritten ==
  ASSUME NEW d, NEW work, NEW s \in work, s.do = "insert"
  PROVE  s.row \in Written(d, work, s.table)
BY DEF Written, Chosen

\* No two rows get one id.
LEMMA IdsStayUnique ==
  ASSUME NEW d, WellFormed(d), NEW w, NEW work, Tidy(work, w), NEW t \in Tables,
         Ids(d[t]) \cap NewIds(w) = {},
         NEW r \in Written(d, work, t), NEW q \in Written(d, work, t), q.id = r.id
  PROVE  q = r
<1> DEFINE From(x) == \E row \in d[t] : x = Rewritten(row, Chosen(work, t, "update")) /\ x.id = row.id
           Added(x) == \E s \in work : s.table = t /\ s.do = "insert" /\ x = s.row
<1>1. (From(r) \/ Added(r)) /\ (From(q) \/ Added(q))
  BY WrittenRow
<1>2. CASE From(r) /\ From(q)
  BY <1>2 DEF WellFormed
<1>3. CASE Added(r) /\ Added(q)
  BY <1>3 DEF Tidy
<1>4. \A x : From(x) => x.id \in Ids(d[t])
  BY DEF Ids
<1>5. \A x : Added(x) => x.id \in NewIds(w)
  BY DEF Tidy
<1>6. QED
  BY <1>1, <1>2, <1>3, <1>4, <1>5

\* A save that the indexes admit leaves the database well-formed.
LEMMA SavedWellFormed ==
  ASSUME NEW d, WellFormed(d), NEW w, NEW work, Tidy(work, w), NEW e, e = After(d, work),
         KeysAreUnique(e), \A t \in Tables : Ids(d[t]) \cap NewIds(w) = {},
         \A s \in work : s.do = "insert" /\ s.table = "records" =>
           /\ s.row.facility \notin NewIds(w)
           /\ \A f \in d["facilities"] : f.id = s.row.facility => f.org = s.row.org
  PROVE  WellFormed(e)
<1>1. e = [t \in Tables |-> e[t]] /\ Cascaded(e) = e
  BY AfterTables, AfterIsCascaded
<1>2. \A t \in Tables : e[t] \subseteq Written(d, work, t)
  BY AfterIsWritten
<1>3. ASSUME NEW t \in Tables, NEW row \in e[t]
      PROVE  /\ row = [column \in ColumnsOf(t) |-> row[column]]
             /\ \A other \in e[t] : other.id = row.id => other = row
  <2>1. IsRow(t, row)
    BY <1>2, <1>3, WrittenRow DEF Tidy
  <2>2. \A other \in e[t] : other.id = row.id => other = row
    BY <1>2, <1>3, IdsStayUnique
  <2>3. QED
    BY <2>1, <2>2 DEF IsRow
<1>4. ASSUME NEW r \in e["records"]
      PROVE  \E f \in e["facilities"] : f.id = r.facility /\ f.org = r.org
  <2>1. PICK f \in e["facilities"] : f.id = r.facility
    BY <1>4, AfterTables DEF Ids
  <2>2. r \in Written(d, work, "records") /\ f \in Written(d, work, "facilities")
    BY <1>2, <1>4, <2>1 DEF Tables
  <2>3. \/ r \in d["records"]
        \/ \E s \in work : s.table = "records" /\ s.do = "insert" /\ r = s.row
    BY <2>2, WrittenRow DEF Tables
  <2>4. \/ \E g \in d["facilities"] : f.id = g.id /\ f.org = g.org
        \/ \E s \in work : s.table = "facilities" /\ s.do = "insert" /\ f = s.row
    BY <2>2, WrittenRow DEF Tables
  <2>5. (\E s \in work : s.table = "facilities" /\ s.do = "insert" /\ f = s.row)
          => f.id \in NewIds(w)
    BY DEF Tidy
  <2>6. CASE r \in d["records"]
    <3>1. PICK g \in d["facilities"] : g.id = r.facility /\ g.org = r.org
      BY <2>6 DEF WellFormed
    <3>2. f.id \notin NewIds(w)
      BY <2>1, <3>1 DEF Ids, Tables
    <3>3. f.org = r.org
      BY <2>1, <2>4, <2>5, <3>1, <3>2 DEF WellFormed, Tables
    <3>4. QED
      BY <2>1, <3>3
  <2>7. CASE \E s \in work : s.table = "records" /\ s.do = "insert" /\ r = s.row
    BY <2>1, <2>4, <2>5, <2>7
  <2>8. QED
    BY <2>3, <2>6, <2>7
<1>5. QED
  BY <1>1, <1>3, <1>4 DEF WellFormed

\* Who adds rows uses ids of its own.
LEMMA NewIdsAreUsed ==
  ASSUME NEW d, WellFormed(d), NEW w, NEW work, Tidy(work, w), NEW t \in Tables
  PROVE  Ids(After(d, work)[t]) \subseteq Ids(d[t]) \cup NewIds(w)
<1>1. \A r \in After(d, work)[t] : r.id \in Ids(d[t]) \cup NewIds(w)
  BY AfterIsWritten, WrittenRow DEF Tidy, Ids
<1>2. QED
  BY <1>1 DEF Ids

\* Limits are added only with more than zero tons, and never changed.
LEMMA PositiveStays ==
  ASSUME NEW d, WellFormed(d), NEW w, NEW work, Tidy(work, w), Positive(d["limits"])
  PROVE  Positive(After(d, work)["limits"])
<1>1. \A r \in After(d, work)["limits"] :
        r \in d["limits"] \/ \E s \in work : s.table = "limits" /\ s.do = "insert" /\ r = s.row
  BY AfterIsWritten, WrittenRow DEF Tables
<1>2. QED
  BY <1>1 DEF Positive, Tidy

-----------------------------------------------------------------------------
(* What a request has seen of its org stays of its org                     *)

\* Owners do not change.
LEMMA BelongsStays ==
  ASSUME WellFormed(db), NEW w \in Requests, Unended(w),
         NEW work, Tidy(work, w), db' = After(db, work),
         \A v \in Requests : Unended(v)' => Unended(v),
         NEW t \in {"facilities", "permits", "limits", "ranges"}, NEW column,
         column = IF t \in {"facilities", "ranges"} THEN "org" ELSE "facility",
         NEW id, NEW owner, Belongs(t, column, id, owner)
  PROVE  Belongs(t, column, id, owner)'
<1>1. id \notin NewIds(w) /\ \A v \in Requests : Unended(v)' => id \notin NewIds(v)
  BY DEF Belongs
<1>2. ASSUME NEW r \in db'[t], r.id = id
      PROVE  r[column] = owner
  <2>1. r \in Written(db, work, t) /\ t \in Tables
    BY <1>2, AfterIsWritten DEF Tables
  <2>2. ~ \E s \in work : s.table = t /\ s.do = "insert" /\ r = s.row
    BY <1>1, <1>2 DEF Tidy
  <2>3. \E row \in db[t] : row.id = id /\ r[column] = row[column]
    BY <1>2, <2>1, <2>2, WrittenRow
  <2>4. QED
    BY <2>3 DEF Belongs
<1>3. QED
  BY <1>1, <1>2 DEF Belongs

\* Nor does what a request has seen.
LEMMA SeenOwnersStay ==
  ASSUME WellFormed(db), NEW w \in Requests, Unended(w),
         NEW work, Tidy(work, w), db' = After(db, work),
         \A v \in Requests : Unended(v)' => Unended(v),
         NEW c, NEW seen, OwnersInv(c, seen)
  PROVE  OwnersInv(c, seen)'
<1>1. ASSUME "facility" \in DOMAIN seen
      PROVE  Belongs("facilities", "org", c.facility, c.org)'
  BY <1>1, BelongsStays DEF OwnersInv
<1>2. ASSUME "facility" \in DOMAIN seen, NEW x \in seen["facility"]
      PROVE  /\ "id" \in DOMAIN x.row /\ x.row.id = c.facility
             /\ \A p \in x.permits : Belongs("permits", "facility", p.id, c.facility)'
             /\ \A l \in x.limits : Belongs("limits", "facility", l.id, c.facility)'
  <2>1. \A p \in x.permits : Belongs("permits", "facility", p.id, c.facility)'
    BY <1>2, BelongsStays DEF OwnersInv
  <2>2. \A l \in x.limits : Belongs("limits", "facility", l.id, c.facility)'
    BY <1>2, BelongsStays DEF OwnersInv
  <2>3. QED
    BY <1>2, <2>1, <2>2 DEF OwnersInv
<1>3. ASSUME "range" \in DOMAIN seen, NEW r \in seen["range"]
      PROVE  "id" \in DOMAIN r /\ Belongs("ranges", "org", r.id, c.org)'
  BY <1>3, BelongsStays DEF OwnersInv
<1>4. QED
  BY <1>1, <1>2, <1>3 DEF OwnersInv

-----------------------------------------------------------------------------
(* When a save is admitted                                                 *)

RecordKeys(records) ==
  /\ \A r, s \in records : r # s => ~SameRecordKey(r, s)
  /\ \A r \in records : ~SameValueKey(r)
FieldKeys(fields) == \A f, g \in fields : f # g => ~SameFieldKey(f, g)
RangeKeys(ranges) == \A r, s \in ranges : r # s => ~SameRangeKey(r, s)

\* The indexes are those of three tables.
LEMMA KeysOfTables ==
  ASSUME NEW d
  PROVE  KeysAreUnique(d) <=>
           RecordKeys(d["records"]) /\ FieldKeys(d["fields"]) /\ RangeKeys(d["ranges"])
BY DEF KeysAreUnique, RecordKeys, FieldKeys, RangeKeys

\* Fewer records have no more keys in common, and other tables none.
LEMMA KeysStay ==
  ASSUME NEW d, WellFormed(d), NEW w, NEW work, Tidy(work, w)
  PROVE  /\ (\A s \in work : s.table # "records" \/ s.do # "insert")
              => RecordKeys(After(d, work)["records"])
         /\ (\A s \in work : s.table # "fields") => FieldKeys(After(d, work)["fields"])
         /\ (\A s \in work : s.table # "ranges") => RangeKeys(After(d, work)["ranges"])
<1>1. RecordKeys(d["records"]) /\ FieldKeys(d["fields"]) /\ RangeKeys(d["ranges"])
  BY KeysOfTables DEF WellFormed
<1>2. ASSUME \A s \in work : s.table # "records" \/ s.do # "insert"
      PROVE  After(d, work)["records"] \subseteq d["records"]
  BY <1>2, AfterIsWritten, WrittenRow DEF Tables
<1>3. \A t \in {"fields", "ranges"} :
        (\A s \in work : s.table # t) => After(d, work)[t] = d[t]
  BY AfterTables, WrittenKept DEF Tables
<1>4. (\A s \in work : s.table # "records" \/ s.do # "insert")
        => RecordKeys(After(d, work)["records"])
  BY <1>1, <1>2 DEF RecordKeys
<1>5. QED
  BY <1>1, <1>3, <1>4

\* Rows whose owner stays stay.
LEMMA OwnersRemain ==
  ASSUME NEW d, WellFormed(d), NEW work, \A s \in work : s.table \notin {"orgs", "facilities"}
  PROVE  After(d, work)["orgs"] = d["orgs"] /\ After(d, work)["facilities"] = d["facilities"]
<1>1. /\ After(d, work)["orgs"] = Written(d, work, "orgs")
      /\ After(d, work)["facilities"] = {f \in Written(d, work, "facilities") :
                                           f.org \in Ids(Written(d, work, "orgs"))}
  BY AfterTables
<1>2. Written(d, work, "orgs") = d["orgs"] /\ Written(d, work, "facilities") = d["facilities"]
  BY WrittenKept DEF Tables
<1>3. \A f \in d["facilities"] : f.org \in Ids(d["orgs"])
  BY OwnersStay DEF WellFormed
<1>4. QED
  BY <1>1, <1>2, <1>3

\* What is admitted: the rows to change are there, those added have their owner,
\* and the indexes are kept.
LEMMA Admitted ==
  ASSUME NEW d, WellFormed(d), NEW w, NEW work, Tidy(work, w), KeysAreUnique(After(d, work)),
         \A s \in work : s.do # "insert" => s.row.id \in Ids(d[s.table]),
         \A s \in work : s.do = "insert" /\ s.table = "facilities" =>
           s.row.org \in Ids(d["orgs"]) /\ \A u \in work : u.table # "orgs",
         \A s \in work : s.do = "insert" /\ s.table \in {"permits", "limits", "records"} =>
           /\ s.row.facility \in Ids(d["facilities"])
           /\ \A u \in work : u.table \notin {"orgs", "facilities"}
  PROVE  Commits(d, work)
<1>1. ASSUME NEW s \in work, s.do = "insert"
      PROVE  s.row \in After(d, work)[s.table]
  <2>1. s.row \in Written(d, work, s.table)
    BY <1>1, InsertedIsWritten
  <2>2. CASE s.table \in {"orgs", "fields", "ranges", "templates"}
    BY <2>1, <2>2, AfterTables
  <2>3. CASE s.table = "facilities"
    <3>1. Written(d, work, "orgs") = d["orgs"]
      BY <1>1, <2>3, WrittenKept DEF Tables
    <3>2. QED
      BY <1>1, <2>1, <2>3, <3>1, AfterTables
  <2>4. CASE s.table \in {"permits", "limits", "records"}
    <3>1. After(d, work)["facilities"] = d["facilities"]
      BY <1>1, <2>4, OwnersRemain
    <3>2. QED
      BY <1>1, <2>1, <2>4, <3>1, AfterTables
  <2>5. QED
    BY <2>2, <2>3, <2>4 DEF Tidy, Tables
<1>2. QED
  BY <1>1 DEF Commits

\* An update of a row that is there replaces it.
LEMMA UpdatedRows ==
  ASSUME NEW d, WellFormed(d), NEW t \in Tables, NEW old \in d[t], NEW new, IsRow(t, new),
         new.id = old.id
  PROVE  Written(d, Update(t, old, new), t) = (d[t] \ {old}) \cup {new}
<1>1. PICK work : work = Update(t, old, new)
  OBVIOUS
<1>2. IsRow(t, old) /\ DOMAIN old = ColumnsOf(t) /\ DOMAIN new = ColumnsOf(t)
  BY DEF WellFormed, IsRow
<1>3. CASE old = new
  <2>1. work = {}
    BY <1>1, <1>3 DEF Update
  <2>2. Written(d, work, t) = d[t]
    BY <2>1, WrittenKept
  <2>3. QED
    BY <1>1, <1>3, <2>2
<1>4. CASE old # new
  <2>1. PICK s : s = [do |-> "update", table |-> t, row |-> new,
                      columns |-> {c \in DOMAIN old : old[c] # new[c]}]
    OBVIOUS
  <2>2. work = {s}
    BY <1>1, <1>4, <2>1 DEF Update
  <2>3. /\ Chosen(work, t, "update") = {s}
        /\ Chosen(work, t, "delete") = {} /\ Chosen(work, t, "insert") = {}
    BY <2>1, <2>2 DEF Chosen
  <2>4. Rewritten(old, {s}) = new
    <3>1. Rewritten(old, {s}) =
            [c \in ColumnsOf(t) |-> IF c \in s.columns THEN new[c] ELSE old[c]]
      BY <1>2, <2>1 DEF Rewritten
    <3>2. \A c \in ColumnsOf(t) : c \notin s.columns => old[c] = new[c]
      BY <1>2, <2>1
    <3>3. Rewritten(old, {s}) = [c \in ColumnsOf(t) |-> new[c]]
      BY <3>1, <3>2
    <3>4. QED
      BY <3>3 DEF IsRow
  <2>5. \A row \in d[t] : row # old => row.id # old.id
    BY DEF WellFormed
  <2>6. \A row \in d[t] \ {old} : Rewritten(row, {s}) = row
    <3>1. ASSUME NEW row \in d[t] \ {old} PROVE Rewritten(row, {s}) = row
      <4>1. IsRow(t, row) /\ \A u \in {s} : u.row.id # row.id
        BY <2>1, <2>5 DEF WellFormed, IsRow
      <4>2. QED
        BY <4>1, RewrittenRow
    <3>2. QED
      BY <3>1
  <2>7. Written(d, work, t) = {Rewritten(row, {s}) : row \in d[t]}
    BY <2>3 DEF Written
  <2>8. QED
    BY <1>1, <2>4, <2>6, <2>7
<1>5. QED
  BY <1>3, <1>4

-----------------------------------------------------------------------------
(* Whoever has seen the present is admitted                                *)

\* A handler has made all its queries, none settled it, and they tell how things are.
UpToDate(d, c, seen) ==
  \A i \in 1 .. Len(Queries(c)) :
    LET q == Queries(c)[i] IN seen[q] = Result(d, c, seen, q) /\ ~Settles(c, q, seen[q])

FacilityOps == {"RenameFacility", "RemoveFacility", "AddPermit", "RemovePermit",
                "AddLimit", "UpdateLimit", "RemoveLimit"}

PermitsOf(d, id) == {p \in d["permits"] : p.facility = id}
LimitsOf(d, id) == {l \in d["limits"] : l.facility = id}

IsFacility(d, c, f) ==
  /\ f.row \in d["facilities"] /\ f.row.id = c.facility /\ f.row.org = c.org
  /\ f.permits = PermitsOf(d, c.facility) /\ f.limits = LimitsOf(d, c.facility)

\* What the query for a facility finds.
LEMMA FoundFacility ==
  ASSUME NEW d, NEW c, NEW f \in Facilities(d, c)
  PROVE  IsFacility(d, c, f)
<1>1. PICK r \in d["facilities"] :
        /\ r.org = c.org /\ r.id = c.facility
        /\ f = [row |-> r, permits |-> PermitsOf(d, r.id), limits |-> LimitsOf(d, r.id)]
  BY DEF Facilities, PermitsOf, LimitsOf
<1>2. f.row = r /\ f.permits = PermitsOf(d, r.id) /\ f.limits = LimitsOf(d, r.id)
  BY <1>1
<1>3. QED
  BY <1>1, <1>2 DEF IsFacility

\* The facility it has found is there, with its permits and limits.
LEMMA TheFacility ==
  ASSUME NEW d, NEW c, c.op \in FacilityOps \cup {"LogRecord"}, NEW seen, UpToDate(d, c, seen)
  PROVE  seen["facility"] # {} /\ \A f \in seen["facility"] : IsFacility(d, c, f)
<1>0. Queries(c) \in {<<"facility">>, <<"facility", "sameDay", "catalog">>}
  <2>1. CASE c.op = "LogRecord"
    BY <2>1 DEF Queries
  <2>2. CASE c.op \in FacilityOps
    BY <2>2 DEF FacilityOps, Queries
  <2>3. QED
    BY <2>1, <2>2
<1>1. 1 \in 1 .. Len(Queries(c)) /\ Queries(c)[1] = "facility"
  BY <1>0
<1>2. seen["facility"] = Facilities(d, c) /\ seen["facility"] # {}
  BY <1>1 DEF UpToDate, Result, Settles
<1>3. QED
  BY <1>2, FoundFacility

\* The org it has found is there.
LEMMA TheOrg ==
  ASSUME NEW d, NEW c, c.op \in {"AddFacility", "UpdateOrg", "DeleteOrg"}, NEW seen,
         UpToDate(d, c, seen), NEW o, o = CHOOSE x \in seen["org"] : TRUE
  PROVE  o \in d["orgs"] /\ o.id = c.org
<1>0. Queries(c) = <<"org">>
  BY DEF Queries
<1>1. 1 \in 1 .. Len(Queries(c)) /\ Queries(c)[1] = "org"
  BY <1>0
<1>2. seen["org"] = Orgs(d, c) /\ seen["org"] # {}
  BY <1>1 DEF UpToDate, Result, Settles
<1>3. QED
  BY <1>2 DEF Orgs

\* The field it has found is there.
LEMMA TheField ==
  ASSUME NEW d, NEW c, c.op \in {"UpdateField", "RetireField", "ReactivateField"}, NEW seen,
         UpToDate(d, c, seen), NEW f, f = CHOOSE x \in seen["field"] : TRUE
  PROVE  f \in d["fields"] /\ f.id = c.field /\ f \in seen["field"]
<1>0. Queries(c) \in {<<"field">>, <<"field", "clash">>, <<"field", "oldLabel">>}
  BY DEF Queries
<1>1. 1 \in 1 .. Len(Queries(c)) /\ Queries(c)[1] = "field"
  BY <1>0
<1>2. seen["field"] = FieldById(d, c) /\ seen["field"] # {}
  BY <1>1 DEF UpToDate, Result, Settles
<1>3. QED
  BY <1>2 DEF FieldById

\* The template it has found is there.
LEMMA TheTemplate ==
  ASSUME NEW d, NEW c, c.op \in {"UpdateTemplate", "DeleteTemplate"}, NEW seen,
         UpToDate(d, c, seen), NEW f, f = CHOOSE x \in seen["template"] : TRUE
  PROVE  f \in d["templates"] /\ f.id = c.template
<1>1. 1 \in 1 .. Len(Queries(c)) /\ Queries(c)[1] = "template"
  BY DEF Queries
<1>2. seen["template"] = Templates(d, c) /\ seen["template"] # {}
  BY <1>1 DEF UpToDate, Result, Settles
<1>3. QED
  BY <1>2 DEF Templates

\* Deleting rows that are there is admitted.
LEMMA DeletesCommit ==
  ASSUME NEW d, WellFormed(d), NEW w, NEW work, Tidy(work, w),
         \A s \in work : s.do = "delete" /\ s.table \notin {"fields", "ranges"}
                           /\ s.row \in d[s.table]
  PROVE  Commits(d, work)
<1>1. KeysAreUnique(After(d, work))
  BY KeysStay, KeysOfTables
<1>2. \A s \in work : s.row.id \in Ids(d[s.table])
  BY DEF Ids
<1>3. QED
  BY <1>1, <1>2, Admitted

\* So is adding a row with an owner to a table without indexes.
LEMMA InsertCommits ==
  ASSUME NEW d, WellFormed(d), NEW w, NEW t \in Tables, NEW row, Tidy(Insert(t, row), w),
         t \in {"records", "fields", "ranges"} => KeysAreUnique(After(d, Insert(t, row))),
         t = "facilities" => row.org \in Ids(d["orgs"]),
         t \in {"permits", "limits", "records"} => row.facility \in Ids(d["facilities"])
  PROVE  Commits(d, Insert(t, row))
<1>1. PICK work : work = Insert(t, row)
  OBVIOUS
<1>2. \A s \in work : s.do = "insert" /\ s.table = t /\ s.row = row
  BY <1>1 DEF Insert
<1>3. KeysAreUnique(After(d, work))
  BY <1>1, <1>2, KeysStay, KeysOfTables
<1>4. Tidy(work, w)
  BY <1>1
<1>5. Commits(d, work)
  BY <1>2, <1>3, <1>4, Admitted
<1>6. QED
  BY <1>1, <1>5

\* So is changing a row that is there where no index is.
LEMMA UpdateCommits ==
  ASSUME NEW d, WellFormed(d), NEW w, NEW t \in Tables, NEW old \in d[t], NEW new,
         new.id = old.id, Tidy(Update(t, old, new), w),
         t \in {"records", "fields", "ranges"} => KeysAreUnique(After(d, Update(t, old, new)))
  PROVE  Commits(d, Update(t, old, new))
<1>1. PICK work : work = Update(t, old, new)
  OBVIOUS
<1>2. \A s \in work : s.do = "update" /\ s.table = t /\ s.row = new
  BY <1>1 DEF Update
<1>3. KeysAreUnique(After(d, work))
  BY <1>1, <1>2, KeysStay, KeysOfTables
<1>4. Tidy(work, w)
  BY <1>1
<1>5. \A s \in work : s.row.id \in Ids(d[s.table])
  BY <1>2 DEF Ids
<1>6. Commits(d, work)
  BY <1>2, <1>3, <1>4, <1>5, Admitted
<1>7. QED
  BY <1>1, <1>6

\* The indexes on fields admit a new field, or another version of one, that has no
\* key in common with the others.
LEMMA FieldChangeKeys ==
  ASSUME NEW d, WellFormed(d), NEW w, NEW work, Tidy(work, w), \A s \in work : s.table = "fields",
         NEW fields, fields \subseteq d["fields"], NEW new,
         Written(d, work, "fields") = fields \cup {new},
         \A g \in fields : ~SameFieldKey(new, g)
  PROVE  KeysAreUnique(After(d, work))
<1>1. RecordKeys(After(d, work)["records"]) /\ RangeKeys(After(d, work)["ranges"])
  BY KeysStay
<1>2. After(d, work)["fields"] = fields \cup {new}
  BY AfterTables
<1>3. FieldKeys(fields)
  BY KeysOfTables DEF WellFormed, FieldKeys
<1>4. \A f, g : SameFieldKey(f, g) => SameFieldKey(g, f)
  BY DEF SameFieldKey
<1>5. FieldKeys(fields \cup {new})
  BY <1>3, <1>4 DEF FieldKeys
<1>6. QED
  BY <1>1, <1>2, <1>5, KeysOfTables

\* A field that is new to the catalog, or that differs in what it may, is admitted.
LEMMA FieldsCommit ==
  ASSUME NEW d, WellFormed(d), NEW c, c.op \in {"CreateField", "UpdateField", "RetireField",
                                                "ReactivateField", "SeedCatalog"},
         NEW w, NEW seen, UpToDate(d, c, seen), NEW work \in Works(c, seen, w), Tidy(work, w)
  PROVE  Commits(d, work)
<1>1. CASE c.op = "CreateField"
  <2>1. PICK row : row = [id |-> w, propertyName |-> c.propertyName, friendlyName |-> c.friendlyName,
                          dataType |-> c.dataType, active |-> TRUE]
    OBVIOUS
  <2>2. work = Insert("fields", row)
    BY <1>1, <2>1 DEF Works, CreateField
  <2>3. Queries(c) = <<"sameName", "sameLabel">>
    BY <1>1 DEF Queries
  <2>4. FieldByName(d, c) = {} /\ ActiveByLabel(d, c.friendlyName) = {}
    <3>1. 1 \in 1 .. Len(Queries(c)) /\ Queries(c)[1] = "sameName"
          /\ 2 \in 1 .. Len(Queries(c)) /\ Queries(c)[2] = "sameLabel"
      BY <2>3
    <3>2. QED
      BY <3>1 DEF UpToDate, Result, Settles
  <2>5. \A g \in d["fields"] : ~SameFieldKey(row, g)
    BY <2>1, <2>4 DEF FieldByName, ActiveByLabel, SameFieldKey
  <2>6. Written(d, work, "fields") = d["fields"] \cup {row}
    BY <2>2, WrittenInserted DEF Tables
  <2>7. \A s \in work : s.table = "fields"
    BY <2>2 DEF Insert
  <2>8. KeysAreUnique(After(d, work))
    BY <2>5, <2>6, <2>7, FieldChangeKeys
  <2>9. QED
    BY <2>2, <2>8, InsertCommits DEF Tables
<1>2. CASE c.op \in {"UpdateField", "RetireField", "ReactivateField"}
  <2>1. PICK old : old = CHOOSE x \in seen["field"] : TRUE
    OBVIOUS
  <2>2. old \in d["fields"] /\ old.id = c.field /\ old \in seen["field"]
    BY <1>2, <2>1, TheField
  <2>3. DOMAIN old = {"id", "propertyName", "friendlyName", "dataType", "active"}
    BY <2>2 DEF WellFormed, Tables, ColumnsOf
  <2>4. PICK new : /\ work = Update("fields", old, new)
                   /\ IsRow("fields", new) /\ new.id = old.id
                   /\ new.propertyName = old.propertyName
                   /\ \A g \in d["fields"] \ {old} :
                        new.active /\ g.active => new.friendlyName # g.friendlyName
    <3>1. CASE c.op = "UpdateField"
      <4>1. PICK new : new = [old EXCEPT !.friendlyName = c.friendlyName, !.dataType = c.dataType]
        OBVIOUS
      <4>2. work = Update("fields", old, new)
        BY <2>1, <3>1, <4>1 DEF Works, UpdateField
      <4>3. /\ IsRow("fields", new) /\ new.id = old.id /\ new.propertyName = old.propertyName
            /\ new.friendlyName = c.friendlyName
        BY <2>3, <4>1 DEF IsRow, ColumnsOf
      <4>4. \A g \in ActiveByLabel(d, c.friendlyName) : g.id = c.field
        <5>1. Queries(c) = <<"field", "clash">>
          BY <3>1 DEF Queries
        <5>2. 2 \in 1 .. Len(Queries(c)) /\ Queries(c)[2] = "clash"
          BY <5>1
        <5>3. QED
          BY <5>2 DEF UpToDate, Result, Settles
      <4>5. \A g \in d["fields"] \ {old} : new.active /\ g.active => new.friendlyName # g.friendlyName
        BY <2>2, <4>3, <4>4 DEF ActiveByLabel, WellFormed, Tables
      <4>6. QED
        BY <4>2, <4>3, <4>5
    <3>2. CASE c.op = "RetireField"
      <4>1. PICK new : new = [old EXCEPT !.active = FALSE]
        OBVIOUS
      <4>2. work = Update("fields", old, new)
        BY <2>1, <3>2, <4>1 DEF Works, RetireField
      <4>3. /\ IsRow("fields", new) /\ new.id = old.id /\ new.propertyName = old.propertyName
            /\ new.active = FALSE
        BY <2>3, <4>1 DEF IsRow, ColumnsOf
      <4>4. QED
        BY <4>2, <4>3
    <3>3. CASE c.op = "ReactivateField"
      <4>1. PICK new : new = [old EXCEPT !.active = TRUE]
        OBVIOUS
      <4>2. work = Update("fields", old, new)
        BY <2>1, <3>3, <4>1 DEF Works, ReactivateField
      <4>3. /\ IsRow("fields", new) /\ new.id = old.id /\ new.propertyName = old.propertyName
            /\ new.friendlyName = old.friendlyName
        BY <2>3, <4>1 DEF IsRow, ColumnsOf
      <4>4. \A g \in ActiveByLabel(d, old.friendlyName) : g.id = c.field
        <5>1. Queries(c) = <<"field", "oldLabel">>
          BY <3>3 DEF Queries
        <5>2. 2 \in 1 .. Len(Queries(c)) /\ Queries(c)[2] = "oldLabel"
          BY <5>1
        <5>3. \A g \in UNION {ActiveByLabel(d, f.friendlyName) : f \in seen["field"]} : g.id = c.field
          BY <5>2 DEF UpToDate, Result, Settles
        <5>4. QED
          BY <2>2, <5>3
      <4>5. \A g \in d["fields"] \ {old} : new.active /\ g.active => new.friendlyName # g.friendlyName
        BY <2>2, <4>3, <4>4 DEF ActiveByLabel, WellFormed, Tables
      <4>6. QED
        BY <4>2, <4>3, <4>5
    <3>4. QED
      BY <1>2, <3>1, <3>2, <3>3
  <2>5. Written(d, work, "fields") = (d["fields"] \ {old}) \cup {new}
    BY <2>2, <2>4, UpdatedRows DEF Tables
  <2>6. \A g \in d["fields"] \ {old} : ~SameFieldKey(new, g)
    <3>1. FieldKeys(d["fields"])
      BY KeysOfTables DEF WellFormed
    <3>2. QED
      BY <2>2, <2>4, <3>1 DEF FieldKeys, SameFieldKey
  <2>7. \A s \in work : s.table = "fields"
    BY <2>4 DEF Update
  <2>8. KeysAreUnique(After(d, work))
    <3>1. PICK fields : fields = d["fields"] \ {old}
      OBVIOUS
    <3>2. fields \subseteq d["fields"] /\ Written(d, work, "fields") = fields \cup {new}
          /\ \A g \in fields : ~SameFieldKey(new, g)
      BY <2>5, <2>6, <3>1
    <3>3. QED
      BY <2>7, <3>2, FieldChangeKeys
  <2>9. QED
    BY <2>2, <2>4, <2>8, UpdateCommits DEF Tables
<1>3. CASE c.op = "SeedCatalog"
  <2>1. d["fields"] = {}
    <3>1. Queries(c) = <<"catalog">>
      BY <1>3 DEF Queries
    <3>2. 1 \in 1 .. Len(Queries(c)) /\ Queries(c)[1] = "catalog"
      BY <3>1
    <3>3. QED
      BY <1>3, <3>2 DEF UpToDate, Result, Settles
  <2>2. work = UNION {Insert("fields", [id |-> <<w, s.propertyName>>, propertyName |-> s.propertyName,
                                        friendlyName |-> s.friendlyName, dataType |-> s.dataType,
                                        active |-> TRUE]) : s \in SeedFields}
    BY <1>3 DEF Works, SeedCatalog
  <2>3. \A u \in work : \E s \in SeedFields :
          u = [do |-> "insert", table |-> "fields", columns |-> {},
               row |-> [id |-> <<w, s.propertyName>>, propertyName |-> s.propertyName,
                        friendlyName |-> s.friendlyName, dataType |-> s.dataType, active |-> TRUE]]
    BY <2>2 DEF Insert
  <2>4. \A u \in work : u.do = "insert" /\ u.table = "fields"
    BY <2>3
  <2>5. After(d, work)["fields"] \subseteq {u.row : u \in work}
    <3>1. \A r \in Written(d, work, "fields") : \E u \in work : r = u.row
      BY <2>1 DEF Written, Chosen
    <3>2. QED
      BY <3>1, AfterIsWritten DEF Tables
  <2>6. ASSUME NEW f \in After(d, work)["fields"], NEW g \in After(d, work)["fields"],
               SameFieldKey(f, g)
        PROVE  f = g
    <3>1. PICK s \in SeedFields :
            f = [id |-> <<w, s.propertyName>>, propertyName |-> s.propertyName,
                 friendlyName |-> s.friendlyName, dataType |-> s.dataType, active |-> TRUE]
      BY <2>3, <2>5
    <3>2. PICK r \in SeedFields :
            g = [id |-> <<w, r.propertyName>>, propertyName |-> r.propertyName,
                 friendlyName |-> r.friendlyName, dataType |-> r.dataType, active |-> TRUE]
      BY <2>3, <2>5
    <3>3. s.propertyName = r.propertyName \/ s.friendlyName = r.friendlyName
      BY <2>6, <3>1, <3>2 DEF SameFieldKey
    <3>4. QED
      BY <3>1, <3>2, <3>3, SeedAssumption
  <2>7. FieldKeys(After(d, work)["fields"])
    BY <2>6 DEF FieldKeys
  <2>8. KeysAreUnique(After(d, work))
    BY <2>4, <2>7, KeysStay, KeysOfTables
  <2>9. QED
    BY <2>4, <2>8, Admitted
<1>4. QED
  BY <1>1, <1>2, <1>3

\* So is the record of a day that has none.
LEMMA RecordCommits ==
  ASSUME NEW d, WellFormed(d), NEW c, c.op = "LogRecord",
         NEW w, NEW seen, UpToDate(d, c, seen), NEW work \in Works(c, seen, w), Tidy(work, w)
  PROVE  Commits(d, work)
<1>1. PICK row : row = [id |-> w, org |-> c.org, facility |-> c.facility, date |-> c.date,
                        values |-> [i \in DOMAIN c.values |-> c.values[i].field]]
  OBVIOUS
<1>2. work = Insert("records", row) /\ ~SameValueKey(row)
  BY <1>1 DEF Works, LogRecord
<1>3. Queries(c) = <<"facility", "sameDay", "catalog">>
  BY DEF Queries
<1>4. SameDay(d, c) = {}
  <2>1. 2 \in 1 .. Len(Queries(c)) /\ Queries(c)[2] = "sameDay"
    BY <1>3
  <2>2. QED
    BY <2>1 DEF UpToDate, Result, Settles
<1>5. PICK f : IsFacility(d, c, f)
  <2>1. c.op \in FacilityOps \cup {"LogRecord"}
    OBVIOUS
  <2>2. QED
    BY <2>1, TheFacility
<1>6. f.row \in d["facilities"] /\ f.row.id = c.facility /\ f.row.org = c.org
  BY <1>5 DEF IsFacility
<1>7. \A r \in d["records"] : ~SameRecordKey(row, r) /\ ~SameRecordKey(r, row)
  <2>1. ASSUME NEW r \in d["records"], r.facility = c.facility, r.date = c.date
        PROVE  FALSE
    <3>1. r.org = c.org
      BY <1>6, <2>1 DEF WellFormed, Tables
    <3>2. QED
      BY <1>4, <2>1, <3>1 DEF SameDay
  <2>2. QED
    BY <1>1, <2>1 DEF SameRecordKey
<1>8. After(d, work)["records"] \subseteq d["records"] \cup {row}
  BY <1>2, AfterIsWritten, WrittenInserted DEF Tables
<1>9. RecordKeys(After(d, work)["records"])
  <2>1. RecordKeys(d["records"])
    BY KeysOfTables DEF WellFormed
  <2>2. QED
    BY <1>2, <1>7, <1>8, <2>1 DEF RecordKeys
<1>10. \A s \in work : s.table = "records"
  BY <1>2 DEF Insert
<1>11. KeysAreUnique(After(d, work))
  BY <1>9, <1>10, KeysStay, KeysOfTables
<1>12. row.facility \in Ids(d["facilities"])
  BY <1>1, <1>6 DEF Ids
<1>13. QED
  BY <1>2, <1>11, <1>12, InsertCommits DEF Tables

\* So is the first range of a field, or another version of the one there is.
LEMMA RangeCommits ==
  ASSUME NEW d, WellFormed(d), NEW c, c.op = "SetRange",
         NEW w, NEW seen, UpToDate(d, c, seen), NEW work \in Works(c, seen, w), Tidy(work, w)
  PROVE  Commits(d, work)
<1>1. seen["range"] = RangeOf(d, c)
  <2>1. Queries(c) = <<"named", "range">>
    BY DEF Queries
  <2>2. 2 \in 1 .. Len(Queries(c)) /\ Queries(c)[2] = "range"
    BY <2>1
  <2>3. QED
    BY <2>2 DEF UpToDate, Result
<1>2. RangeKeys(d["ranges"])
  BY KeysOfTables DEF WellFormed
<1>3. CASE seen["range"] = {}
  <2>1. PICK row : row = [id |-> w, org |-> c.org, propertyName |-> c.propertyName,
                          low |-> c.low, high |-> c.high]
    OBVIOUS
  <2>2. work = Insert("ranges", row)
    BY <1>3, <2>1 DEF Works, SetRange
  <2>3. After(d, work)["ranges"] = d["ranges"] \cup {row}
    BY <2>2, AfterTables, WrittenInserted DEF Tables
  <2>4. \A r \in d["ranges"] : ~SameRangeKey(row, r) /\ ~SameRangeKey(r, row)
    BY <1>1, <1>3, <2>1 DEF RangeOf, SameRangeKey
  <2>5. RangeKeys(After(d, work)["ranges"])
    BY <1>2, <2>3, <2>4 DEF RangeKeys
  <2>6. \A s \in work : s.table = "ranges"
    BY <2>2 DEF Insert
  <2>7. KeysAreUnique(After(d, work))
    BY <2>5, <2>6, KeysStay, KeysOfTables
  <2>8. QED
    BY <2>2, <2>7, InsertCommits DEF Tables
<1>4. CASE seen["range"] # {}
  <2>1. PICK old \in RangeOf(d, c) :
          work = Update("ranges", old, [old EXCEPT !.low = c.low, !.high = c.high])
    BY <1>1, <1>4 DEF Works, SetRange
  <2>2. PICK new : new = [old EXCEPT !.low = c.low, !.high = c.high]
    OBVIOUS
  <2>3. old \in d["ranges"] /\ DOMAIN old = {"id", "org", "propertyName", "low", "high"}
    BY <2>1 DEF RangeOf, WellFormed, Tables, ColumnsOf
  <2>4. /\ IsRow("ranges", new) /\ new.id = old.id
        /\ new.org = old.org /\ new.propertyName = old.propertyName
    BY <2>2, <2>3 DEF IsRow, ColumnsOf
  <2>5. After(d, work)["ranges"] = (d["ranges"] \ {old}) \cup {new}
    <3>1. Written(d, work, "ranges") = (d["ranges"] \ {old}) \cup {new}
      <4>1. work = Update("ranges", old, new)
        BY <2>1, <2>2
      <4>2. QED
        BY <2>3, <2>4, <4>1, UpdatedRows DEF Tables
    <3>2. QED
      BY <3>1, AfterTables
  <2>6. RangeKeys(After(d, work)["ranges"])
    BY <1>2, <2>3, <2>4, <2>5 DEF RangeKeys, SameRangeKey
  <2>7. \A s \in work : s.table = "ranges"
    BY <2>1 DEF Update
  <2>8. KeysAreUnique(After(d, work))
    BY <2>6, <2>7, KeysStay, KeysOfTables
  <2>9. QED
    BY <2>1, <2>2, <2>3, <2>4, <2>8, UpdateCommits DEF Tables
<1>5. QED
  BY <1>3, <1>4

\* What a handler asks for that is up to date is admitted.
LEMMA UpToDateCommits ==
  ASSUME MenuInv, NEW d, WellFormed(d), NEW c \in menu, NEW w, NEW seen, UpToDate(d, c, seen),
         NEW work \in Works(c, seen, w), Tidy(work, w)
  PROVE  Commits(d, work)
<1> DEFINE the(q) == CHOOSE x \in seen[q] : TRUE
<1>1. CASE c.op = "CreateOrg"
  <2>1. work = Insert("orgs", [id |-> w, tenant |-> 0])
    BY <1>1 DEF Works, CreateOrg
  <2>2. QED
    BY <2>1, InsertCommits DEF Tables
<1>2. CASE c.op \in {"UpdateOrg", "DeleteOrg", "AddFacility"}
  <2>1. PICK o : o = the("org")
    OBVIOUS
  <2>2. o \in d["orgs"] /\ o.id = c.org
    BY <1>2, <2>1, TheOrg
  <2>3. CASE c.op = "UpdateOrg"
    <3>1. work = Update("orgs", o, [o EXCEPT !.tenant = c.tenant])
      BY <2>1, <2>3 DEF Works, UpdateOrg
    <3>2. PICK new : new = [o EXCEPT !.tenant = c.tenant]
      OBVIOUS
    <3>3. DOMAIN o = {"id", "tenant"}
      BY <2>2 DEF WellFormed, ColumnsOf, Tables
    <3>4. new.id = o.id
      BY <3>2, <3>3
    <3>5. QED
      BY <2>2, <3>1, <3>2, <3>4, UpdateCommits DEF Tables
  <2>4. CASE c.op = "DeleteOrg"
    <3>1. work = Delete("orgs", {o})
      BY <2>1, <2>4 DEF Works, DeleteOrg
    <3>2. \A s \in work : s.do = "delete" /\ s.table = "orgs" /\ s.row \in d["orgs"]
      BY <2>2, <3>1 DEF Delete
    <3>3. QED
      BY <3>2, DeletesCommit
  <2>5. CASE c.op = "AddFacility"
    <3>1. PICK row : row = [id |-> w, org |-> c.org, name |-> c.name]
      OBVIOUS
    <3>2. work = Insert("facilities", row)
      BY <2>5, <3>1 DEF Works, AddFacility
    <3>3. row.org \in Ids(d["orgs"])
      BY <2>2, <3>1 DEF Ids
    <3>4. QED
      BY <3>2, <3>3, InsertCommits DEF Tables
  <2>6. QED
    BY <1>2, <2>3, <2>4, <2>5
<1>3. CASE c.op \in FacilityOps
  <2>1. PICK f : f = the("facility")
    OBVIOUS
  <2>2. /\ f.row \in d["facilities"] /\ f.row.id = c.facility /\ f.row.org = c.org
        /\ f.permits = PermitsOf(d, c.facility)
        /\ f.limits = LimitsOf(d, c.facility)
    <3>1. c.op \in FacilityOps \cup {"LogRecord"}
      BY <1>3
    <3>2. seen["facility"] # {} /\ \A x \in seen["facility"] : IsFacility(d, c, x)
      BY <3>1, TheFacility
    <3>3. f \in seen["facility"]
      BY <2>1, <3>2
    <3>4. QED
      BY <3>2, <3>3 DEF IsFacility
  <2>3. c.facility \in Ids(d["facilities"])
    BY <2>2 DEF Ids
  <2>4. CASE c.op = "RenameFacility"
    <3>1. PICK old, new : old = f.row /\ new = [old EXCEPT !.name = c.name]
      OBVIOUS
    <3>2. work = Update("facilities", old, new)
      BY <2>1, <2>4, <3>1 DEF Works, RenameFacility
    <3>3. old \in d["facilities"] /\ DOMAIN old = {"id", "org", "name"}
      BY <2>2, <3>1 DEF WellFormed, ColumnsOf, Tables
    <3>4. new.id = old.id
      BY <3>1, <3>3
    <3>5. QED
      BY <3>2, <3>3, <3>4, UpdateCommits DEF Tables
  <2>5. CASE c.op = "RemoveFacility"
    <3>1. work = Delete("facilities", {f.row}) \cup Delete("permits", f.permits)
                   \cup Delete("limits", f.limits)
      BY <2>1, <2>5 DEF Works, RemoveFacility
    <3>2. \A s \in work : s.do = "delete" /\ s.table \in {"facilities", "permits", "limits"}
                            /\ s.row \in d[s.table]
      BY <2>2, <3>1 DEF Delete, PermitsOf, LimitsOf
    <3>3. QED
      BY <3>2, DeletesCommit
  <2>6. CASE c.op = "AddPermit"
    <3>1. PICK row : row = [id |-> w, facility |-> c.facility, expires |-> c.expires,
                            value |-> c.value]
      OBVIOUS
    <3>2. work = Insert("permits", row)
      BY <2>6, <3>1 DEF Works, AddPermit
    <3>3. row.facility \in Ids(d["facilities"])
      BY <2>3, <3>1
    <3>4. QED
      BY <3>2, <3>3, InsertCommits DEF Tables
  <2>7. CASE c.op = "RemovePermit"
    <3>1. PICK p \in f.permits : work = Delete("permits", {p})
      BY <2>1, <2>7 DEF Works, RemovePermit
    <3>2. \A s \in work : s.do = "delete" /\ s.table = "permits" /\ s.row \in d["permits"]
      BY <2>2, <3>1 DEF Delete, PermitsOf, LimitsOf
    <3>3. QED
      BY <3>2, DeletesCommit
  <2>8. CASE c.op = "RemoveLimit"
    <3>1. PICK l \in f.limits : work = Delete("limits", {l})
      BY <2>1, <2>8 DEF Works, RemoveLimit, OfType
    <3>2. \A s \in work : s.do = "delete" /\ s.table = "limits" /\ s.row \in d["limits"]
      BY <2>2, <3>1 DEF Delete, PermitsOf, LimitsOf
    <3>3. QED
      BY <3>2, DeletesCommit
  <2>9. NewLimitRow(c, w).facility = c.facility
    BY DEF NewLimitRow
  <2>10. CASE c.op = "AddLimit"
    <3>1. work = Insert("limits", NewLimitRow(c, w))
      BY <2>1, <2>10 DEF Works, AddLimit
    <3>2. QED
      BY <2>3, <2>9, <3>1, InsertCommits DEF Tables
  <2>11. CASE c.op = "UpdateLimit"
    <3>1. PICK l \in f.limits : work = Delete("limits", {l}) \cup Insert("limits", NewLimitRow(c, w))
      BY <2>1, <2>11 DEF Works, UpdateLimit, OfType
    <3>2. \A s \in work : s.table = "limits" /\ \/ s.do = "delete" /\ s.row = l
                                                \/ s.do = "insert" /\ s.row = NewLimitRow(c, w)
      BY <3>1 DEF Delete, Insert
    <3>3. KeysAreUnique(After(d, work))
      BY <3>2, KeysStay, KeysOfTables
    <3>4. l.id \in Ids(d["limits"])
      BY <2>2, <3>1 DEF Ids, PermitsOf, LimitsOf
    <3>5. QED
      BY <2>3, <2>9, <3>2, <3>3, <3>4, Admitted
  <2>12. QED
    BY <1>3, <2>4, <2>5, <2>6, <2>7, <2>8, <2>10, <2>11 DEF FacilityOps
<1>4. CASE c.op = "LogRecord"
  BY <1>4, RecordCommits
<1>5. CASE c.op \in {"CreateField", "UpdateField", "RetireField", "ReactivateField", "SeedCatalog"}
  BY <1>5, FieldsCommit
<1>6. CASE c.op = "SetRange"
  BY <1>6, RangeCommits
<1>7. CASE c.op = "CreateTemplate"
  <2>1. work = Insert("templates", [id |-> w, name |-> c.name, rdl |-> c.rdl, updated |-> w])
    BY <1>7 DEF Works, CreateTemplate
  <2>2. QED
    BY <2>1, InsertCommits DEF Tables
<1>8. CASE c.op \in {"UpdateTemplate", "DeleteTemplate"}
  <2>1. PICK x : x = the("template")
    OBVIOUS
  <2>2. x \in d["templates"]
    BY <1>8, <2>1, TheTemplate
  <2>3. CASE c.op = "UpdateTemplate"
    <3>1. PICK new : new = [x EXCEPT !.name = c.name, !.rdl = c.rdl, !.updated = w]
      OBVIOUS
    <3>2. work = Update("templates", x, new)
      BY <2>1, <2>3, <3>1 DEF Works, UpdateTemplate
    <3>3. DOMAIN x = {"id", "name", "rdl", "updated"}
      BY <2>2 DEF WellFormed, ColumnsOf, Tables
    <3>4. new.id = x.id
      BY <3>1, <3>3
    <3>5. QED
      BY <2>2, <3>2, <3>4, UpdateCommits DEF Tables
  <2>4. CASE c.op = "DeleteTemplate"
    <3>1. work = Delete("templates", {x})
      BY <2>1, <2>4 DEF Works, DeleteTemplate
    <3>2. \A s \in work : s.do = "delete" /\ s.table = "templates" /\ s.row \in d["templates"]
      BY <2>2, <3>1 DEF Delete
    <3>3. QED
      BY <3>2, DeletesCommit
  <2>5. QED
    BY <1>8, <2>3, <2>4
<1>9. c.op \in Operations
  BY DEF MenuInv
<1>10. QED
  BY <1>1, <1>2, <1>3, <1>4, <1>5, <1>6, <1>7, <1>8, <1>9 DEF Operations, FacilityOps

-----------------------------------------------------------------------------
(* Whoever has seen the present keeps the rules                            *)

\* Which commands touch which tables.
LEMMA StatementsOfCommands ==
  ASSUME NEW c, c.op \in Operations, NEW seen, NEW w, NEW work \in Works(c, seen, w), NEW s \in work
  PROVE  /\ s.table = "limits" /\ s.do = "insert" => c.op \in {"AddLimit", "UpdateLimit"}
         /\ s.table = "ranges" => c.op = "SetRange"
         /\ s.table = "fields" => c.op \in {"CreateField", "UpdateField", "RetireField",
                                             "ReactivateField", "SeedCatalog"}
         /\ s.table = "permits" /\ s.do = "delete" => c.op \in {"RemovePermit", "RemoveFacility"}
         /\ s.table = "records" /\ s.do = "insert" => c.op = "LogRecord"
<1>1. CASE c.op \in {"CreateOrg", "UpdateOrg", "DeleteOrg"}
  <2>1. s.table = "orgs"
    BY <1>1 DEF Works, CreateOrg, UpdateOrg, DeleteOrg, Insert, Update, Delete
  <2>2. QED
    BY <2>1
<1>2. CASE c.op \in {"AddFacility", "RenameFacility"}
  <2>1. s.table = "facilities"
    BY <1>2 DEF Works, AddFacility, RenameFacility, Insert, Update
  <2>2. QED
    BY <2>1
<1>3. CASE c.op = "RemoveFacility"
  <2>1. s.do = "delete" /\ s.table \in {"facilities", "permits", "limits"}
    BY <1>3 DEF Works, RemoveFacility, Delete
  <2>2. QED
    BY <1>3, <2>1
<1>4. CASE c.op \in {"AddPermit", "RemovePermit"}
  <2>1. s.table = "permits" /\ (s.do = "delete" => c.op = "RemovePermit")
    BY <1>4 DEF Works, AddPermit, RemovePermit, Insert, Delete
  <2>2. QED
    BY <2>1
<1>5. CASE c.op \in {"AddLimit", "UpdateLimit", "RemoveLimit"}
  <2>1. s.table = "limits" /\ (s.do = "insert" => c.op \in {"AddLimit", "UpdateLimit"})
    BY <1>5 DEF Works, AddLimit, UpdateLimit, RemoveLimit, Insert, Delete
  <2>2. QED
    BY <2>1
<1>6. CASE c.op = "LogRecord"
  <2>1. s.table = "records" /\ s.do = "insert"
    BY <1>6 DEF Works, LogRecord, Insert
  <2>2. QED
    BY <1>6, <2>1
<1>7. CASE c.op \in {"CreateField", "UpdateField", "RetireField", "ReactivateField", "SeedCatalog"}
  <2>1. CASE c.op = "CreateField"
    BY <2>1 DEF Works, CreateField, Insert
  <2>2. CASE c.op = "SeedCatalog"
    BY <2>2 DEF Works, SeedCatalog, Insert
  <2>3. CASE c.op \in {"UpdateField", "RetireField", "ReactivateField"}
    <3>1. PICK old, new : work = Update("fields", old, new)
      BY <2>3 DEF Works, UpdateField, RetireField, ReactivateField
    <3>2. s.table = "fields" /\ s.do = "update"
      BY <3>1 DEF Update
    <3>3. QED
      BY <2>3, <3>2
  <2>4. QED
    BY <1>7, <2>1, <2>2, <2>3
<1>8. CASE c.op = "SetRange"
  <2>1. CASE seen["range"] = {}
    BY <1>8, <2>1 DEF Works, SetRange, Insert
  <2>2. CASE seen["range"] # {}
    <3>1. PICK old, new : work = Update("ranges", old, new)
      BY <1>8, <2>2 DEF Works, SetRange
    <3>2. QED
      BY <1>8, <3>1 DEF Update
  <2>3. QED
    BY <2>1, <2>2
<1>9. CASE c.op \in {"CreateTemplate", "UpdateTemplate", "DeleteTemplate"}
  <2>1. CASE c.op = "CreateTemplate"
    BY <2>1 DEF Works, CreateTemplate, Insert
  <2>2. CASE c.op = "DeleteTemplate"
    BY <2>2 DEF Works, DeleteTemplate, Delete
  <2>3. CASE c.op = "UpdateTemplate"
    <3>1. PICK old, new : work = Update("templates", old, new)
      BY <2>3 DEF Works, UpdateTemplate
    <3>2. QED
      BY <3>1 DEF Update
  <2>4. QED
    BY <1>9, <2>1, <2>2, <2>3
<1>10. QED
  BY <1>1, <1>2, <1>3, <1>4, <1>5, <1>6, <1>7, <1>8, <1>9 DEF Operations

\* One limit of each type: a second one is refused, and an update replaces the first.
LEMMA LimitsStayDistinct ==
  ASSUME MenuInv, NEW d, WellFormed(d), OneOfEachType(d["limits"]),
         NEW c \in menu, NEW w, NEW seen, UpToDate(d, c, seen),
         NEW work \in Works(c, seen, w), Tidy(work, w)
  PROVE  OneOfEachType(After(d, work)["limits"])
<1>1. \A r \in After(d, work)["limits"] :
        \/ r \in d["limits"] /\ \A s \in work : s.table = "limits" /\ s.do = "delete" => s.row.id # r.id
        \/ \E s \in work : s.table = "limits" /\ s.do = "insert" /\ r = s.row
  <2>1. ASSUME NEW r \in After(d, work)["limits"]
        PROVE  \/ r \in d["limits"] /\ \A s \in work : s.table = "limits" /\ s.do = "delete" => s.row.id # r.id
               \/ \E s \in work : s.table = "limits" /\ s.do = "insert" /\ r = s.row
    <3>1. r \in Written(d, work, "limits")
      BY AfterIsWritten DEF Tables
    <3>2. QED
      BY <3>1, WrittenRow DEF Tables
  <2>2. QED
    BY <2>1
<1>2. c.op \in Operations
  BY DEF MenuInv
<1>3. CASE c.op \notin {"AddLimit", "UpdateLimit"}
  <2>1. After(d, work)["limits"] \subseteq d["limits"]
    BY <1>1, <1>2, <1>3, StatementsOfCommands
  <2>2. QED
    BY <2>1 DEF OneOfEachType
<1>4. CASE c.op \in {"AddLimit", "UpdateLimit"}
  <2>1. PICK f : f = CHOOSE x \in seen["facility"] : TRUE
    OBVIOUS
  <2>2. IsFacility(d, c, f)
    <3>1. c.op \in FacilityOps \cup {"LogRecord"}
      BY <1>4 DEF FacilityOps
    <3>2. QED
      BY <2>1, <3>1, TheFacility
  <2>3. PICK new : new = NewLimitRow(c, w)
    OBVIOUS
  <2>4. new.facility = c.facility /\ new.type = c.type
    BY <2>3 DEF NewLimitRow
  <2>5. OfType(c, f) = {l \in d["limits"] : l.facility = c.facility /\ l.type = c.type}
    BY <2>2 DEF OfType, IsFacility, LimitsOf
  <2>6. CASE c.op = "AddLimit"
    <3>1. work = Insert("limits", new) /\ OfType(c, f) = {}
      BY <2>1, <2>3, <2>6 DEF Works, AddLimit
    <3>2. \A s \in work : s.row = new
      BY <3>1 DEF Insert
    <3>3. After(d, work)["limits"] \subseteq d["limits"] \cup {new}
      BY <1>1, <3>2
    <3>4. \A l \in d["limits"] : ~(l.facility = c.facility /\ l.type = c.type)
      BY <2>5, <3>1
    <3>5. QED
      BY <2>4, <3>3, <3>4 DEF OneOfEachType
  <2>7. CASE c.op = "UpdateLimit"
    <3>1. PICK l \in OfType(c, f) : work = Delete("limits", {l}) \cup Insert("limits", new)
      BY <2>1, <2>3, <2>7 DEF Works, UpdateLimit
    <3>2. \A s \in work : s.do = "insert" => s.row = new
      BY <3>1 DEF Insert, Delete
    <3>3. \E s \in work : s.table = "limits" /\ s.do = "delete" /\ s.row = l
      <4>1. PICK x : x = [do |-> "delete", table |-> "limits", row |-> l, columns |-> {}]
        OBVIOUS
      <4>2. x \in work /\ x.table = "limits" /\ x.do = "delete" /\ x.row = l
        BY <3>1, <4>1 DEF Delete
      <4>3. QED
        BY <4>2
    <3>4. After(d, work)["limits"] \subseteq (d["limits"] \ {l}) \cup {new}
      BY <1>1, <3>2, <3>3
    <3>5. \A m \in d["limits"] \ {l} : ~(m.facility = c.facility /\ m.type = c.type)
      BY <2>5, <3>1 DEF OneOfEachType
    <3>6. QED
      BY <2>4, <3>4, <3>5 DEF OneOfEachType
  <2>8. QED
    BY <1>4, <2>6, <2>7
<1>5. QED
  BY <1>3, <1>4

\* Ordered ranges: both bounds are written over those that were checked with them.
LEMMA RangesStayOrdered ==
  ASSUME MenuInv, NEW d, WellFormed(d), Ordered(d["ranges"]),
         NEW c \in menu, NEW w, NEW seen, UpToDate(d, c, seen),
         NEW work \in Works(c, seen, w), Tidy(work, w)
  PROVE  Ordered(After(d, work)["ranges"])
<1>1. c.op \in Operations
  BY DEF MenuInv
<1>2. CASE c.op # "SetRange"
  <2>1. \A s \in work : s.table # "ranges"
    BY <1>1, <1>2, StatementsOfCommands
  <2>2. After(d, work)["ranges"] = d["ranges"]
    BY <2>1, WrittenKept, AfterTables DEF Tables
  <2>3. QED
    BY <2>2
<1>3. CASE c.op = "SetRange"
  <2>1. c.low <= c.high
    <3>1. c.low \in Int /\ c.high \in Int /\ ~(c.low > c.high)
      BY <1>3 DEF MenuInv, Works, SetRange
    <3>2. QED
      BY <3>1
  <2>2. seen["range"] = RangeOf(d, c)
    <3>1. Queries(c) = <<"named", "range">>
      BY <1>3 DEF Queries
    <3>2. 2 \in 1 .. Len(Queries(c)) /\ Queries(c)[2] = "range"
      BY <3>1
    <3>3. QED
      BY <3>2 DEF UpToDate, Result
  <2>3. CASE seen["range"] = {}
    <3>1. PICK row : row = [id |-> w, org |-> c.org, propertyName |-> c.propertyName,
                            low |-> c.low, high |-> c.high]
      OBVIOUS
    <3>2. work = Insert("ranges", row)
      BY <1>3, <2>3, <3>1 DEF Works, SetRange
    <3>3. After(d, work)["ranges"] = d["ranges"] \cup {row}
      BY <3>2, AfterTables, WrittenInserted DEF Tables
    <3>4. QED
      BY <2>1, <3>1, <3>3 DEF Ordered
  <2>4. CASE seen["range"] # {}
    <3>0. PICK old \in RangeOf(d, c) :
            work = Update("ranges", old, [old EXCEPT !.low = c.low, !.high = c.high])
      BY <1>3, <2>2, <2>4 DEF Works, SetRange
    <3>1. PICK new : /\ work = Update("ranges", old, new)
                     /\ new = [old EXCEPT !.low = c.low, !.high = c.high]
      BY <3>0
    <3>2. old \in d["ranges"] /\ DOMAIN old = {"id", "org", "propertyName", "low", "high"}
      BY <3>1 DEF RangeOf, WellFormed, Tables, ColumnsOf
    <3>3. IsRow("ranges", new) /\ new.id = old.id /\ new.low = c.low /\ new.high = c.high
      BY <3>1, <3>2 DEF IsRow, ColumnsOf
    <3>4. After(d, work)["ranges"] = Written(d, work, "ranges")
      BY AfterTables
    <3>5. Written(d, work, "ranges") = (d["ranges"] \ {old}) \cup {new}
      <4>1. work = Update("ranges", old, new)
        BY <3>1
      <4>2. QED
        BY <3>2, <3>3, <4>1, UpdatedRows DEF Tables
    <3>6. QED
      BY <2>1, <3>3, <3>4, <3>5 DEF Ordered
  <2>5. QED
    BY <2>3, <2>4
<1>4. QED
  BY <1>2, <1>3

\* A facility that stays keeps a permit.
KeepPermits(d, e) ==
  \A f \in Ids(d["facilities"]) \cap Ids(e["facilities"]) :
    (\E p \in d["permits"] : p.facility = f) => \E p \in e["permits"] : p.facility = f

\* A permit that nobody deletes stays as long as its facility does.
LEMMA PermitStays ==
  ASSUME NEW d, WellFormed(d), NEW w, NEW work, Tidy(work, w), NEW p \in d["permits"],
         p.facility \in Ids(After(d, work)["facilities"]),
         \A s \in work : s.table = "permits" /\ s.do = "delete" => s.row.id # p.id
  PROVE  p \in After(d, work)["permits"]
<1>1. \A s \in work : s.table = "permits" => s.do # "update"
  BY DEF Tidy
<1>2. p \in Written(d, work, "permits")
  BY <1>1, WrittenStays DEF Tables
<1>3. QED
  BY <1>2, AfterTables

\* The last permit is not removed, unless its facility is.
LEMMA PermitsAreKept ==
  ASSUME MenuInv, NEW d, WellFormed(d), NEW c \in menu, NEW w, NEW seen, UpToDate(d, c, seen),
         NEW work \in Works(c, seen, w), Tidy(work, w)
  PROVE  KeepPermits(d, After(d, work))
<1>0. c.op \in Operations
  BY DEF MenuInv
<1>1. PICK e : e = After(d, work)
  OBVIOUS
<1>2. SUFFICES ASSUME NEW p \in d["permits"], p.facility \in Ids(e["facilities"])
               PROVE  \E q \in e["permits"] : q.facility = p.facility
  BY <1>1 DEF KeepPermits
<1>3. \A x, q \in d["permits"] : x.id = q.id => x = q
  BY DEF WellFormed, Tables
<1>4. CASE c.op \notin {"RemovePermit", "RemoveFacility"}
  <2>1. \A s \in work : s.table = "permits" => s.do # "delete"
    BY <1>0, <1>4, StatementsOfCommands
  <2>2. QED
    BY <1>1, <1>2, <2>1, PermitStays
<1>5. CASE c.op \in {"RemovePermit", "RemoveFacility"}
  <2>1. PICK f : f = CHOOSE x \in seen["facility"] : TRUE
    OBVIOUS
  <2>2. IsFacility(d, c, f)
    <3>1. c.op \in FacilityOps \cup {"LogRecord"}
      BY <1>5 DEF FacilityOps
    <3>2. QED
      BY <2>1, <3>1, TheFacility
  <2>3. f.permits = {x \in d["permits"] : x.facility = c.facility}
    BY <2>2 DEF IsFacility, PermitsOf
  <2>4. CASE c.op = "RemoveFacility"
    <3>1. work = Delete("facilities", {f.row}) \cup Delete("permits", f.permits)
                   \cup Delete("limits", f.limits)
      BY <2>1, <2>4 DEF Works, RemoveFacility
    <3>2. /\ \A s \in work : s.do = "delete" /\ (s.table = "permits" => s.row \in f.permits)
          /\ \E s \in work : s.do = "delete" /\ s.table = "facilities" /\ s.row = f.row
      <4>1. PICK x : x = [do |-> "delete", table |-> "facilities", row |-> f.row, columns |-> {}]
        OBVIOUS
      <4>2. x \in work /\ x.table = "facilities" /\ x.do = "delete" /\ x.row = f.row
        BY <3>1, <4>1 DEF Delete
      <4>3. \A s \in work : s.do = "delete" /\ (s.table = "permits" => s.row \in f.permits)
        BY <3>1 DEF Delete
      <4>4. QED
        BY <4>2, <4>3
    <3>3. c.facility \notin Ids(e["facilities"])
      <4>1. \A r \in e["facilities"] : r \in Written(d, work, "facilities")
        BY <1>1, AfterIsWritten DEF Tables
      <4>2. \A r \in Written(d, work, "facilities") : r.id # f.row.id
        BY <3>2, WrittenRow DEF Tables
      <4>3. QED
        BY <2>2, <4>1, <4>2 DEF IsFacility, Ids
    <3>4. p \notin f.permits
      BY <1>2, <2>3, <3>3
    <3>5. \A s \in work : s.table = "permits" /\ s.do = "delete" => s.row.id # p.id
      BY <1>3, <2>3, <3>2, <3>4
    <3>6. QED
      BY <1>1, <1>2, <3>5, PermitStays
  <2>5. CASE c.op = "RemovePermit"
    <3>1. PICK gone \in f.permits : work = Delete("permits", {gone})
      BY <2>1, <2>5 DEF Works, RemovePermit
    <3>2. ~(Cardinality(f.permits) <= 1)
      BY <2>1, <2>5 DEF Works, RemovePermit
    <3>3. PICK other \in f.permits : other # gone
      <4>1. f.permits # {gone}
        <5>1. Cardinality({gone}) = 1
          BY FS_Singleton
        <5>2. QED
          BY <3>2, <5>1
      <4>2. QED
        BY <3>1, <4>1
    <3>4. \A s \in work : s.row = gone
      BY <3>1 DEF Delete
    <3>5. ASSUME NEW q \in d["permits"], q # gone, q.facility = p.facility
          PROVE  q \in e["permits"]
      <4>1. \A s \in work : s.table = "permits" /\ s.do = "delete" => s.row.id # q.id
        BY <1>3, <2>3, <3>1, <3>4, <3>5
      <4>2. QED
        BY <1>1, <1>2, <3>5, <4>1, PermitStays
    <3>6. CASE p = gone
      BY <2>3, <3>1, <3>3, <3>5, <3>6
    <3>7. CASE p # gone
      BY <3>5, <3>7
    <3>8. QED
      BY <3>6, <3>7
  <2>6. QED
    BY <1>5, <2>4, <2>5
<1>6. QED
  BY <1>4, <1>5

-----------------------------------------------------------------------------
(* The steps of a request                                                  *)

\* A request stays as it should as long as the database does.
LEMMA RequestStays ==
  ASSUME NEW r, RequestOK(r), UNCHANGED <<db, menu>>,
         \A v \in Requests : Unended(v)' => Unended(v)
  PROVE  RequestOK(r)'
<1>1. ASSUME NEW t, NEW column, NEW id, NEW owner, Belongs(t, column, id, owner)
      PROVE  Belongs(t, column, id, owner)'
  BY <1>1 DEF Belongs
<1>2. OwnersInv(r.cmd, r.seen) => OwnersInv(r.cmd, r.seen)'
  BY <1>1 DEF OwnersInv
<1>3. QED
  BY <1>2 DEF RequestOK

\* One request goes on, and nothing else happens.
LEMMA OneRequest ==
  ASSUME StoreInv, NEW w \in Requests, NEW r, RequestOK(r), r.outcome = "none" => Unended(w),
         request' = [request EXCEPT ![w] = r], UNCHANGED <<db, menu, raced>>
  PROVE  StoreInv'
<1>1. /\ request' = [v \in Requests |-> request'[v]] /\ request'[w] = r
      /\ \A v \in Requests \ {w} : request'[v] = request[v]
  BY DEF StoreInv, RequestsInv
<1>2. \A v \in Requests : Unended(v)' => Unended(v)
  BY <1>1 DEF Unended
<1>3. RequestOK(r)'
  BY <1>2, RequestStays
<1>4. ASSUME NEW v \in Requests \ {w} PROVE RequestOK(request[v])'
  <2>1. PICK x : x = request[v]
    OBVIOUS
  <2>2. RequestOK(x)
    BY <2>1 DEF StoreInv, RequestsInv
  <2>3. RequestOK(x)'
    BY <1>2, <2>2, RequestStays
  <2>4. x = request'[v]
    BY <1>1, <2>1
  <2>5. QED
    BY <2>3, <2>4
<1>5. RequestsInv'
  BY <1>1, <1>3, <1>4 DEF RequestsInv
<1>6. MenuInv' /\ IdsAreNew'
  BY <1>2 DEF StoreInv, MenuInv, IdsAreNew
<1>7. QED
  BY <1>5, <1>6 DEF StoreInv, LimitsArePositive, Rules, OneLimitPerType, RangesAreOrdered

\* A request that has ended is as it should be.
LEMMA EndedIsOK ==
  ASSUME NEW outcome \in {"refused", "saved", "failed"}, NEW overtaken \in BOOLEAN,
         outcome = "failed" => overtaken
  PROVE  RequestOK(Ended(outcome, overtaken)) /\ Ended(outcome, overtaken).outcome # "none"
<1>1. PICK r : r = Ended(outcome, overtaken)
  OBVIOUS
<1>2. r = [cmd |-> None, seen |-> <<>>, next |-> 0, overtaken |-> overtaken, outcome |-> outcome]
  BY <1>1 DEF Ended, Waiting
<1>3. /\ r = [cmd |-> r.cmd, seen |-> r.seen, next |-> r.next, overtaken |-> r.overtaken,
              outcome |-> r.outcome]
      /\ r.cmd = None /\ r.overtaken = overtaken /\ r.outcome = outcome
  BY <1>2
<1>4. RequestOK(r) /\ r.outcome # "none"
  BY <1>3 DEF RequestOK
<1>5. QED
  BY <1>1, <1>4

\* A handler makes some queries, no two of them alike.
LEMMA QueriesAreSequences ==
  ASSUME NEW c, c.op \in Operations
  PROVE  /\ Len(Queries(c)) \in Nat /\ DOMAIN Queries(c) = 1 .. Len(Queries(c))
         /\ \A i, j \in 1 .. Len(Queries(c)) : Queries(c)[i] = Queries(c)[j] => i = j
<1>1. \/ Queries(c) = <<>>
      \/ \E x : Queries(c) = <<x>>
      \/ \E x, y : x # y /\ Queries(c) = <<x, y>>
      \/ \E x, y, z : x # y /\ x # z /\ y # z /\ Queries(c) = <<x, y, z>>
  BY DEF Queries, Operations
<1>2. QED
  BY <1>1

\* A request comes in.
LEMMA ArriveStep ==
  ASSUME StoreInv, NEW w \in Requests, Arrive(w)
  PROVE  StoreInv'
<1>1. PICK c \in menu :
        request' = [request EXCEPT ![w].cmd = c, ![w].seen = [q \in {} |-> {}]]
  BY DEF Arrive
<1>2. PICK r : r = [request[w] EXCEPT !.cmd = c, !.seen = [q \in {} |-> {}]]
  OBVIOUS
<1>3. request' = [request EXCEPT ![w] = r]
  BY <1>1, <1>2
<1>4. RequestOK(request[w]) /\ ~InHand(w) /\ request[w].outcome = "none"
  BY DEF StoreInv, RequestsInv, Arrive
<1>5. /\ r = [cmd |-> c, seen |-> [q \in {} |-> {}], next |-> 1, overtaken |-> FALSE, outcome |-> "none"]
      /\ Unended(w)
  BY <1>2, <1>4 DEF RequestOK, InHand, Unended
<1>6. c # None /\ c.op \in Operations
  BY DEF StoreInv, MenuInv
<1>7. Len(Queries(c)) \in Nat
  BY <1>6, QueriesAreSequences
<1>8. RequestOK(r)
  <2>1. /\ r.cmd = c /\ r.next = 1 /\ r.overtaken = FALSE /\ r.outcome = "none"
        /\ r.seen = [q \in {} |-> {}] /\ DOMAIN r.seen = {}
        /\ r = [cmd |-> r.cmd, seen |-> r.seen, next |-> r.next, overtaken |-> r.overtaken,
                outcome |-> r.outcome]
    BY <1>5
  <2>2. r.next \in 1 .. Len(Queries(c)) + 1 /\ 1 .. r.next - 1 = {}
    BY <1>7, <2>1
  <2>3. DOMAIN r.seen = {Queries(c)[i] : i \in 1 .. r.next - 1}
    BY <2>1, <2>2
  <2>4. QED
    BY <1>6, <2>1, <2>2, <2>3 DEF RequestOK, OwnersInv
<1>9. UNCHANGED <<db, menu, raced>>
  BY DEF Arrive
<1>10. QED
  BY <1>3, <1>5, <1>8, <1>9, OneRequest

\* A row is its owner's, and its id is no new one.
LEMMA RowBelongs ==
  ASSUME WellFormed(db), IdsAreNew, NEW t \in Tables, NEW row \in db[t], NEW column
  PROVE  Belongs(t, column, row.id, row[column])
<1>1. \A w \in Requests : Unended(w) => row.id \notin NewIds(w)
  BY DEF IdsAreNew, Ids
<1>2. \A other \in db[t] : other.id = row.id => other = row
  BY DEF WellFormed
<1>3. QED
  BY <1>1, <1>2 DEF Belongs

\* What a query finds is of the org that asks.
LEMMA FoundOwners ==
  ASSUME WellFormed(db), IdsAreNew, NEW c, NEW seen, OwnersInv(c, seen),
         NEW q, ~Settles(c, q, Result(db, c, seen, q)),
         NEW more, DOMAIN more = DOMAIN seen \cup {q},
         more[q] = Result(db, c, seen, q), \A x \in DOMAIN seen : more[x] = seen[x]
  PROVE  OwnersInv(c, more)
<1>1. CASE q \notin {"facility", "range"}
  BY <1>1 DEF OwnersInv
<1>2. CASE q = "facility"
  <2>1. more["facility"] = Facilities(db, c) /\ more["facility"] # {}
    BY <1>2 DEF Result, Settles
  <2>2. \A x \in more["facility"] : IsFacility(db, c, x)
    BY <2>1, FoundFacility
  <2>3. Belongs("facilities", "org", c.facility, c.org)
    <3>1. PICK x \in more["facility"] : IsFacility(db, c, x)
      BY <2>1, <2>2
    <3>2. PICK row \in db["facilities"] : row.id = c.facility /\ row.org = c.org
      BY <3>1 DEF IsFacility
    <3>3. "facilities" \in Tables /\ row["org"] = c.org
      BY <3>2 DEF Tables
    <3>4. Belongs("facilities", "org", row.id, row["org"])
      BY <3>3, RowBelongs
    <3>5. QED
      BY <3>2, <3>3, <3>4
  <2>4. ASSUME NEW x \in more["facility"], NEW t \in {"permits", "limits"}, NEW p \in db[t],
               p.facility = c.facility
        PROVE  Belongs(t, "facility", p.id, c.facility)
    <3>1. t \in Tables /\ p["facility"] = c.facility
      BY <2>4 DEF Tables
    <3>2. Belongs(t, "facility", p.id, p["facility"])
      BY <3>1, RowBelongs
    <3>3. QED
      BY <3>1, <3>2
  <2>5. ASSUME NEW x \in more["facility"]
        PROVE  /\ "id" \in DOMAIN x.row /\ x.row.id = c.facility
               /\ \A p \in x.permits : Belongs("permits", "facility", p.id, c.facility)
               /\ \A l \in x.limits : Belongs("limits", "facility", l.id, c.facility)
    <3>1. /\ x.row \in db["facilities"] /\ x.row.id = c.facility
          /\ \A p \in x.permits : p \in db["permits"] /\ p.facility = c.facility
          /\ \A l \in x.limits : l \in db["limits"] /\ l.facility = c.facility
      BY <2>2, <2>5 DEF IsFacility, PermitsOf, LimitsOf
    <3>2. "id" \in DOMAIN x.row
      BY <3>1 DEF WellFormed, Tables, ColumnsOf
    <3>3. QED
      BY <2>4, <3>1, <3>2
  <2>6. "range" \in DOMAIN more => "range" \in DOMAIN seen /\ more["range"] = seen["range"]
    BY <1>2
  <2>7. QED
    BY <2>3, <2>5, <2>6 DEF OwnersInv
<1>3. CASE q = "range"
  <2>1. more["range"] = RangeOf(db, c)
    BY <1>3 DEF Result
  <2>2. ASSUME NEW r \in more["range"]
        PROVE  "id" \in DOMAIN r /\ Belongs("ranges", "org", r.id, c.org)
    <3>1. r \in db["ranges"] /\ "ranges" \in Tables /\ r["org"] = c.org
      BY <2>1, <2>2 DEF RangeOf, Tables
    <3>2. Belongs("ranges", "org", r.id, r["org"])
      BY <3>1, RowBelongs
    <3>3. "id" \in DOMAIN r
      BY <3>1 DEF WellFormed, ColumnsOf
    <3>4. QED
      BY <3>1, <3>2, <3>3
  <2>3. "facility" \in DOMAIN more => "facility" \in DOMAIN seen /\ more["facility"] = seen["facility"]
    BY <1>3
  <2>4. QED
    BY <2>2, <2>3 DEF OwnersInv
<1>4. QED
  BY <1>1, <1>2, <1>3

\* Only the query for the old label uses what an earlier one has found.
LEMMA ResultsOfSeen ==
  ASSUME NEW d, NEW c, NEW seen, NEW more, NEW q, q # "oldLabel" \/ more["field"] = seen["field"]
  PROVE  Result(d, c, more, q) = Result(d, c, seen, q)
<1>1. CASE q = "oldLabel"
  BY <1>1 DEF Result
<1>2. CASE q # "oldLabel"
  BY <1>2 DEF Result
<1>3. QED
  BY <1>1, <1>2

\* And that one comes after the query for the field.
LEMMA OldLabelIsSecond ==
  ASSUME NEW c, c.op \in Operations, NEW i \in 1 .. Len(Queries(c)), Queries(c)[i] = "oldLabel"
  PROVE  i = 2 /\ Queries(c)[1] = "field"
<1>1. CASE c.op = "ReactivateField"
  <2>1. Queries(c) = <<"field", "oldLabel">>
    BY <1>1 DEF Queries
  <2>2. QED
    BY <2>1
<1>2. CASE c.op # "ReactivateField"
  <2>1. \A k \in 1 .. Len(Queries(c)) : Queries(c)[k] # "oldLabel"
    BY <1>2 DEF Queries, Operations
  <2>2. QED
    BY <2>1
<1>3. QED
  BY <1>1, <1>2

\* A request that has made another query, which did not settle it, is as it should be.
LEMMA QueriedIsOK ==
  ASSUME StoreInv, NEW r, RequestOK(r), r.cmd # None, r.next \in DOMAIN Queries(r.cmd),
         NEW q, q = Queries(r.cmd)[r.next], ~Settles(r.cmd, q, Result(db, r.cmd, r.seen, q)),
         NEW more, DOMAIN more = DOMAIN r.seen \cup {q}, more[q] = Result(db, r.cmd, r.seen, q),
         \A x \in DOMAIN r.seen \ {q} : more[x] = r.seen[x],
         NEW new, new = [r EXCEPT !.next = r.next + 1, !.seen = more]
  PROVE  RequestOK(new)
<1>0. PICK c : c = r.cmd
  OBVIOUS
<1>2. /\ r = [cmd |-> r.cmd, seen |-> r.seen, next |-> r.next, overtaken |-> r.overtaken,
              outcome |-> r.outcome]
      /\ r.overtaken \in BOOLEAN /\ r.outcome = "none" /\ c \in menu
      /\ r.next \in 1 .. Len(Queries(c)) + 1
      /\ DOMAIN r.seen = {Queries(c)[i] : i \in 1 .. r.next - 1}
  BY <1>0 DEF RequestOK
<1>3. /\ new.cmd = c /\ new.seen = more /\ new.next = r.next + 1
      /\ new.overtaken = r.overtaken /\ new.outcome = "none"
      /\ new = [cmd |-> new.cmd, seen |-> new.seen, next |-> new.next, overtaken |-> new.overtaken,
                outcome |-> new.outcome]
  BY <1>0, <1>2
<1>4. c.op \in Operations /\ c # None
  BY <1>2 DEF StoreInv, MenuInv
<1>5. Len(Queries(c)) \in Nat /\ DOMAIN Queries(c) = 1 .. Len(Queries(c))
  BY <1>4, QueriesAreSequences
<1>6. new.next \in 1 .. Len(Queries(c)) + 1
  BY <1>0, <1>2, <1>3, <1>5
<1>7. DOMAIN more = DOMAIN r.seen \cup {q}
  OBVIOUS
<1>8. DOMAIN more = {Queries(c)[i] : i \in 1 .. new.next - 1}
  <2>1. 1 .. new.next - 1 = (1 .. r.next - 1) \cup {r.next}
    BY <1>2, <1>3, <1>5
  <2>2. QED
    BY <1>0, <1>2, <1>7, <2>1
<1>9. q \notin DOMAIN r.seen
  <2>1. SUFFICES ASSUME NEW i \in 1 .. r.next - 1, Queries(c)[i] = q PROVE FALSE
    BY <1>2
  <2>2. i \in 1 .. Len(Queries(c)) /\ r.next \in 1 .. Len(Queries(c)) /\ i # r.next
    BY <1>0, <1>2, <1>5
  <2>3. Queries(c)[i] = Queries(c)[r.next]
    BY <1>0, <2>1
  <2>4. QED
    BY <1>4, <2>2, <2>3, QueriesAreSequences
<1>10. more[q] = Result(db, c, r.seen, q) /\ \A x \in DOMAIN r.seen : more[x] = r.seen[x]
  BY <1>0, <1>9
<1>11. \A x \in DOMAIN more : ~Settles(c, x, more[x])
  BY <1>0, <1>7, <1>10 DEF RequestOK
<1>12. ASSUME NEW x \in DOMAIN more
       PROVE  Result(db, c, more, x) = Result(db, c, r.seen, x)
  <2>1. CASE x # "oldLabel"
    BY <2>1, ResultsOfSeen
  <2>2. CASE x = "oldLabel"
    <3>1. PICK i \in 1 .. new.next - 1 : Queries(c)[i] = "oldLabel"
      BY <1>8, <2>2
    <3>2. i \in 1 .. Len(Queries(c))
      BY <1>5, <1>6, <3>1
    <3>3. i = 2 /\ Queries(c)[1] = "field"
      BY <1>4, <3>1, <3>2, OldLabelIsSecond
    <3>4. 1 \in 1 .. r.next - 1
      BY <1>2, <1>3, <3>1, <3>3
    <3>5. "field" \in DOMAIN r.seen
      BY <1>2, <3>3, <3>4
    <3>6. more["field"] = r.seen["field"]
      BY <1>10, <3>5
    <3>7. QED
      BY <3>6, ResultsOfSeen
  <2>3. QED
    BY <2>1, <2>2
<1>13. ASSUME ~r.overtaken, NEW x \in DOMAIN more
       PROVE  more[x] = Result(db, c, more, x)
  <2>1. more[x] = Result(db, c, r.seen, x)
    BY <1>0, <1>7, <1>10, <1>13 DEF RequestOK
  <2>2. QED
    BY <1>12, <2>1
<1>14. OwnersInv(c, more)
  <2>1. OwnersInv(c, r.seen) /\ WellFormed(db) /\ IdsAreNew
    BY <1>0 DEF StoreInv, RequestOK
  <2>2. ~Settles(c, q, Result(db, c, r.seen, q))
    BY <1>0
  <2>3. QED
    BY <1>7, <1>10, <2>1, <2>2, FoundOwners
<1>15. \A x \in DOMAIN new.seen : ~Settles(new.cmd, x, new.seen[x])
  BY <1>3, <1>11
<1>16. ~new.overtaken => \A x \in DOMAIN new.seen : new.seen[x] = Result(db, new.cmd, new.seen, x)
  BY <1>3, <1>13
<1>17. /\ OwnersInv(new.cmd, new.seen) /\ new.cmd \in menu /\ new.cmd # None
       /\ new.next \in 1 .. Len(Queries(new.cmd)) + 1
       /\ DOMAIN new.seen = {Queries(new.cmd)[i] : i \in 1 .. new.next - 1}
       /\ new.overtaken \in BOOLEAN /\ new.outcome = "none"
  BY <1>2, <1>3, <1>4, <1>6, <1>8, <1>14
<1>18. new = [cmd |-> new.cmd, seen |-> new.seen, next |-> new.next, overtaken |-> new.overtaken,
              outcome |-> new.outcome]
  BY <1>3
<1>19. QED
  BY <1>15, <1>16, <1>17, <1>18 DEF RequestOK

\* A handler makes the next query.
LEMMA QueryStep ==
  ASSUME StoreInv, NEW w \in Requests, Query(w)
  PROVE  StoreInv'
<1>1. PICK r : r = request[w]
  OBVIOUS
<1>2. PICK q : q = Queries(r.cmd)[r.next]
  OBVIOUS
<1>3. PICK found : found = Result(db, r.cmd, r.seen, q)
  OBVIOUS
<1>4. PICK more : more = [x \in DOMAIN r.seen \cup {q} |-> IF x = q THEN found ELSE r.seen[x]]
  OBVIOUS
<1>5. /\ r.cmd # None /\ r.next \in DOMAIN Queries(r.cmd)
      /\ UNCHANGED <<db, menu, raced>>
      /\ request' = [request EXCEPT ![w] =
                       IF Settles(r.cmd, q, found) THEN Ended("refused", FALSE)
                       ELSE [r EXCEPT !.next = @ + 1, !.seen = more]]
  BY <1>1, <1>2, <1>3, <1>4 DEF Query, InHand
<1>6. RequestOK(r) /\ r.outcome = "none" /\ Unended(w)
  <2>1. RequestOK(r)
    BY <1>1 DEF StoreInv, RequestsInv
  <2>2. r.outcome = "none"
    BY <1>5, <2>1 DEF RequestOK
  <2>3. QED
    BY <1>1, <2>1, <2>2 DEF Unended
<1>7. CASE Settles(r.cmd, q, found)
  <2>1. request' = [request EXCEPT ![w] = Ended("refused", FALSE)]
    BY <1>5, <1>7
  <2>2. RequestOK(Ended("refused", FALSE))
    BY EndedIsOK
  <2>3. QED
    BY <1>5, <1>6, <2>1, <2>2, OneRequest
<1>8. CASE ~Settles(r.cmd, q, found)
  <2>0. PICK new : new = [r EXCEPT !.next = r.next + 1, !.seen = more]
    OBVIOUS
  <2>1. request' = [request EXCEPT ![w] = new]
    BY <1>5, <1>8, <2>0
  <2>2. RequestOK(new)
    <3>1. /\ DOMAIN more = DOMAIN r.seen \cup {q} /\ more[q] = Result(db, r.cmd, r.seen, q)
          /\ \A x \in DOMAIN r.seen \ {q} : more[x] = r.seen[x]
      BY <1>3, <1>4
    <3>2. ~Settles(r.cmd, q, Result(db, r.cmd, r.seen, q))
      BY <1>3, <1>8
    <3>3. QED
      BY <1>2, <1>5, <1>6, <2>0, <3>1, <3>2, QueriedIsOK
  <2>3. QED
    BY <1>5, <1>6, <2>1, <2>2, OneRequest
<1>9. QED
  BY <1>7, <1>8

\* Who saves unovertaken knows how things are.
LEMMA SaverIsUpToDate ==
  ASSUME StoreInv, NEW r, RequestOK(r), r.cmd # None, r.next = Len(Queries(r.cmd)) + 1, ~r.overtaken
  PROVE  UpToDate(db, r.cmd, r.seen)
<1>1. r.cmd.op \in Operations
  BY DEF RequestOK, StoreInv, MenuInv
<1>2. Len(Queries(r.cmd)) \in Nat
  BY <1>1, QueriesAreSequences
<1>3. DOMAIN r.seen = {Queries(r.cmd)[i] : i \in 1 .. Len(Queries(r.cmd))}
  BY <1>2 DEF RequestOK
<1>4. QED
  BY <1>3 DEF RequestOK, UpToDate

\* A new record is of the org of its facility.
LEMMA NewRecordIsOfTheOrg ==
  ASSUME StoreInv, NEW w \in Requests, Unended(w), NEW r, RequestOK(r), r.cmd # None,
         r.next = Len(Queries(r.cmd)) + 1, NEW work \in Works(r.cmd, r.seen, w),
         NEW s \in work, s.do = "insert", s.table = "records"
  PROVE  /\ s.row.facility \notin NewIds(w)
         /\ \A f \in db["facilities"] : f.id = s.row.facility => f.org = s.row.org
<1>1. r.cmd.op \in Operations
  BY DEF RequestOK, StoreInv, MenuInv
<1>2. r.cmd.op = "LogRecord"
  BY <1>1, StatementsOfCommands
<1>3. s.row.facility = r.cmd.facility /\ s.row.org = r.cmd.org
  BY <1>2 DEF Works, LogRecord, Insert
<1>4. "facility" \in DOMAIN r.seen
  <2>1. Queries(r.cmd) = <<"facility", "sameDay", "catalog">>
    BY <1>2 DEF Queries
  <2>2. 1 \in 1 .. r.next - 1 /\ Queries(r.cmd)[1] = "facility"
    BY <2>1
  <2>3. QED
    BY <2>2 DEF RequestOK
<1>5. Belongs("facilities", "org", r.cmd.facility, r.cmd.org)
  BY <1>4 DEF RequestOK, OwnersInv
<1>6. QED
  BY <1>3, <1>5 DEF Belongs

\* Nothing can disturb a request that is not in hand.
LEMMA OthersStay ==
  ASSUME NEW r, RequestOK(r), r.cmd = None
  PROVE  RequestOK(r)'
BY DEF RequestOK

\* One that is in hand when another saves is overtaken.
LEMMA OvertakenIsOK ==
  ASSUME NEW r, RequestOK(r), r.cmd # None, menu' = menu, OwnersInv(r.cmd, r.seen)',
         NEW flag \in BOOLEAN, ~flag => db' = db /\ ~r.overtaken,
         NEW new, new = [r EXCEPT !.overtaken = flag]
  PROVE  RequestOK(new)' /\ new.outcome = r.outcome
<1>1. r = [cmd |-> r.cmd, seen |-> r.seen, next |-> r.next, overtaken |-> r.overtaken,
           outcome |-> r.outcome]
  BY DEF RequestOK
<1>2. /\ new.cmd = r.cmd /\ new.seen = r.seen /\ new.next = r.next
      /\ new.overtaken = flag /\ new.outcome = r.outcome
      /\ new = [cmd |-> new.cmd, seen |-> new.seen, next |-> new.next, overtaken |-> new.overtaken,
                outcome |-> new.outcome]
  BY <1>1
<1>3. ~flag => \A q \in DOMAIN r.seen : r.seen[q] = Result(db, r.cmd, r.seen, q)'
  BY DEF RequestOK
<1>4. QED
  BY <1>2, <1>3 DEF RequestOK

\* What a save leaves behind.
LEMMA SavedTables ==
  ASSUME StoreInv, NEW w \in Requests, NEW r, r = request[w], InHand(w),
         r.next = Len(Queries(r.cmd)) + 1,
         NEW work \in Works(r.cmd, r.seen, w), Commits(db, work)
  PROVE  /\ Unended(w) /\ RequestOK(r) /\ Tidy(work, w)
         /\ WellFormed(After(db, work)) /\ Positive(After(db, work)["limits"])
         /\ \A t \in Tables : Ids(After(db, work)[t]) \subseteq Ids(db[t]) \cup NewIds(w)
         /\ ~r.overtaken => /\ OneLimitPerType => OneOfEachType(After(db, work)["limits"])
                            /\ RangesAreOrdered => Ordered(After(db, work)["ranges"])
<1>1. RequestOK(r) /\ r.cmd # None /\ Unended(w)
  BY DEF StoreInv, RequestsInv, InHand, RequestOK, Unended
<1>2. r.cmd \in menu /\ MenuInv
  BY <1>1 DEF RequestOK, StoreInv
<1>3. Tidy(work, w)
  BY <1>2, WorksAreTidy
<1>4. WellFormed(db) /\ Positive(db["limits"]) /\ \A t \in Tables : Ids(db[t]) \cap NewIds(w) = {}
  BY <1>1 DEF StoreInv, IdsAreNew, LimitsArePositive
<1>5. WellFormed(After(db, work))
  <2>1. \A s \in work : s.do = "insert" /\ s.table = "records" =>
          /\ s.row.facility \notin NewIds(w)
          /\ \A f \in db["facilities"] : f.id = s.row.facility => f.org = s.row.org
    BY <1>1, NewRecordIsOfTheOrg
  <2>2. PICK e : e = After(db, work)
    OBVIOUS
  <2>3. KeysAreUnique(e)
    BY <2>2 DEF Commits
  <2>4. WellFormed(e)
    BY <1>3, <1>4, <2>1, <2>2, <2>3, SavedWellFormed
  <2>5. QED
    BY <2>2, <2>4
<1>6. Positive(After(db, work)["limits"])
  BY <1>3, <1>4, PositiveStays
<1>7. \A t \in Tables : Ids(After(db, work)[t]) \subseteq Ids(db[t]) \cup NewIds(w)
  BY <1>3, <1>4, NewIdsAreUsed
<1>8. ASSUME ~r.overtaken, OneLimitPerType
      PROVE  OneOfEachType(After(db, work)["limits"])
  <2>1. UpToDate(db, r.cmd, r.seen)
    BY <1>1, <1>8, SaverIsUpToDate
  <2>2. OneOfEachType(db["limits"])
    BY <1>8 DEF OneLimitPerType
  <2>3. QED
    BY <1>2, <1>3, <1>4, <2>1, <2>2, LimitsStayDistinct
<1>9. ASSUME ~r.overtaken, RangesAreOrdered
      PROVE  Ordered(After(db, work)["ranges"])
  <2>1. UpToDate(db, r.cmd, r.seen)
    BY <1>1, <1>9, SaverIsUpToDate
  <2>2. Ordered(db["ranges"])
    BY <1>9 DEF RangesAreOrdered
  <2>3. QED
    BY <1>2, <1>3, <1>4, <2>1, <2>2, RangesStayOrdered
<1>10. QED
  BY <1>1, <1>3, <1>5, <1>6, <1>7, <1>8, <1>9

\* A request saves.
LEMMA StoredStep ==
  ASSUME StoreInv, NEW w \in Requests, NEW r, r = request[w], InHand(w),
         r.next = Len(Queries(r.cmd)) + 1,
         NEW work \in Works(r.cmd, r.seen, w), Commits(db, work), Stored(w, work), UNCHANGED menu
  PROVE  StoreInv'
<1>1. db' = After(db, work)
  BY DEF Stored
<1>2. PICK flag \in [Requests -> BOOLEAN] :
        \A v \in Requests : flag[v] = (request[v].overtaken \/ db' # db)
  <2>1. \A v \in Requests : request[v].overtaken \in BOOLEAN
    BY DEF StoreInv, RequestsInv, RequestOK
  <2>2. PICK flag : flag = [v \in Requests |-> request[v].overtaken \/ db' # db]
    OBVIOUS
  <2>3. flag \in [Requests -> BOOLEAN]
    BY <2>1, <2>2
  <2>4. QED
    BY <2>2, <2>3
<1>3. /\ request' = [v \in Requests |-> request'[v]]
      /\ request'[w] = Ended("saved", FALSE)
      /\ \A v \in Requests \ {w} :
           request'[v] = IF InHand(v) THEN [request[v] EXCEPT !.overtaken = flag[v]] ELSE request[v]
  <2>1. \A v \in Requests \ {w} : InHand(v) =>
          request'[v] = [request[v] EXCEPT !.overtaken = request[v].overtaken \/ db' # db]
    BY <1>1 DEF Stored
  <2>2. \A v \in Requests \ {w} : ~InHand(v) => request'[v] = request[v]
    BY DEF Stored
  <2>3. request' = [v \in Requests |-> request'[v]] /\ request'[w] = Ended("saved", FALSE)
    BY DEF Stored
  <2>4. QED
    BY <1>2, <2>1, <2>2, <2>3
<1>4. /\ Unended(w) /\ RequestOK(r) /\ Tidy(work, w)
      /\ WellFormed(db)' /\ Positive(db["limits"])'
      /\ \A t \in Tables : Ids(db[t])' \subseteq Ids(db[t]) \cup NewIds(w)
      /\ ~r.overtaken => /\ OneLimitPerType => OneOfEachType(db["limits"])'
                         /\ RangesAreOrdered => Ordered(db["ranges"])'
  BY <1>1, SavedTables
<1>5. RequestOK(Ended("saved", FALSE))' /\ ~Unended(w)'
  <2>1. RequestOK(Ended("saved", FALSE)) /\ Ended("saved", FALSE).outcome # "none"
    BY EndedIsOK
  <2>2. PICK e : e = Ended("saved", FALSE)
    OBVIOUS
  <2>3. e.cmd = None
    BY <2>2 DEF Ended, Waiting
  <2>4. RequestOK(e)'
    BY <2>1, <2>2, <2>3, OthersStay
  <2>5. QED
    BY <1>3, <2>1, <2>2, <2>4 DEF Unended
<1>6. ASSUME NEW v \in Requests \ {w}
      PROVE  /\ RequestOK(request[v])
             /\ InHand(v) => \E new : /\ new = [request[v] EXCEPT !.overtaken = flag[v]]
                                      /\ request'[v] = new /\ new.outcome = request[v].outcome
             /\ request'[v].outcome = request[v].outcome
  <2>1. PICK x : x = request[v]
    OBVIOUS
  <2>2. RequestOK(x)
    BY <2>1 DEF StoreInv, RequestsInv
  <2>3. x = [cmd |-> x.cmd, seen |-> x.seen, next |-> x.next, overtaken |-> x.overtaken,
             outcome |-> x.outcome]
    BY <2>2 DEF RequestOK
  <2>4. [x EXCEPT !.overtaken = flag[v]].outcome = x.outcome
    BY <2>3
  <2>5. QED
    BY <1>3, <2>1, <2>2, <2>4
<1>7. \A v \in Requests : Unended(v)' => Unended(v) /\ v # w
  BY <1>5, <1>6 DEF Unended
<1>8. ASSUME NEW v \in Requests \ {w}
      PROVE  RequestOK(request[v])'
  <2>1. PICK x : x = request[v]
    OBVIOUS
  <2>2. RequestOK(x)
    BY <1>6, <1>8, <2>1
  <2>3. CASE ~InHand(v)
    <3>1. RequestOK(x)'
      BY <2>1, <2>2, <2>3, OthersStay DEF InHand
    <3>2. request'[v] = x
      BY <1>3, <1>8, <2>1, <2>3
    <3>3. QED
      BY <3>1, <3>2
  <2>4. CASE InHand(v)
    <3>1. x.cmd # None /\ OwnersInv(x.cmd, x.seen)
      BY <2>1, <2>2, <2>4 DEF InHand, RequestOK
    <3>2. OwnersInv(x.cmd, x.seen)'
      <4>1. WellFormed(db) /\ \A u \in Requests : Unended(u)' => Unended(u)
        BY <1>7 DEF StoreInv
      <4>2. QED
        BY <1>1, <1>4, <3>1, <4>1, SeenOwnersStay
    <3>3. PICK new : new = [x EXCEPT !.overtaken = flag[v]]
      OBVIOUS
    <3>4. flag[v] \in BOOLEAN /\ (~flag[v] => db' = db /\ ~x.overtaken)
      BY <1>2, <2>1
    <3>5. RequestOK(new)'
      BY <2>2, <3>1, <3>2, <3>3, <3>4, OvertakenIsOK
    <3>6. request'[v] = new
      BY <1>3, <1>8, <2>1, <2>4, <3>3
    <3>7. QED
      BY <3>5, <3>6
  <2>5. QED
    BY <2>3, <2>4
<1>9. RequestsInv'
  <2>1. RequestOK(request[w])'
    BY <1>3, <1>5
  <2>2. QED
    BY <1>3, <1>8, <2>1 DEF RequestsInv
<1>10. MenuInv'
  BY DEF StoreInv, MenuInv
<1>11. IdsAreNew'
  <2>1. SUFFICES ASSUME NEW v \in Requests, Unended(v)', NEW t \in Tables
                 PROVE  Ids(db[t])' \cap NewIds(v) = {}
    BY DEF IdsAreNew
  <2>2. Unended(v) /\ v # w
    BY <1>7, <2>1
  <2>3. Ids(db[t]) \cap NewIds(v) = {} /\ NewIds(w) \cap NewIds(v) = {}
    BY <2>2, RequestsAssumption DEF StoreInv, IdsAreNew
  <2>4. QED
    BY <1>4, <2>3
<1>12. raced' \in BOOLEAN /\ (~raced' => Rules')
  <2>1. raced' = (raced \/ (r.overtaken /\ db' # db))
    BY <1>1 DEF Stored
  <2>2. raced' \in BOOLEAN
    BY <2>1
  <2>3. ASSUME ~raced'
        PROVE  Rules'
    <3>1. ~raced /\ (~r.overtaken \/ db' = db)
      BY <2>1, <2>3
    <3>2. OneLimitPerType /\ RangesAreOrdered
      BY <3>1 DEF StoreInv, Rules
    <3>3. CASE db' = db
      BY <3>2, <3>3 DEF Rules, OneLimitPerType, RangesAreOrdered
    <3>4. CASE ~r.overtaken
      BY <1>4, <3>2, <3>4 DEF Rules, OneLimitPerType, RangesAreOrdered
    <3>5. QED
      BY <3>1, <3>3, <3>4
  <2>4. QED
    BY <2>2, <2>3
<1>13. LimitsArePositive'
  BY <1>4 DEF LimitsArePositive
<1>14. QED
  BY <1>4, <1>9, <1>10, <1>11, <1>12, <1>13 DEF StoreInv

\* A request decides and saves.
LEMMA SaveStep ==
  ASSUME StoreInv, NEW w \in Requests, Save(w)
  PROVE  StoreInv'
<1>1. PICK r : r = request[w]
  OBVIOUS
<1>2. InHand(w) /\ r.next = Len(Queries(r.cmd)) + 1 /\ menu' = menu
  BY <1>1 DEF Save
<1>3. RequestOK(r) /\ r.cmd # None /\ Unended(w)
  BY <1>1, <1>2 DEF StoreInv, RequestsInv, InHand, RequestOK, Unended
<1>4. CASE request' = [request EXCEPT ![w] = Ended("refused", FALSE)] /\ UNCHANGED <<db, raced>>
  <2>1. RequestOK(Ended("refused", FALSE))
    BY EndedIsOK
  <2>2. QED
    BY <1>2, <1>3, <1>4, <2>1, OneRequest
<1>5. ASSUME NEW work \in Works(r.cmd, r.seen, w), Commits(db, work), Stored(w, work)
      PROVE  StoreInv'
  BY <1>1, <1>2, <1>5, StoredStep
<1>6. ASSUME NEW work \in Works(r.cmd, r.seen, w), ~Commits(db, work),
             request' = [request EXCEPT ![w] = Ended("failed", r.overtaken)], UNCHANGED <<db, raced>>
      PROVE  StoreInv'
  <2>1. r.cmd \in menu /\ MenuInv /\ WellFormed(db)
    BY <1>3 DEF RequestOK, StoreInv
  <2>2. Tidy(work, w)
    BY <1>6, <2>1, WorksAreTidy
  <2>3. r.overtaken
    <3>1. SUFFICES ASSUME ~r.overtaken PROVE FALSE
      OBVIOUS
    <3>2. UpToDate(db, r.cmd, r.seen)
      BY <1>2, <1>3, <3>1, SaverIsUpToDate
    <3>3. Commits(db, work)
      BY <1>6, <2>1, <2>2, <3>2, UpToDateCommits
    <3>4. QED
      BY <1>6, <3>3
  <2>4. r.overtaken \in BOOLEAN
    BY <1>3 DEF RequestOK
  <2>5. PICK e : e = Ended("failed", r.overtaken)
    OBVIOUS
  <2>6. RequestOK(e) /\ e.outcome # "none"
    BY <2>3, <2>4, <2>5, EndedIsOK
  <2>7. request' = [request EXCEPT ![w] = e]
    BY <1>6, <2>5
  <2>8. QED
    BY <1>2, <1>3, <1>6, <2>6, <2>7, OneRequest
<1>7. QED
  BY <1>1, <1>4, <1>5, <1>6 DEF Save

\* The first state is as it should be.
LEMMA InitStore ==
  ASSUME Init
  PROVE  StoreInv
<1>1. PICK s \in Scenarios : db = s.db /\ menu = s.menu
  BY DEF Init
<1>2. PICK waiting : waiting = Waiting
  OBVIOUS
<1>3. waiting = [cmd |-> None, seen |-> <<>>, next |-> 1, overtaken |-> FALSE, outcome |-> "none"]
  BY <1>2 DEF Waiting
<1>4. RequestOK(waiting)
  BY <1>3 DEF RequestOK
<1>5. RequestsInv
  BY <1>2, <1>4 DEF Init, RequestsInv
<1>6. WellFormed(db) /\ Rules /\ LimitsArePositive
  BY <1>1, ScenariosAssumption DEF Rules, OneLimitPerType, RangesAreOrdered, LimitsArePositive
<1>7. IdsAreNew
  BY <1>1, ScenariosAssumption DEF IdsAreNew
<1>8. MenuInv
  BY <1>1, ScenariosAssumption DEF MenuInv
<1>9. QED
  BY <1>5, <1>6, <1>7, <1>8 DEF Init, StoreInv

\* Nothing happens.
LEMMA NothingHappens ==
  ASSUME StoreInv, UNCHANGED vars
  PROVE  StoreInv'
<1>1. db' = db /\ menu' = menu /\ request' = request /\ raced' = raced
  BY DEF vars
<1>2. \A v \in Requests : Unended(v)' => Unended(v)
  BY <1>1 DEF Unended
<1>3. ASSUME NEW v \in Requests PROVE RequestOK(request[v])'
  <2>1. PICK x : x = request[v]
    OBVIOUS
  <2>2. RequestOK(x)
    BY <1>3, <2>1 DEF StoreInv, RequestsInv
  <2>3. RequestOK(x)'
    BY <1>1, <1>2, <2>2, RequestStays
  <2>4. QED
    BY <1>1, <2>1, <2>3
<1>4. RequestsInv'
  BY <1>1, <1>3 DEF StoreInv, RequestsInv
<1>5. MenuInv' /\ IdsAreNew'
  BY <1>1, <1>2 DEF StoreInv, MenuInv, IdsAreNew
<1>6. QED
  BY <1>1, <1>4, <1>5 DEF StoreInv, LimitsArePositive, Rules, OneLimitPerType, RangesAreOrdered

\* The store obeys its invariant.
THEOREM StoreInvHolds ==
  Spec => []StoreInv
<1>1. Init => StoreInv
  BY InitStore
<1>2. StoreInv /\ [Next]_vars => StoreInv'
  <2>1. SUFFICES ASSUME StoreInv, [Next]_vars PROVE StoreInv'
    OBVIOUS
  <2>2. ASSUME NEW w \in Requests, Arrive(w) PROVE StoreInv'
    BY <2>1, <2>2, ArriveStep
  <2>3. ASSUME NEW w \in Requests, Query(w) PROVE StoreInv'
    BY <2>1, <2>3, QueryStep
  <2>4. ASSUME NEW w \in Requests, Save(w) PROVE StoreInv'
    BY <2>1, <2>4, SaveStep
  <2>5. CASE UNCHANGED vars
    BY <2>1, <2>5, NothingHappens
  <2>6. QED
    BY <2>1, <2>2, <2>3, <2>4, <2>5 DEF Next
<1>3. QED
  BY <1>1, <1>2, PTL DEF Spec

\* The database refuses only who was overtaken: what handlers check for themselves
\* covers every index and every owner, as long as nobody else saves in between.
THEOREM OnlyRacesFailHolds ==
  Spec => []OnlyRacesFail
<1>1. StoreInv => OnlyRacesFail
  BY DEF StoreInv, RequestsInv, RequestOK, OnlyRacesFail
<1>2. QED
  BY <1>1, StoreInvHolds, PTL

\* The database stays well-formed.
THEOREM TypeOKHolds ==
  Spec => []TypeOK
<1>1. StoreInv => TypeOK
  BY DEF StoreInv, RequestsInv, RequestOK, TypeOK
<1>2. QED
  BY <1>1, StoreInvHolds, PTL

-----------------------------------------------------------------------------
(* What a save may do                                                      *)

\* Work that request w saves.
Saves(w, work) ==
  /\ InHand(w) /\ request[w].next = Len(Queries(request[w].cmd)) + 1
  /\ work \in Works(request[w].cmd, request[w].seen, w)
  /\ Commits(db, work) /\ Stored(w, work)

\* The tables change only when a request saves.
LEMMA OnlySavesChange ==
  ASSUME [Next]_vars, db' # db
  PROVE  \E w \in Requests : \E work : Saves(w, work)
<1>1. PICK w \in Requests : Save(w)
  BY DEF Next, Arrive, Query, vars
<1>2. PICK work \in Works(request[w].cmd, request[w].seen, w) : Commits(db, work) /\ Stored(w, work)
  BY <1>1 DEF Save
<1>3. Saves(w, work)
  BY <1>1, <1>2 DEF Save, Saves
<1>4. QED
  BY <1>3

\* Who has ended as saved has saved.
LEMMA SavedHasSaved ==
  ASSUME StoreInv, [Next]_vars, NEW w \in Requests, SavedBy(w)
  PROVE  \E work : Saves(w, work)
<1>1. PICK r : r = request[w]
  OBVIOUS
<1>2. RequestOK(r) /\ r.outcome = "none" /\ InHand(w)
  BY <1>1 DEF StoreInv, RequestsInv, RequestOK, SavedBy, InHand
<1>3. request = [v \in Requests |-> request[v]] /\ request'[w].outcome = "saved"
  BY DEF StoreInv, RequestsInv, SavedBy
<1>4. r = [cmd |-> r.cmd, seen |-> r.seen, next |-> r.next, overtaken |-> r.overtaken,
           outcome |-> r.outcome]
  BY <1>2 DEF RequestOK
<1>5. \A o \in BOOLEAN : Ended("refused", o).outcome = "refused" /\ Ended("failed", o).outcome = "failed"
  BY DEF Ended, Waiting
<1>6. request'[w] # r
  BY <1>1, <1>2, <1>3
<1>7. PICK v \in Requests : Arrive(v) \/ Query(v) \/ Save(v)
  BY <1>1, <1>6 DEF Next, vars
<1>8. ~Arrive(v)
  BY <1>1, <1>2, <1>3, <1>6 DEF Arrive
<1>9. ~Query(v)
  <2>1. SUFFICES ASSUME Query(v) PROVE FALSE
    OBVIOUS
  <2>2. PICK new : request' = [request EXCEPT ![v] = new] /\ (new.outcome = "refused" \/ new.outcome = request[v].outcome)
    <3>1. PICK x : x = request[v]
      OBVIOUS
    <3>2. x = [cmd |-> x.cmd, seen |-> x.seen, next |-> x.next, overtaken |-> x.overtaken,
               outcome |-> x.outcome]
      BY <3>1 DEF StoreInv, RequestsInv, RequestOK
    <3>3. PICK more, next : \/ request' = [request EXCEPT ![v] = Ended("refused", FALSE)]
                            \/ request' = [request EXCEPT ![v] = [x EXCEPT !.next = next, !.seen = more]]
      BY <2>1, <3>1 DEF Query
    <3>4. PICK new : new = [x EXCEPT !.next = next, !.seen = more]
      OBVIOUS
    <3>5. new.outcome = x.outcome
      BY <3>2, <3>4
    <3>6. QED
      BY <1>5, <3>1, <3>3, <3>4, <3>5
  <2>3. QED
    BY <1>1, <1>2, <1>3, <1>6, <2>2
<1>10. Save(v)
  BY <1>7, <1>8, <1>9
<1>11. ASSUME NEW new, request' = [request EXCEPT ![v] = new], new.outcome # "saved"
       PROVE  FALSE
  BY <1>1, <1>3, <1>6, <1>11
<1>12. ~ (request' = [request EXCEPT ![v] = Ended("refused", FALSE)])
  BY <1>5, <1>11
<1>13. ~ (request' = [request EXCEPT ![v] = Ended("failed", request[v].overtaken)])
  <2>1. request[v].overtaken \in BOOLEAN
    BY DEF StoreInv, RequestsInv, RequestOK
  <2>2. QED
    BY <1>5, <1>11, <2>1
<1>14. PICK work \in Works(request[v].cmd, request[v].seen, v) : Commits(db, work) /\ Stored(v, work)
  BY <1>10, <1>12, <1>13 DEF Save
<1>15. v = w
  <2>1. SUFFICES ASSUME v # w PROVE FALSE
    OBVIOUS
  <2>2. request'[w] = [r EXCEPT !.overtaken = r.overtaken \/ After(db, work) # db]
    BY <1>1, <1>2, <1>14, <2>1 DEF Stored
  <2>3. PICK flag : flag = (r.overtaken \/ After(db, work) # db)
    OBVIOUS
  <2>4. request'[w] = [r EXCEPT !.overtaken = flag]
    BY <2>2, <2>3
  <2>5. QED
    BY <1>2, <1>3, <1>4, <2>4
<1>16. QED
  BY <1>10, <1>14, <1>15 DEF Save, Saves

\* What is known of who saves.
LEMMA SaverIsOK ==
  ASSUME StoreInv, NEW w \in Requests, NEW work, Saves(w, work), NEW r, r = request[w]
  PROVE  /\ RequestOK(r) /\ r.cmd # None /\ r.cmd \in menu /\ MenuInv /\ Unended(w)
         /\ r.next = Len(Queries(r.cmd)) + 1 /\ r.cmd.op \in Operations
         /\ work \in Works(r.cmd, r.seen, w) /\ Tidy(work, w)
         /\ WellFormed(db) /\ db' = After(db, work) /\ WellFormed(After(db, work))
         /\ raced' = (raced \/ (r.overtaken /\ db' # db))
         /\ ~r.overtaken => UpToDate(db, r.cmd, r.seen)
<1>1. /\ InHand(w) /\ r.next = Len(Queries(r.cmd)) + 1
      /\ work \in Works(r.cmd, r.seen, w) /\ Commits(db, work) /\ Stored(w, work)
  BY DEF Saves
<1>2. RequestOK(r) /\ Unended(w) /\ Tidy(work, w) /\ WellFormed(After(db, work))
  BY <1>1, SavedTables
<1>3. r.cmd # None /\ r.cmd \in menu /\ MenuInv /\ r.cmd.op \in Operations
  BY <1>1, <1>2 DEF InHand, RequestOK, StoreInv, MenuInv
<1>4. db' = After(db, work) /\ raced' = (raced \/ (r.overtaken /\ db' # db))
  BY <1>1 DEF Stored
<1>5. ~r.overtaken => UpToDate(db, r.cmd, r.seen)
  BY <1>1, <1>2, <1>3, SaverIsUpToDate
<1>6. QED
  BY <1>1, <1>2, <1>3, <1>4, <1>5 DEF StoreInv

\* The rules that the aggregates check for themselves, I-D18 to I-D20 and I-D25, hold
\* until a request saves what it had decided before another one saved.
THEOREM RulesHoldWithoutRacesHolds ==
  Spec => RulesHoldWithoutRaces
<1>1. StoreInv => LimitsArePositive /\ (~raced => OneLimitPerType /\ RangesAreOrdered)
  BY DEF StoreInv, Rules
<1>2. StoreInv /\ [Next]_vars => [~raced' => FacilitiesKeepAPermit]_vars
  <2>1. SUFFICES ASSUME StoreInv, [Next]_vars, ~raced'
                 PROVE  FacilitiesKeepAPermit
    OBVIOUS
  <2>2. KeepPermits(db, db') => FacilitiesKeepAPermit
    BY DEF KeepPermits, FacilitiesKeepAPermit
  <2>3. CASE db' = db
    <3>1. KeepPermits(db, db')
      BY <2>3 DEF KeepPermits
    <3>2. QED
      BY <2>2, <3>1
  <2>4. CASE db' # db
    <3>1. PICK w \in Requests : \E work : Saves(w, work)
      BY <2>1, <2>4, OnlySavesChange
    <3>2. PICK work : Saves(w, work)
      BY <3>1
    <3>3. PICK r : r = request[w]
      OBVIOUS
    <3>4. /\ r.cmd \in menu /\ MenuInv /\ work \in Works(r.cmd, r.seen, w) /\ Tidy(work, w)
          /\ WellFormed(db) /\ db' = After(db, work)
          /\ raced' = (raced \/ (r.overtaken /\ db' # db))
          /\ ~r.overtaken => UpToDate(db, r.cmd, r.seen)
      BY <2>1, <3>2, <3>3, SaverIsOK
    <3>5. UpToDate(db, r.cmd, r.seen)
      BY <2>1, <2>4, <3>4
    <3>6. KeepPermits(db, After(db, work))
      BY <3>4, <3>5, PermitsAreKept
    <3>7. QED
      BY <2>2, <3>4, <3>6
  <2>5. QED
    BY <2>3, <2>4
<1>3. QED
  BY <1>1, <1>2, StoreInvHolds, TypeOKHolds, PTL DEF Spec, RulesHoldWithoutRaces

-----------------------------------------------------------------------------
(* What is stored under the name of a field                                *)

\* What a request has seen of the catalog names fields that are still in it.
SeenNames(c, seen) ==
  /\ "catalog" \in DOMAIN seen => \A f \in seen["catalog"] : f.propertyName \in PropertyNames(db)
  /\ "named" \in DOMAIN seen => c.propertyName \in PropertyNames(db)

CatalogInv ==
  /\ NamesAreKnown(db)
  /\ \A w \in Requests : InHand(w) => SeenNames(request[w].cmd, request[w].seen)

\* No command deletes a field, and none changes the name of a field or of a range.
LEMMA NamesAreImmutable ==
  ASSUME NEW c, c.op \in Operations, NEW seen, NEW w, NEW work \in Works(c, seen, w), NEW s \in work
  PROVE  /\ s.table = "fields" => s.do # "delete"
         /\ s.table \in {"fields", "ranges"} /\ s.do = "update" => "propertyName" \notin s.columns
<1>1. CASE c.op = "CreateField"
  BY <1>1 DEF Works, CreateField, Insert
<1>2. CASE c.op = "SeedCatalog"
  BY <1>2 DEF Works, SeedCatalog, Insert
<1>3. CASE c.op \in {"UpdateField", "RetireField", "ReactivateField"}
  <2>1. PICK old, new : /\ work = Update("fields", old, new)
                        /\ "propertyName" \in DOMAIN old => new.propertyName = old.propertyName
    <3>1. PICK old : old = CHOOSE x \in seen["field"] : TRUE
      OBVIOUS
    <3>2. PICK new : /\ \/ new = [old EXCEPT !.friendlyName = c.friendlyName, !.dataType = c.dataType]
                        \/ new = [old EXCEPT !.active = FALSE]
                        \/ new = [old EXCEPT !.active = TRUE]
                     /\ work = Update("fields", old, new)
      BY <1>3, <3>1 DEF Works, UpdateField, RetireField, ReactivateField
    <3>3. "propertyName" \in DOMAIN old => new.propertyName = old.propertyName
      BY <3>2
    <3>4. QED
      BY <3>2, <3>3
  <2>2. QED
    BY <2>1 DEF Update
<1>4. CASE c.op = "SetRange"
  <2>1. CASE seen["range"] = {}
    BY <1>4, <2>1 DEF Works, SetRange, Insert
  <2>2. CASE seen["range"] # {}
    <3>1. PICK old \in seen["range"] :
            work = Update("ranges", old, [old EXCEPT !.low = c.low, !.high = c.high])
      BY <1>4, <2>2 DEF Works, SetRange
    <3>2. PICK new : new = [old EXCEPT !.low = c.low, !.high = c.high]
      OBVIOUS
    <3>3. work = Update("ranges", old, new)
          /\ ("propertyName" \in DOMAIN old => new.propertyName = old.propertyName)
      BY <3>1, <3>2
    <3>4. QED
      BY <3>3 DEF Update
  <2>3. QED
    BY <2>1, <2>2
<1>5. CASE c.op \notin {"CreateField", "SeedCatalog", "UpdateField", "RetireField",
                        "ReactivateField", "SetRange"}
  <2>1. s.table \notin {"fields", "ranges"}
    BY <1>5, StatementsOfCommands
  <2>2. QED
    BY <2>1
<1>6. QED
  BY <1>1, <1>2, <1>3, <1>4, <1>5

\* So every name that the catalog has had it keeps.
LEMMA NamesStay ==
  ASSUME WellFormed(db), NEW c, c.op \in Operations, NEW seen, NEW w,
         NEW work \in Works(c, seen, w)
  PROVE  PropertyNames(db) \subseteq PropertyNames(After(db, work))
<1>1. SUFFICES ASSUME NEW f \in db["fields"]
               PROVE  f.propertyName \in PropertyNames(After(db, work))
  BY DEF PropertyNames
<1>2. IsRow("fields", f)
  BY DEF WellFormed, IsRow, Tables
<1>3. \A s \in work : /\ s.table = "fields" => s.do # "delete"
                      /\ s.table \in {"fields", "ranges"} /\ s.do = "update" => "propertyName" \notin s.columns
  BY NamesAreImmutable
<1>4. PICK new : new = Rewritten(f, Chosen(work, "fields", "update"))
  OBVIOUS
<1>5. new.propertyName = f.propertyName
  <2>1. "propertyName" \in ColumnsOf("fields")
    BY DEF ColumnsOf
  <2>2. \A s \in Chosen(work, "fields", "update") : "propertyName" \notin s.columns
    BY <1>3 DEF Chosen
  <2>3. QED
    BY <1>2, <1>4, <2>1, <2>2, RewrittenRow
<1>6. new \in Written(db, work, "fields")
  <2>1. Chosen(work, "fields", "delete") = {}
    BY <1>3 DEF Chosen
  <2>2. QED
    BY <1>4, <2>1 DEF Written
<1>7. new \in After(db, work)["fields"]
  BY <1>6, AfterTables
<1>8. QED
  BY <1>5, <1>7 DEF PropertyNames

\* The commands that store something under a name have seen the name.
LEMMA SavedNamesAreKnown ==
  ASSUME StoreInv, CatalogInv, NEW w \in Requests, NEW work, Saves(w, work)
  PROVE  NamesAreKnown(db)' /\ PropertyNames(db) \subseteq PropertyNames(db)'
<1>1. PICK r : r = request[w]
  OBVIOUS
<1>2. PICK c : c = r.cmd
  OBVIOUS
<1>3. /\ RequestOK(r) /\ c # None /\ r.next = Len(Queries(c)) + 1 /\ c.op \in Operations
      /\ work \in Works(c, r.seen, w) /\ Tidy(work, w) /\ WellFormed(db) /\ db' = After(db, work)
  BY <1>1, <1>2, SaverIsOK
<1>4. PICK e : e = After(db, work)
  OBVIOUS
<1>5. PropertyNames(db) \subseteq PropertyNames(e)
  BY <1>3, <1>4, NamesStay
<1>6. SeenNames(c, r.seen)
  BY <1>1, <1>2, <1>3 DEF CatalogInv, InHand
<1>7. ASSUME NEW x \in e["records"], NEW i \in DOMAIN x.values
      PROVE  x.values[i] \in PropertyNames(db)
  <2>1. x \in Written(db, work, "records")
    BY <1>4, <1>7, AfterIsWritten DEF Tables
  <2>2. CASE x \in db["records"]
    BY <1>7, <2>2 DEF CatalogInv, NamesAreKnown
  <2>3. CASE x \notin db["records"]
    <3>1. PICK s \in work : s.table = "records" /\ s.do = "insert" /\ x = s.row
      BY <1>3, <2>1, <2>3, WrittenRow DEF Tables
    <3>2. c.op = "LogRecord"
      BY <1>3, <3>1, StatementsOfCommands
    <3>3. /\ x.values = [j \in DOMAIN c.values |-> c.values[j].field]
          /\ \A j \in DOMAIN c.values : MayBeRecorded(r.seen, c.values[j])
      BY <1>3, <3>1, <3>2 DEF Works, LogRecord, Insert
    <3>4. "catalog" \in DOMAIN r.seen
      <4>1. Queries(c) = <<"facility", "sameDay", "catalog">>
        BY <3>2 DEF Queries
      <4>2. 3 \in 1 .. r.next - 1 /\ Queries(c)[3] = "catalog"
        BY <1>3, <4>1
      <4>3. QED
        BY <1>2, <1>3, <4>2 DEF RequestOK
    <3>5. QED
      BY <1>6, <1>7, <3>3, <3>4 DEF SeenNames, MayBeRecorded
  <2>4. QED
    BY <2>2, <2>3
<1>8. ASSUME NEW x \in e["ranges"]
      PROVE  x.propertyName \in PropertyNames(db)
  <2>1. x \in Written(db, work, "ranges")
    BY <1>4, <1>8, AfterIsWritten DEF Tables
  <2>2. CASE \E s \in work : s.table = "ranges" /\ s.do = "insert" /\ x = s.row
    <3>1. PICK s \in work : s.table = "ranges" /\ s.do = "insert" /\ x = s.row
      BY <2>2
    <3>2. c.op = "SetRange"
      BY <1>3, <3>1, StatementsOfCommands
    <3>3. x.propertyName = c.propertyName
      <4>1. CASE r.seen["range"] = {}
        BY <1>3, <3>1, <3>2, <4>1 DEF Works, SetRange, Insert
      <4>2. CASE r.seen["range"] # {}
        <5>1. PICK old, new : work = Update("ranges", old, new)
          BY <1>3, <3>2, <4>2 DEF Works, SetRange
        <5>2. QED
          BY <3>1, <5>1 DEF Update
      <4>3. QED
        BY <4>1, <4>2
    <3>4. "named" \in DOMAIN r.seen
      <4>1. Queries(c) = <<"named", "range">>
        BY <3>2 DEF Queries
      <4>2. 1 \in 1 .. r.next - 1 /\ Queries(c)[1] = "named"
        BY <1>3, <4>1
      <4>3. QED
        BY <1>2, <1>3, <4>2 DEF RequestOK
    <3>5. QED
      BY <1>6, <3>3, <3>4 DEF SeenNames
  <2>3. CASE ~ \E s \in work : s.table = "ranges" /\ s.do = "insert" /\ x = s.row
    <3>1. PICK row \in db["ranges"] : x = Rewritten(row, Chosen(work, "ranges", "update"))
      BY <1>3, <2>1, <2>3, WrittenRow DEF Tables
    <3>2. IsRow("ranges", row) /\ "propertyName" \in ColumnsOf("ranges")
      BY <1>3 DEF WellFormed, IsRow, Tables, ColumnsOf
    <3>3. \A s \in Chosen(work, "ranges", "update") : "propertyName" \notin s.columns
      BY <1>3, NamesAreImmutable DEF Chosen
    <3>4. x.propertyName = row.propertyName
      BY <3>1, <3>2, <3>3, RewrittenRow
    <3>5. QED
      BY <3>1, <3>4 DEF CatalogInv, NamesAreKnown
  <2>4. QED
    BY <2>2, <2>3
<1>9. NamesAreKnown(e)
  BY <1>5, <1>7, <1>8 DEF NamesAreKnown
<1>10. QED
  BY <1>3, <1>4, <1>5, <1>9

\* A query is answered from the catalog as it is.
LEMMA FoundNames ==
  ASSUME NEW c, NEW seen, SeenNames(c, seen), NEW q, ~Settles(c, q, Result(db, c, seen, q)),
         NEW more, DOMAIN more = DOMAIN seen \cup {q}, more[q] = Result(db, c, seen, q),
         \A x \in DOMAIN seen \ {q} : more[x] = seen[x]
  PROVE  SeenNames(c, more)
<1>1. q = "catalog" => \A f \in more["catalog"] : f.propertyName \in PropertyNames(db)
  BY DEF Result, PropertyNames
<1>2. ASSUME q = "named"
      PROVE  c.propertyName \in PropertyNames(db)
  <2>1. PICK f \in FieldByName(db, c) : TRUE
    BY <1>2 DEF Result, Settles
  <2>2. QED
    BY <2>1 DEF FieldByName, PropertyNames
<1>3. QED
  BY <1>1, <1>2 DEF SeenNames

\* A step of a request keeps what is known of names.
LEMMA CatalogStep ==
  ASSUME StoreInv, CatalogInv, [Next]_vars
  PROVE  CatalogInv'
<1>1. request = [v \in Requests |-> request[v]] /\ \A v \in Requests : RequestOK(request[v])
  BY DEF StoreInv, RequestsInv
<1>2. ASSUME NEW w \in Requests, NEW new, request' = [request EXCEPT ![w] = new], db' = db,
             new.cmd # None => SeenNames(new.cmd, new.seen)
      PROVE  CatalogInv'
  <2>1. ASSUME NEW v \in Requests, InHand(v)'
        PROVE  SeenNames(request[v].cmd, request[v].seen)'
    <3>1. PICK x : x = request'[v]
      OBVIOUS
    <3>2. x.cmd # None /\ (v # w => x = request[v]) /\ (v = w => x = new)
      BY <1>1, <1>2, <2>1, <3>1 DEF InHand
    <3>3. SeenNames(x.cmd, x.seen)
      BY <1>2, <2>1, <3>2 DEF CatalogInv, InHand
    <3>4. SeenNames(x.cmd, x.seen)'
      BY <1>2, <3>3 DEF SeenNames
    <3>5. QED
      BY <3>1, <3>4
  <2>2. NamesAreKnown(db)'
    BY <1>2 DEF CatalogInv
  <2>3. QED
    BY <2>1, <2>2 DEF CatalogInv
<1>3. \A outcome, o : Ended(outcome, o).cmd = None
  BY DEF Ended, Waiting
<1>4. ASSUME NEW w \in Requests, Arrive(w)
      PROVE  CatalogInv'
  <2>1. PICK r : r = request[w]
    OBVIOUS
  <2>2. r = [cmd |-> r.cmd, seen |-> r.seen, next |-> r.next, overtaken |-> r.overtaken,
             outcome |-> r.outcome]
    BY <1>1, <2>1 DEF RequestOK
  <2>3. PICK none : none = [q \in {} |-> {}]
    OBVIOUS
  <2>4. PICK c \in menu : request' = [request EXCEPT ![w] = [r EXCEPT !.cmd = c, !.seen = none]]
    BY <1>1, <1>4, <2>1, <2>3 DEF Arrive
  <2>5. PICK new : new = [r EXCEPT !.cmd = c, !.seen = none]
    OBVIOUS
  <2>6. new.seen = none /\ DOMAIN none = {}
    BY <2>2, <2>3, <2>5
  <2>7. SeenNames(new.cmd, new.seen)
    BY <2>6 DEF SeenNames
  <2>8. QED
    BY <1>2, <1>4, <2>4, <2>5, <2>7 DEF Arrive
<1>5. ASSUME NEW w \in Requests, Query(w)
      PROVE  CatalogInv'
  <2>1. PICK r : r = request[w]
    OBVIOUS
  <2>2. PICK q : q = Queries(r.cmd)[r.next]
    OBVIOUS
  <2>3. PICK found : found = Result(db, r.cmd, r.seen, q)
    OBVIOUS
  <2>4. PICK more : more = [x \in DOMAIN r.seen \cup {q} |-> IF x = q THEN found ELSE r.seen[x]]
    OBVIOUS
  <2>5. /\ r.cmd # None /\ db' = db
        /\ request' = [request EXCEPT ![w] =
                         IF Settles(r.cmd, q, found) THEN Ended("refused", FALSE)
                         ELSE [r EXCEPT !.next = @ + 1, !.seen = more]]
    BY <1>5, <2>1, <2>2, <2>3, <2>4 DEF Query, InHand
  <2>6. CASE Settles(r.cmd, q, found)
    <3>1. PICK e : e = Ended("refused", FALSE)
      OBVIOUS
    <3>2. request' = [request EXCEPT ![w] = e] /\ e.cmd = None
      BY <1>3, <2>5, <2>6, <3>1
    <3>3. QED
      BY <1>2, <2>5, <3>2
  <2>7. CASE ~Settles(r.cmd, q, found)
    <3>1. PICK new : new = [r EXCEPT !.next = r.next + 1, !.seen = more]
      OBVIOUS
    <3>2. request' = [request EXCEPT ![w] = new]
      BY <2>5, <2>7, <3>1
    <3>3. new.cmd = r.cmd /\ new.seen = more
      BY <1>1, <2>1, <3>1 DEF RequestOK
    <3>4. SeenNames(r.cmd, r.seen)
      BY <2>1, <2>5 DEF CatalogInv, InHand
    <3>5. /\ DOMAIN more = DOMAIN r.seen \cup {q} /\ more[q] = Result(db, r.cmd, r.seen, q)
          /\ \A x \in DOMAIN r.seen \ {q} : more[x] = r.seen[x]
      BY <2>3, <2>4
    <3>6. SeenNames(r.cmd, more)
      BY <2>3, <2>7, <3>4, <3>5, FoundNames
    <3>7. QED
      BY <1>2, <2>5, <3>2, <3>3, <3>6
  <2>8. QED
    BY <2>6, <2>7
<1>6. ASSUME NEW w \in Requests, Save(w)
      PROVE  CatalogInv'
  <2>1. CASE /\ \E e : e.cmd = None /\ request' = [request EXCEPT ![w] = e]
             /\ db' = db
    BY <1>2, <2>1
  <2>2. ASSUME NEW work, Saves(w, work)
        PROVE  CatalogInv'
    <3>1. NamesAreKnown(db)' /\ PropertyNames(db) \subseteq PropertyNames(db)'
      BY <2>2, SavedNamesAreKnown
    <3>2. ASSUME NEW v \in Requests, InHand(v)'
          PROVE  SeenNames(request[v].cmd, request[v].seen)'
      <4>1. PICK x : x = request[v]
        OBVIOUS
      <4>2. PICK y : y = request'[v]
        OBVIOUS
      <4>3. y.cmd # None
        BY <3>2, <4>2 DEF InHand
      <4>4. v # w /\ InHand(v)
        BY <1>3, <2>2, <3>2, <4>2, <4>3 DEF Saves, Stored, InHand
      <4>5. PICK flag : y = [x EXCEPT !.overtaken = flag]
        <5>1. PICK flag : flag = (x.overtaken \/ After(db, work) # db)
          OBVIOUS
        <5>2. y = [x EXCEPT !.overtaken = flag]
          BY <2>2, <4>1, <4>2, <4>4, <5>1 DEF Saves, Stored
        <5>3. QED
          BY <5>2
      <4>6. y.cmd = x.cmd /\ y.seen = x.seen
        BY <1>1, <4>1, <4>5 DEF RequestOK
      <4>7. SeenNames(x.cmd, x.seen)
        BY <4>1, <4>4 DEF CatalogInv
      <4>8. SeenNames(x.cmd, x.seen)'
        BY <3>1, <4>7 DEF SeenNames
      <4>9. QED
        BY <4>2, <4>6, <4>8
    <3>3. QED
      BY <3>1, <3>2 DEF CatalogInv
  <2>3. QED
    <3>1. PICK f : f = Ended("refused", FALSE)
      OBVIOUS
    <3>2. PICK g : g = Ended("failed", request[w].overtaken)
      OBVIOUS
    <3>3. f.cmd = None /\ g.cmd = None
      BY <1>3, <3>1, <3>2
    <3>4. \/ request' = [request EXCEPT ![w] = f] /\ db' = db
          \/ request' = [request EXCEPT ![w] = g] /\ db' = db
          \/ \E work : Saves(w, work)
      BY <1>6, <3>1, <3>2 DEF Save, Saves
    <3>5. QED
      BY <2>1, <2>2, <3>3, <3>4
<1>7. CASE UNCHANGED vars
  <2>1. request' = request /\ db' = db
    BY <1>7 DEF vars
  <2>2. \A v \in Requests : InHand(v)' => InHand(v)
    BY <2>1 DEF InHand
  <2>3. ASSUME NEW v \in Requests, InHand(v)'
        PROVE  SeenNames(request[v].cmd, request[v].seen)'
    <3>1. SeenNames(request[v].cmd, request[v].seen)
      BY <2>2, <2>3 DEF CatalogInv
    <3>2. QED
      BY <2>1, <3>1 DEF SeenNames
  <2>4. QED
    BY <2>1, <2>3 DEF CatalogInv
<1>8. QED
  BY <1>4, <1>5, <1>6, <1>7 DEF Next

\* I-D21: whatever requests have seen of the catalog and whoever changes it meanwhile,
\* each value of a record and each range keeps its field.
THEOREM NothingIsOrphanedHolds ==
  Spec => []NothingIsOrphaned
<1>1. Init => CatalogInv
  <2>1. SUFFICES ASSUME Init PROVE CatalogInv
    OBVIOUS
  <2>2. PICK s \in Scenarios : db = s.db
    BY <2>1 DEF Init
  <2>3. \A w \in Requests : request[w].cmd = None
    BY <2>1 DEF Init, Waiting
  <2>4. NamesAreKnown(db)
    BY <2>2, ScenariosAssumption
  <2>5. QED
    BY <2>3, <2>4 DEF CatalogInv, InHand
<1>2. StoreInv /\ CatalogInv /\ [Next]_vars => CatalogInv'
  BY CatalogStep
<1>3. CatalogInv => NothingIsOrphaned
  BY DEF CatalogInv, NothingIsOrphaned
<1>4. QED
  BY <1>1, <1>2, <1>3, StoreInvHolds, PTL DEF Spec

-----------------------------------------------------------------------------
(* Orgs are isolated                                                       *)

\* Every statement is on a row of the org of c.
OfOrg(work, c) ==
  \A s \in work :
    /\ s.table \in {"facilities", "permits", "limits", "records", "ranges"}
    /\ s.table = "records" => s.do = "insert"
    /\ s.table \in {"facilities", "records", "ranges"} =>
         IF s.do = "insert" THEN s.row.org = c.org ELSE Belongs(s.table, "org", s.row.id, c.org)
    /\ s.table \in {"permits", "limits"} =>
         /\ Belongs("facilities", "org", c.facility, c.org)
         /\ IF s.do = "insert" THEN s.row.facility = c.facility
            ELSE Belongs(s.table, "facility", s.row.id, c.facility)

\* What was seen under a name that a handler uses.
LEMMA FacilitySeen ==
  ASSUME NEW r, RequestOK(r), r.cmd # None, r.next = Len(Queries(r.cmd)) + 1,
         r.cmd.op \in FacilityOps,
         NEW f, f = CHOOSE x \in r.seen["facility"] : TRUE
  PROVE  /\ Belongs("facilities", "org", r.cmd.facility, r.cmd.org)
         /\ "id" \in DOMAIN f.row /\ f.row.id = r.cmd.facility
         /\ \A p \in f.permits : Belongs("permits", "facility", p.id, r.cmd.facility)
         /\ \A l \in f.limits : Belongs("limits", "facility", l.id, r.cmd.facility)
<1>1. Queries(r.cmd) = <<"facility">>
  BY DEF Queries, FacilityOps
<1>2. 1 \in 1 .. r.next - 1 /\ Queries(r.cmd)[1] = "facility"
  BY <1>1
<1>3. "facility" \in DOMAIN r.seen
  BY <1>2 DEF RequestOK
<1>4. r.seen["facility"] # {}
  BY <1>3 DEF RequestOK, Settles
<1>5. f \in r.seen["facility"]
  BY <1>4
<1>6. QED
  BY <1>3, <1>5 DEF RequestOK, OwnersInv

\* A command of an org changes rows of that org.
LEMMA WorksAreOfTheOrg ==
  ASSUME NEW r, RequestOK(r), r.cmd # None, r.next = Len(Queries(r.cmd)) + 1,
         NEW c, c = r.cmd, c.op \in OrgCommands, NEW w, NEW work \in Works(c, r.seen, w)
  PROVE  OfOrg(work, c)
<1>1. CASE c.op = "AddFacility"
  <2>1. work = Insert("facilities", [id |-> w, org |-> c.org, name |-> c.name])
    BY <1>1 DEF Works, AddFacility
  <2>2. \A s \in work : s.do = "insert" /\ s.table = "facilities" /\ s.row.org = c.org
    BY <2>1 DEF Insert
  <2>3. QED
    BY <2>2 DEF OfOrg
<1>2. CASE c.op = "LogRecord"
  <2>1. \A s \in work : s.do = "insert" /\ s.table = "records" /\ s.row.org = c.org
    BY <1>2 DEF Works, LogRecord, Insert
  <2>2. QED
    BY <2>1 DEF OfOrg
<1>3. CASE c.op = "SetRange"
  <2>1. CASE r.seen["range"] = {}
    <3>1. \A s \in work : s.do = "insert" /\ s.table = "ranges" /\ s.row.org = c.org
      BY <1>3, <2>1 DEF Works, SetRange, Insert
    <3>2. QED
      BY <3>1 DEF OfOrg
  <2>2. CASE r.seen["range"] # {}
    <3>1. PICK old \in r.seen["range"] :
            work = Update("ranges", old, [old EXCEPT !.low = c.low, !.high = c.high])
      BY <1>3, <2>2 DEF Works, SetRange
    <3>2. "range" \in DOMAIN r.seen
      <4>1. Queries(c) = <<"named", "range">>
        BY <1>3 DEF Queries
      <4>2. 2 \in 1 .. r.next - 1 /\ Queries(c)[2] = "range"
        BY <4>1
      <4>3. QED
        BY <4>2 DEF RequestOK
    <3>3. "id" \in DOMAIN old /\ Belongs("ranges", "org", old.id, c.org)
      BY <3>1, <3>2 DEF RequestOK, OwnersInv
    <3>4. [old EXCEPT !.low = c.low, !.high = c.high].id = old.id
      BY <3>3
    <3>5. \A s \in work : s.do = "update" /\ s.table = "ranges" /\ s.row.id = old.id
      <4>1. PICK new : new = [old EXCEPT !.low = c.low, !.high = c.high]
        OBVIOUS
      <4>2. work = Update("ranges", old, new) /\ new.id = old.id
        BY <3>1, <3>4, <4>1
      <4>3. QED
        BY <4>2 DEF Update
    <3>6. QED
      BY <3>3, <3>5 DEF OfOrg
  <2>3. QED
    BY <2>1, <2>2
<1>4. CASE c.op \in FacilityOps
  <2>1. PICK f : f = CHOOSE x \in r.seen["facility"] : TRUE
    OBVIOUS
  <2>2. /\ Belongs("facilities", "org", c.facility, c.org)
        /\ "id" \in DOMAIN f.row /\ f.row.id = c.facility
        /\ \A p \in f.permits : Belongs("permits", "facility", p.id, c.facility)
        /\ \A l \in f.limits : Belongs("limits", "facility", l.id, c.facility)
    BY <1>4, <2>1, FacilitySeen
  <2>3. CASE c.op = "RenameFacility"
    <3>1. work = Update("facilities", f.row, [f.row EXCEPT !.name = c.name])
      BY <2>1, <2>3 DEF Works, RenameFacility
    <3>2. [f.row EXCEPT !.name = c.name].id = c.facility
      BY <2>2
    <3>3. \A s \in work : s.do = "update" /\ s.table = "facilities" /\ s.row.id = c.facility
      <4>1. PICK new : new = [f.row EXCEPT !.name = c.name]
        OBVIOUS
      <4>2. work = Update("facilities", f.row, new) /\ new.id = c.facility
        BY <3>1, <3>2, <4>1
      <4>3. QED
        BY <4>2 DEF Update
    <3>4. QED
      BY <2>2, <3>3 DEF OfOrg
  <2>4. CASE c.op = "RemoveFacility"
    <3>1. work = Delete("facilities", {f.row}) \cup Delete("permits", f.permits)
                   \cup Delete("limits", f.limits)
      BY <2>1, <2>4 DEF Works, RemoveFacility
    <3>2. \A s \in work : /\ s.do = "delete"
                          /\ \/ s.table = "facilities" /\ s.row = f.row
                             \/ s.table = "permits" /\ s.row \in f.permits
                             \/ s.table = "limits" /\ s.row \in f.limits
      BY <3>1 DEF Delete
    <3>3. QED
      BY <2>2, <3>2 DEF OfOrg
  <2>5. CASE c.op = "AddPermit"
    <3>1. \A s \in work : s.do = "insert" /\ s.table = "permits" /\ s.row.facility = c.facility
      BY <2>5 DEF Works, AddPermit, Insert
    <3>2. QED
      BY <2>2, <3>1 DEF OfOrg
  <2>6. CASE c.op = "RemovePermit"
    <3>1. PICK p \in f.permits : work = Delete("permits", {p})
      BY <2>1, <2>6 DEF Works, RemovePermit
    <3>2. \A s \in work : s.do = "delete" /\ s.table = "permits" /\ s.row = p
      BY <3>1 DEF Delete
    <3>3. QED
      BY <2>2, <3>2 DEF OfOrg
  <2>7. CASE c.op \in {"AddLimit", "UpdateLimit", "RemoveLimit"}
    <3>1. PICK new : new = NewLimitRow(c, w)
      OBVIOUS
    <3>2. new.facility = c.facility
      BY <3>1 DEF NewLimitRow
    <3>3. \A l \in OfType(c, f) : l \in f.limits
      BY DEF OfType
    <3>4. \A s \in work : /\ s.table = "limits"
                          /\ \/ s.do = "insert" /\ s.row = new
                             \/ s.do = "delete" /\ s.row \in f.limits
      <4>1. CASE c.op = "AddLimit"
        <5>1. work = Insert("limits", new)
          BY <2>1, <3>1, <4>1 DEF Works, AddLimit
        <5>2. QED
          BY <5>1 DEF Insert
      <4>2. CASE c.op = "UpdateLimit"
        <5>1. PICK l \in OfType(c, f) : work = Delete("limits", {l}) \cup Insert("limits", new)
          BY <2>1, <3>1, <4>2 DEF Works, UpdateLimit
        <5>2. QED
          BY <3>3, <5>1 DEF Insert, Delete
      <4>3. CASE c.op = "RemoveLimit"
        <5>1. PICK l \in OfType(c, f) : work = Delete("limits", {l})
          BY <2>1, <4>3 DEF Works, RemoveLimit
        <5>2. QED
          BY <3>3, <5>1 DEF Delete
      <4>4. QED
        BY <2>7, <4>1, <4>2, <4>3
    <3>5. QED
      BY <2>2, <3>2, <3>4 DEF OfOrg
  <2>8. QED
    BY <1>4, <2>3, <2>4, <2>5, <2>6, <2>7 DEF FacilityOps
<1>5. QED
  BY <1>1, <1>2, <1>3, <1>4 DEF OrgCommands, FacilityOps

\* A row that no statement is about stays as it is.
LEMMA RowIsKept ==
  ASSUME NEW d, WellFormed(d), NEW work, NEW t \in Tables, NEW row \in d[t],
         \A s \in work : s.table = t /\ s.do # "insert" => s.row.id # row.id
  PROVE  row \in Written(d, work, t) /\ Rewritten(row, Chosen(work, t, "update")) = row
<1>1. IsRow(t, row)
  BY DEF WellFormed, IsRow
<1>2. \A s \in Chosen(work, t, "update") : s.row.id # row.id
  BY DEF Chosen
<1>3. Rewritten(row, Chosen(work, t, "update")) = row
  BY <1>1, <1>2, RewrittenRow
<1>4. row.id \notin {s.row.id : s \in Chosen(work, t, "delete")}
  BY DEF Chosen
<1>5. QED
  BY <1>3, <1>4 DEF Written

\* Rows of another org, of a table that says whose they are: nothing is written on them,
\* and no others come.
LEMMA OthersRowsAreKept ==
  ASSUME WellFormed(db), NEW c, NEW w, NEW work, Tidy(work, w), OfOrg(work, c),
         NEW t \in {"facilities", "records", "ranges"}, NEW o, o # c.org
  PROVE  /\ \A row \in db[t] : row.org = o => row \in Written(db, work, t)
         /\ \A row \in Written(db, work, t) : row.org = o => row \in db[t]
<1>0. t \in Tables
  BY DEF Tables
<1>1. ASSUME NEW row \in db[t], row.org = o
      PROVE  row \in Written(db, work, t) /\ Rewritten(row, Chosen(work, t, "update")) = row
  <2>1. \A s \in work : s.table = t /\ s.do # "insert" => s.row.id # row.id
    <3>1. SUFFICES ASSUME NEW s \in work, s.table = t, s.do # "insert", s.row.id = row.id
                   PROVE  FALSE
      OBVIOUS
    <3>2. Belongs(t, "org", s.row.id, c.org)
      BY <3>1 DEF OfOrg
    <3>3. row["org"] = c.org
      BY <1>1, <3>1, <3>2 DEF Belongs
    <3>4. QED
      BY <1>1, <3>3
  <2>2. QED
    BY <1>0, <1>1, <2>1, RowIsKept
<1>2. ASSUME NEW new \in Written(db, work, t), new.org = o
      PROVE  new \in db[t]
  <2>1. ~ \E s \in work : s.table = t /\ s.do = "insert" /\ new = s.row
    BY <1>2 DEF OfOrg
  <2>2. PICK row \in db[t] : new = Rewritten(row, Chosen(work, t, "update")) /\ new.org = row.org
    BY <1>0, <1>2, <2>1, WrittenRow
  <2>3. QED
    BY <1>1, <1>2, <2>2
<1>3. QED
  BY <1>1, <1>2

\* So nothing of another org changes.
LEMMA OtherOrgsStay ==
  ASSUME WellFormed(db), NEW c, NEW w, NEW work, Tidy(work, w), OfOrg(work, c),
         NEW e, e = After(db, work), NEW o, o # c.org
  PROVE  RowsOf(e, o) = RowsOf(db, o)
<1>1. e["orgs"] = db["orgs"] /\ e["fields"] = db["fields"] /\ e["templates"] = db["templates"]
  <2>1. \A t \in {"orgs", "fields", "templates"} : Written(db, work, t) = db[t]
    <3>1. \A t \in {"orgs", "fields", "templates"} : t \in Tables /\ \A s \in work : s.table # t
      BY DEF OfOrg, Tables
    <3>2. QED
      BY <3>1, WrittenKept
  <2>2. QED
    BY <2>1, AfterTables
<1>2. Cascaded(db) = db /\ db = [t \in Tables |-> db[t]]
  BY DEF WellFormed
<1>3. \A f : f \in e["facilities"] /\ f.org = o <=> f \in db["facilities"] /\ f.org = o
  <2>1. \A f \in Written(db, work, "facilities") : f.org = o => f \in db["facilities"]
    BY OthersRowsAreKept
  <2>2. \A f \in db["facilities"] : f.org = o => f \in Written(db, work, "facilities")
    BY OthersRowsAreKept
  <2>3. \A f \in db["facilities"] : f.org \in Ids(db["orgs"])
    BY <1>2, OwnersStay
  <2>4. e["facilities"] = {f \in Written(db, work, "facilities") :
                             f.org \in Ids(Written(db, work, "orgs"))}
    BY AfterTables
  <2>5. Written(db, work, "orgs") = db["orgs"]
    BY <1>1, AfterTables
  <2>6. QED
    BY <2>1, <2>2, <2>3, <2>4, <2>5
<1>4. \A r : r \in e["ranges"] /\ r.org = o <=> r \in db["ranges"] /\ r.org = o
  <2>1. e["ranges"] = Written(db, work, "ranges")
    BY AfterTables
  <2>2. QED
    BY <2>1, OthersRowsAreKept
<1>5. \A r : r \in e["records"] /\ r.org = o <=> r \in db["records"] /\ r.org = o
  <2>1. e["records"] = {r \in Written(db, work, "records") : r.facility \in Ids(e["facilities"])}
    BY AfterTables
  <2>2. ASSUME NEW r \in db["records"], r.org = o
        PROVE  r.facility \in Ids(e["facilities"])
    <3>1. PICK f \in db["facilities"] : f.id = r.facility /\ f.org = o
      BY <2>2 DEF WellFormed
    <3>2. QED
      BY <1>3, <3>1 DEF Ids
  <2>3. QED
    BY <2>1, <2>2, OthersRowsAreKept
<1>6. ASSUME NEW t \in {"permits", "limits"}, NEW row, NEW f, f.id = row.facility, f.org = o,
             f \in db["facilities"] \/ f \in e["facilities"]
      PROVE  row \in e[t] <=> row \in db[t]
  <2>1. f \in db["facilities"] /\ f \in e["facilities"] /\ t \in Tables
    BY <1>3, <1>6 DEF Tables
  <2>2. ASSUME Belongs("facilities", "org", c.facility, c.org)
        PROVE  row.facility # c.facility
    <3>1. SUFFICES ASSUME row.facility = c.facility PROVE FALSE
      OBVIOUS
    <3>2. f["org"] = c.org
      BY <1>6, <2>1, <2>2, <3>1 DEF Belongs
    <3>3. QED
      BY <1>6, <3>2
  <2>3. e[t] = {x \in Written(db, work, t) : x.facility \in Ids(e["facilities"])}
    BY <1>6, AfterTables
  <2>4. ASSUME row \in db[t]
        PROVE  row \in e[t]
    <3>1. ASSUME NEW s \in work, s.table = t, s.do # "insert", s.row.id = row.id
          PROVE  FALSE
      <4>1. /\ Belongs("facilities", "org", c.facility, c.org)
            /\ Belongs(t, "facility", s.row.id, c.facility)
        BY <1>6, <3>1 DEF OfOrg
      <4>2. row["facility"] = c.facility
        BY <2>4, <3>1, <4>1 DEF Belongs
      <4>3. QED
        BY <2>2, <4>1, <4>2
    <3>2. row \in Written(db, work, t)
      BY <2>1, <2>4, <3>1, RowIsKept
    <3>3. QED
      BY <1>6, <2>1, <2>3, <3>2 DEF Ids
  <2>5. ASSUME row \in e[t]
        PROVE  row \in db[t]
    <3>1. row \in Written(db, work, t)
      BY <2>3, <2>5
    <3>2. ~ \E s \in work : s.table = t /\ s.do = "insert" /\ row = s.row
      BY <1>6, <2>2 DEF OfOrg
    <3>3. QED
      BY <1>6, <2>1, <3>1, <3>2, WrittenRow
  <2>6. QED
    BY <2>4, <2>5
<1>7. ASSUME NEW t \in Tables
      PROVE  {row \in e[t] : o \in OrgOf(e, t, row)} = {row \in db[t] : o \in OrgOf(db, t, row)}
  <2>1. CASE t \in {"facilities", "records", "ranges"}
    <3>1. \A d, row : o \in OrgOf(d, t, row) <=> row.org = o
      BY <2>1 DEF OrgOf
    <3>2. QED
      BY <1>3, <1>4, <1>5, <2>1, <3>1
  <2>2. CASE t \in {"permits", "limits"}
    <3>1. \A d, row : o \in OrgOf(d, t, row) <=>
                        \E f \in d["facilities"] : f.id = row.facility /\ f.org = o
      BY <2>2 DEF OrgOf
    <3>2. \A row : o \in OrgOf(e, t, row) <=> o \in OrgOf(db, t, row)
      BY <1>3, <3>1
    <3>3. \A row : o \in OrgOf(db, t, row) => (row \in e[t] <=> row \in db[t])
      BY <1>6, <2>2, <3>1
    <3>4. QED
      BY <3>2, <3>3
  <2>3. CASE t \in {"orgs", "fields", "templates"}
    <3>1. \A d, row : OrgOf(d, t, row) = {}
      BY <2>3 DEF OrgOf
    <3>2. QED
      BY <3>1
  <2>4. QED
    BY <2>1, <2>2, <2>3 DEF Tables
<1>8. QED
  BY <1>7 DEF RowsOf

\* I-D03: a request of one org changes no row of another's, however much of what it
\* decides on is out of date and whatever facility its address names.
THEOREM OrgsAreIsolatedHolds ==
  Spec => OrgsAreIsolated
<1> DEFINE Isolated(w) == \A o \in Ids(db["orgs"]) \ {request[w].cmd.org} : RowsOf(db', o) = RowsOf(db, o)
<1>1. ASSUME StoreInv, [Next]_vars, NEW w \in Requests, SavedBy(w), request[w].cmd.op \in OrgCommands
      PROVE  Isolated(w)
  <2>1. PICK work : Saves(w, work)
    BY <1>1, SavedHasSaved
  <2>2. PICK r : r = request[w]
    OBVIOUS
  <2>3. /\ RequestOK(r) /\ r.cmd # None /\ r.next = Len(Queries(r.cmd)) + 1
        /\ work \in Works(r.cmd, r.seen, w) /\ Tidy(work, w)
        /\ WellFormed(db) /\ db' = After(db, work)
    BY <1>1, <2>1, <2>2, SaverIsOK
  <2>4. PICK c : c = r.cmd
    OBVIOUS
  <2>5. OfOrg(work, c)
    BY <1>1, <2>2, <2>3, <2>4, WorksAreOfTheOrg
  <2>6. PICK e : e = After(db, work)
    OBVIOUS
  <2>7. \A o : o # c.org => RowsOf(e, o) = RowsOf(db, o)
    BY <2>3, <2>5, <2>6, OtherOrgsStay
  <2>8. QED
    BY <2>2, <2>3, <2>4, <2>6, <2>7
<1>2. StoreInv /\ [Next]_vars =>
        [\A w \in Requests : SavedBy(w) /\ request[w].cmd.op \in OrgCommands => Isolated(w)]_vars
  BY <1>1
<1>3. QED
  BY <1>2, StoreInvHolds, PTL DEF Spec, OrgsAreIsolated
=============================================================================
