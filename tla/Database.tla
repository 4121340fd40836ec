-------------------------------- MODULE Database --------------------------------
(***************************************************************************)
(* The SQL Server database behind RecordKeepingDbContext: its tables, the  *)
(* indexes and foreign keys that the EF Core configurations declare, and   *)
(* what SaveChanges does, one transaction of inserts, deletes and updates  *)
(* of the columns that changed.  Every row has an id.  Pure definitions.   *)
(***************************************************************************)
EXTENDS Integers, Sequences, FiniteSets

(***************************************************************************)
(* A row and its columns other than the id:                                *)
(*   orgs        tenant                                                    *)
(*   facilities  org, name                                                 *)
(*   permits     facility, expires, value                                  *)
(*   limits      facility, type, tons                                      *)
(*   records     org, facility, date, values (a sequence of field names)   *)
(*   fields      propertyName, friendlyName, dataType, active              *)
(*   ranges      org, propertyName, low, high                              *)
(*   templates   name, rdl, updated                                        *)
(***************************************************************************)
Tables == {"orgs", "facilities", "permits", "limits", "records", "fields", "ranges", "templates"}

Ids(rows) == {row.id : row \in rows}

(***************************************************************************)
(* Statements.  EF Core compares an entity with what it loaded and updates *)
(* the columns that differ; without a difference there is no statement.    *)
(***************************************************************************)
Insert(table, row) == {[do |-> "insert", table |-> table, row |-> row, columns |-> {}]}
Delete(table, rows) == {[do |-> "delete", table |-> table, row |-> row, columns |-> {}] : row \in rows}
Update(table, old, new) ==
  {[do |-> "update", table |-> table, row |-> new, columns |-> {c \in DOMAIN old : old[c] # new[c]}] :
     x \in {old} \ {new}}

Chosen(work, table, kind) == {s \in work : s.table = table /\ s.do = kind}

Rewritten(row, updates) ==
  [c \in DOMAIN row |->
     IF \E s \in updates : s.row.id = row.id /\ c \in s.columns
     THEN (CHOOSE s \in updates : s.row.id = row.id /\ c \in s.columns).row[c] ELSE row[c]]

\* An org takes its facilities with it, and a facility its permits, limits and
\* records.  Limits of production fields refer to no org.
Cascaded(d) ==
  LET facilities == {f \in d["facilities"] : f.org \in Ids(d["orgs"])}
      owned(rows) == {row \in rows : row.facility \in Ids(facilities)}
  IN  [d EXCEPT !["facilities"] = facilities, !["permits"] = owned(@),
                !["limits"] = owned(@), !["records"] = owned(@)]

After(d, work) ==
  LET written(t) ==
        {Rewritten(row, Chosen(work, t, "update")) :
           row \in {r \in d[t] : r.id \notin {s.row.id : s \in Chosen(work, t, "delete")}}}
          \cup {s.row : s \in Chosen(work, t, "insert")}
  IN  Cascaded([t \in Tables |-> written(t)])

(***************************************************************************)
(* The unique indexes.                                                     *)
(***************************************************************************)
SameRecordKey(r, s) == r.facility = s.facility /\ r.date = s.date
SameValueKey(r) == \E i, j \in DOMAIN r.values : i # j /\ r.values[i] = r.values[j]
SameFieldKey(f, g) ==
  \/ f.propertyName = g.propertyName
  \/ f.active /\ g.active /\ f.friendlyName = g.friendlyName
SameRangeKey(r, s) == r.org = s.org /\ r.propertyName = s.propertyName

KeysAreUnique(d) ==
  /\ \A r, s \in d["records"] : r # s => ~SameRecordKey(r, s)
  /\ \A r \in d["records"] : ~SameValueKey(r)
  /\ \A f, g \in d["fields"] : f # g => ~SameFieldKey(f, g)
  /\ \A r, s \in d["ranges"] : r # s => ~SameRangeKey(r, s)

\* Every row to change is still there (EF counts the rows affected), every row
\* added has its owner, and no index is violated.  Otherwise SaveChanges throws
\* and nothing is stored.
Commits(d, work) ==
  /\ \A s \in work : s.do # "insert" => s.row.id \in Ids(d[s.table])
  /\ \A s \in work : s.do = "insert" => s.row \in After(d, work)[s.table]
  /\ KeysAreUnique(After(d, work))
=================================================================================
