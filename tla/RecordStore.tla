------------------------------- MODULE RecordStore -------------------------------
(***************************************************************************)
(* The store under concurrent requests.  Each request has a DbContext of   *)
(* its own; between its queries and its SaveChanges other requests may     *)
(* save, and nothing tells it: there are no row versions.                  *)
(***************************************************************************)
EXTENDS StoreHandlers

CONSTANTS
  Requests,     \* the requests that may come in; each also names the row it adds
  Scenarios,    \* what is stored at first, and the commands that come in: [db, menu]
  None          \* no command yet

ColumnsOf(t) ==
  CASE t = "orgs" -> {"id", "tenant"}
    [] t = "facilities" -> {"id", "org", "name"}
    [] t = "permits" -> {"id", "facility", "expires", "value"}
    [] t = "limits" -> {"id", "facility", "type", "tons"}
    [] t = "records" -> {"id", "org", "facility", "date", "values"}
    [] t = "fields" -> {"id", "propertyName", "friendlyName", "dataType", "active"}
    [] t = "ranges" -> {"id", "org", "propertyName", "low", "high"}
    [] t = "templates" -> {"id", "name", "rdl", "updated"}

\* Every table holds rows of its columns, each with an id of its own; a record
\* is of the org of its facility, no table has rows of an owner that has gone,
\* and no unique index is violated (the configurations under Persistence).
WellFormed(d) ==
  /\ d = [t \in Tables |-> d[t]]
  /\ \A t \in Tables : \A row \in d[t] :
       /\ row = [column \in ColumnsOf(t) |-> row[column]]
       /\ \A other \in d[t] : other.id = row.id => other = row
  /\ \A r \in d["records"] : \E f \in d["facilities"] : f.id = r.facility /\ f.org = r.org
  /\ Cascaded(d) = d /\ KeysAreUnique(d)

\* The rules that the aggregates check for themselves (Invariants.md:78-91, 188).
OneOfEachType(limits) == \A l, m \in limits : l.facility = m.facility /\ l.type = m.type => l = m
Positive(limits) == \A l \in limits : l.tons > 0
Ordered(ranges) == \A r \in ranges : r.low <= r.high

\* What is stored under the name of a field: the values of records, and ranges.
PropertyNames(d) == {f.propertyName : f \in d["fields"]}
NamesAreKnown(d) ==
  /\ \A r \in d["records"] : \A i \in DOMAIN r.values : r.values[i] \in PropertyNames(d)
  /\ \A r \in d["ranges"] : r.propertyName \in PropertyNames(d)

\* The ids of the rows that request w may add.
NewIds(w) == {w} \cup {<<w, s.propertyName>> : s \in SeedFields}

Operations ==
  {"CreateOrg", "UpdateOrg", "DeleteOrg", "AddFacility", "RenameFacility", "RemoveFacility",
   "AddPermit", "RemovePermit", "AddLimit", "UpdateLimit", "RemoveLimit", "LogRecord",
   "CreateField", "UpdateField", "RetireField", "ReactivateField", "SeedCatalog", "SetRange",
   "CreateTemplate", "UpdateTemplate", "DeleteTemplate"}

\* New ids are new, as those of Guid.NewGuid are.
ASSUME RequestsAssumption ==
  \A v, w \in Requests : v # w => NewIds(v) \cap NewIds(w) = {}

\* What is stored at first obeys the rules, and numbers are sent where numbers belong.
ASSUME ScenariosAssumption ==
  \A s \in Scenarios :
    /\ WellFormed(s.db) /\ NamesAreKnown(s.db)
    /\ OneOfEachType(s.db["limits"]) /\ Positive(s.db["limits"]) /\ Ordered(s.db["ranges"])
    /\ \A t \in Tables : \A w \in Requests : Ids(s.db[t]) \cap NewIds(w) = {}
    /\ \A c \in s.menu :
         /\ c # None /\ c.op \in Operations
         /\ c.op \in {"AddLimit", "UpdateLimit"} => c.tons \in Int
         /\ c.op = "SetRange" => c.low \in Int /\ c.high \in Int

VARIABLES
  db,        \* the tables
  menu,      \* the commands of this behaviour
  request,   \* request[w]: its command, what it has seen and how it ended
  raced      \* some request saved although others had since it began

vars == <<db, menu, request, raced>>

Waiting == [cmd |-> None, seen |-> <<>>, next |-> 1, overtaken |-> FALSE, outcome |-> "none"]
Ended(outcome, overtaken) ==
  [Waiting EXCEPT !.next = 0, !.outcome = outcome, !.overtaken = overtaken]

Init ==
  /\ \E s \in Scenarios : db = s.db /\ menu = s.menu
  /\ request = [w \in Requests |-> Waiting]
  /\ raced = FALSE

InHand(w) == request[w].cmd # None

\* A request comes in.
Arrive(w) ==
  /\ ~InHand(w) /\ request[w].outcome = "none"
  /\ \E c \in menu :
       request' = [request EXCEPT ![w].cmd = c, ![w].seen = [q \in {} |-> {}]]
  /\ UNCHANGED <<db, menu, raced>>

\* Its handler makes the next query.
Query(w) ==
  LET r == request[w]
  IN  /\ InHand(w) /\ r.next \in DOMAIN Queries(r.cmd)
      /\ LET q     == Queries(r.cmd)[r.next]
             found == Result(db, r.cmd, r.seen, q)
         IN  request' = [request EXCEPT ![w] =
               IF Settles(r.cmd, q, found) THEN Ended("refused", FALSE)
               ELSE [r EXCEPT !.next = @ + 1,
                              !.seen = [x \in DOMAIN r.seen \cup {q} |-> IF x = q THEN found ELSE r.seen[x]]]]
      /\ UNCHANGED <<db, menu, raced>>

\* It decides and saves.  Whoever is still in hand has been overtaken; an
\* overtaken request that saves makes the behaviour a raced one.
Stored(w, work) ==
  /\ db' = After(db, work)
  /\ request' = [v \in Requests |->
       IF v = w THEN Ended("saved", FALSE)
       ELSE IF InHand(v) THEN [request[v] EXCEPT !.overtaken = @ \/ After(db, work) # db] ELSE request[v]]
  /\ raced' = (raced \/ (request[w].overtaken /\ After(db, work) # db))

Save(w) ==
  LET r     == request[w]
      works == Works(r.cmd, r.seen, w)
  IN  /\ InHand(w) /\ r.next = Len(Queries(r.cmd)) + 1
      /\ \/ /\ works = {}
            /\ request' = [request EXCEPT ![w] = Ended("refused", FALSE)]
            /\ UNCHANGED <<db, raced>>
         \/ \E work \in works :
              \/ Commits(db, work) /\ Stored(w, work)
              \/ /\ ~Commits(db, work)
                 /\ request' = [request EXCEPT ![w] = Ended("failed", r.overtaken)]
                 /\ UNCHANGED <<db, raced>>
      /\ UNCHANGED menu

Next == \E w \in Requests : Arrive(w) \/ Query(w) \/ Save(w)

Spec == Init /\ [][Next]_vars

(***************************************************************************)
(* Properties.                                                             *)
(***************************************************************************)
\* The database is well-formed whatever the requests do.
TypeOK ==
  /\ WellFormed(db)
  /\ \A w \in Requests : request[w].outcome \in {"none", "refused", "saved", "failed"}
  /\ raced \in BOOLEAN

OneLimitPerType == OneOfEachType(db["limits"])
RangesAreOrdered == Ordered(db["ranges"])
LimitsArePositive == Positive(db["limits"])

\* I-D18 to I-D20 and I-D25 (Invariants.md:74-91, 188): the rules the aggregates check
\* for themselves hold after any requests, unless a request saved what it had decided
\* before another one saved. A facility with permits keeps one, unless it goes itself.
FacilitiesKeepAPermit ==
  \A f \in Ids(db["facilities"]) \cap Ids(db'["facilities"]) :
    (\E p \in db["permits"] : p.facility = f) => \E p \in db'["permits"] : p.facility = f
RulesHoldWithoutRaces ==
  /\ []TypeOK
  /\ [](LimitsArePositive /\ (~raced => OneLimitPerType /\ RangesAreOrdered))
  /\ [][~raced' => FacilitiesKeepAPermit]_vars

\* What the database would refuse, the handlers refuse before: only a request
\* that was overtaken ends in an error of the database, which no handler expects
\* (the checks of I-D21 to I-D24 and of the owner, against the indexes and keys).
OnlyRacesFail == \A w \in Requests : request[w].outcome = "failed" => request[w].overtaken

SavedBy(w) == InHand(w) /\ request'[w].outcome = "saved"

\* I-D03: a request of one org changes no row of another's, whatever facility
\* its address names and whoever else is at work (the filters on OrgId).
OrgOf(d, t, row) ==
  CASE t \in {"facilities", "records", "ranges"} -> {row.org}
    [] t \in {"permits", "limits"} -> {f.org : f \in {x \in d["facilities"] : x.id = row.facility}}
    [] OTHER -> {}
RowsOf(d, o) == [t \in Tables |-> {row \in d[t] : o \in OrgOf(d, t, row)}]
OrgCommands == {"AddFacility", "RenameFacility", "RemoveFacility", "AddPermit", "RemovePermit",
                "AddLimit", "UpdateLimit", "RemoveLimit", "LogRecord", "SetRange"}
OrgsAreIsolated ==
  [][\A w \in Requests : SavedBy(w) /\ request[w].cmd.op \in OrgCommands =>
       \A o \in Ids(db["orgs"]) \ {request[w].cmd.org} : RowsOf(db', o) = RowsOf(db, o)]_vars

\* I-D21 (Invariants.md:156-160): no record value and no range is orphaned. The
\* field it is stored under stays in the catalog under that name, although the
\* request that stored it may have seen the catalog before others retired,
\* relabelled or seeded fields, and wrote from entities as stale as its own.
NothingIsOrphaned == NamesAreKnown(db)

\* Facility.cs:184: the id that RemovePermit gets is that of the permit to remove.
RemovedPermitIsTheOneAsked ==
  [][\A w \in Requests : SavedBy(w) /\ request[w].cmd.op = "RemovePermit" =>
       Ids(db["permits"]) \ Ids(db'["permits"]) = {request[w].cmd.permit}]_vars
==================================================================================
