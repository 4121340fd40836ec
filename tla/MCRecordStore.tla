------------------------------ MODULE MCRecordStore ------------------------------
(***************************************************************************)
(* Parts of the store, each with the commands that touch it.               *)
(***************************************************************************)
EXTENDS RecordStore, TLC

CONSTANTS o1, o2, f1, f2, p1, p2, p3, l1, r1, x1, x2, t1, VOC, SO2, HotMix, Ash, Renewed

NoRows == [t \in Tables |-> {}]

TwoOrgs == {[id |-> o1, tenant |-> 0], [id |-> o2, tenant |-> 0]}
TwoFacilities == {[id |-> f1, org |-> o1, name |-> Ash], [id |-> f2, org |-> o2, name |-> Ash]}
TwoFields ==
  {[id |-> x1, propertyName |-> HotMix, friendlyName |-> HotMix, dataType |-> "number", active |-> TRUE],
   [id |-> x2, propertyName |-> Ash, friendlyName |-> HotMix, dataType |-> "yesno", active |-> FALSE]}

\* f1 has two permits of one number, the second a renewal of the first.
Facilities1 ==
  [db   |-> [NoRows EXCEPT !["orgs"] = TwoOrgs, !["facilities"] = TwoFacilities,
               !["permits"] = {[id |-> p1, facility |-> f1, expires |-> 1, value |-> Renewed],
                               [id |-> p2, facility |-> f1, expires |-> 2, value |-> Renewed]}],
   menu |-> {[op |-> "AddFacility", org |-> o1, name |-> Ash],
             [op |-> "AddFacility", org |-> o1, name |-> NoName],
             [op |-> "RenameFacility", org |-> o1, facility |-> f1, name |-> HotMix],
             [op |-> "RenameFacility", org |-> o1, facility |-> f1, name |-> NoName],
             [op |-> "RemoveFacility", org |-> o1, facility |-> f1],
             [op |-> "RemoveFacility", org |-> o2, facility |-> f1],
             [op |-> "AddPermit", org |-> o1, facility |-> f1, expires |-> 2, value |-> Renewed],
             [op |-> "AddPermit", org |-> o1, facility |-> f2, expires |-> 2, value |-> HotMix],
             [op |-> "AddPermit", org |-> o1, facility |-> f1, expires |-> 0, value |-> HotMix],
             [op |-> "RemovePermit", org |-> o1, facility |-> f1, permit |-> p1],
             [op |-> "RemovePermit", org |-> o1, facility |-> f1, permit |-> p2],
             [op |-> "RemovePermit", org |-> o1, facility |-> f1, permit |-> p3],
             [op |-> "CreateOrg", name |-> Ash], [op |-> "CreateOrg", name |-> NoName],
             [op |-> "UpdateOrg", org |-> o1, renames |-> FALSE, tenant |-> 1],
             [op |-> "UpdateOrg", org |-> o1, renames |-> TRUE, tenant |-> 1],
             [op |-> "DeleteOrg", org |-> o1]}]

Limits1 ==
  [db   |-> [NoRows EXCEPT !["orgs"] = TwoOrgs, !["facilities"] = TwoFacilities,
               !["fields"] = TwoFields,
               !["limits"] = {[id |-> l1, facility |-> f1, type |-> VOC, tons |-> 1]},
               !["ranges"] = {[id |-> r1, org |-> o1, propertyName |-> HotMix, low |-> 1, high |-> 5]}],
   menu |-> {[op |-> "AddLimit", org |-> o1, facility |-> f1, type |-> t, tons |-> 2] : t \in {VOC, SO2}}
              \cup {[op |-> "AddLimit", org |-> o1, facility |-> f1, type |-> SO2, tons |-> 0]}
              \cup {[op |-> "UpdateLimit", org |-> o, facility |-> f1, type |-> VOC, tons |-> n] :
                      o \in {o1, o2}, n \in {0, 3}}
              \cup {[op |-> "RemoveLimit", org |-> o1, facility |-> f1, type |-> VOC]}
              \cup {[op |-> "RemoveFacility", org |-> o1, facility |-> f1]}
              \cup {[op |-> "SetRange", org |-> o1, propertyName |-> HotMix, low |-> b[1], high |-> b[2]] :
                      b \in {<<3, 5>>, <<1, 2>>, <<4, 2>>}}
              \cup {[op |-> "SetRange", org |-> o2, propertyName |-> n, low |-> 1, high |-> 2] : n \in {Ash, SO2}}
              \cup {[op |-> "DeleteOrg", org |-> o2]}]

Records1 ==
  [db   |-> [NoRows EXCEPT !["orgs"] = TwoOrgs, !["facilities"] = TwoFacilities, !["fields"] = TwoFields],
   menu |-> {[op |-> "LogRecord", org |-> o1, facility |-> f, date |-> 1, values |-> vs] :
               f \in {f1, f2},
               vs \in {<<[field |-> HotMix, kind |-> "number"]>>,
                       <<[field |-> HotMix, kind |-> "number"], [field |-> HotMix, kind |-> "number"]>>,
                       <<[field |-> Ash, kind |-> "yesno"]>>}}
              \cup {[op |-> "RemoveFacility", org |-> o1, facility |-> f1],
                    [op |-> "DeleteOrg", org |-> o1],
                    [op |-> "RetireField", field |-> x1],
                    [op |-> "ReactivateField", field |-> x2],
                    [op |-> "UpdateField", field |-> x1, friendlyName |-> Ash, dataType |-> "yesno"]}]

Catalog1 ==
  [db   |-> [NoRows EXCEPT !["fields"] = TwoFields, !["templates"] = {[id |-> t1, name |-> Ash, rdl |-> Ash, updated |-> t1]}],
   menu |-> {[op |-> "CreateField", propertyName |-> n, friendlyName |-> m, dataType |-> "number"] :
               n \in {Ash, SO2}, m \in {HotMix, SO2}}
              \cup {[op |-> "CreateField", propertyName |-> b[1], friendlyName |-> b[2], dataType |-> "number"] :
                      b \in {<<VOC, NoName>>, <<NoName, SO2>>}}
              \cup {[op |-> "UpdateField", field |-> x, friendlyName |-> m, dataType |-> "number"] :
                      x \in {x1, x2}, m \in {SO2, NoName}}
              \cup {[op |-> "RetireField", field |-> x1]}
              \cup {[op |-> "ReactivateField", field |-> x] : x \in {x1, x2}}
              \cup {[op |-> "CreateTemplate", name |-> b[1], rdl |-> b[2]] :
                      b \in {<<Ash, Ash>>, <<NoName, Ash>>, <<Ash, NoName>>}}
              \cup {[op |-> "UpdateTemplate", template |-> t1, name |-> b[1], rdl |-> b[2]] :
                      b \in {<<Ash, HotMix>>, <<NoName, HotMix>>, <<Ash, NoName>>}}
              \cup {[op |-> "DeleteTemplate", template |-> t1]}]

\* Replicas that start together on an empty database.
Startup1 ==
  [db   |-> NoRows,
   menu |-> {[op |-> "SeedCatalog"],
             [op |-> "CreateField", propertyName |-> HotMix, friendlyName |-> HotMix, dataType |-> "number"]}]

MCScenarios == {Facilities1, Limits1, Records1, Catalog1, Startup1}
MCSeedFields ==
  {[propertyName |-> n, friendlyName |-> n, dataType |-> "number"] : n \in {HotMix, Ash}}

Symmetry == Permutations(Requests)
==================================================================================
