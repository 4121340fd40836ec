---------------------------- MODULE MCRecordScreens ----------------------------
(***************************************************************************)
(* Two facilities; the first has records of two days, and the catalog has  *)
(* a number and a yes/no field.                                            *)
(***************************************************************************)
EXTENDS RecordScreens, TLC

CONSTANTS f1, f2, HotMix, Ran

MCFirstStore ==
  [facilities |-> <<f1, f2>>,
   catalog |-> <<[name |-> HotMix, kind |-> "number", summary |-> TRUE],
                [name |-> Ran, kind |-> "yesno", summary |-> TRUE]>>,
   records |-> {[id |-> -d, facility |-> f1, date |-> d,
                 values |-> <<[field |-> HotMix, kind |-> "number", value |-> "7"]>>] : d \in {1, 2}}]

MCAddresses ==
  {To("records", NoDetail), To("log", NoDetail), To("facilities", f1), To("report-builder", f1), To("unknown", NoDetail)}

Counts(m, i, r, f, c) ==
  [moves |-> m, inputs |-> i, renewals |-> r, failures |-> f, changes |-> c]

MCBudgets ==
  {[audience |-> who, address |-> h, counts |-> Counts(2, 0, 1, 1, 0)] :
     who \in {"orgUser", "siteAdmin"}, h \in MCAddresses}
  \cup {[audience |-> "orgUser", address |-> To("records", NoDetail), counts |-> Counts(0, 4, 1, 1, 0)],
        [audience |-> "orgUser", address |-> To("log", NoDetail), counts |-> Counts(0, 3, 1, 1, 0)],
        [audience |-> "orgUser", address |-> To("log", NoDetail), counts |-> Counts(0, 2, 1, 0, 1)],
        [audience |-> "orgUser", address |-> To("log", NoDetail), counts |-> Counts(1, 4, 0, 0, 0)]}
=================================================================================
