----------------------------- MODULE MCListScreens -----------------------------
(***************************************************************************)
(* Each screen in turn, over a list of one or two rows.                    *)
(***************************************************************************)
EXTENDS ListScreens, TLC

CONSTANTS i1, i2, i3, PM, SO2, f1, f2, Other

MCScreens == {"facilities", "orgs", "fields", "reports", "details", "ranges"}

MCEmissionTypes == <<PM, SO2>>

Row(id, name, value, active) == [id |-> id, name |-> name, value |-> value, active |-> active]

MCStored(t, f) ==
  CASE t = "facilities" -> <<Row(i1, Plain, Blank, TRUE)>>
    [] t = "orgs" -> <<Row(i1, Plain, Blank, TRUE)>>
    [] t = "reports" -> <<Row(i1, Plain, Blank, TRUE), Row(i2, Other, Blank, TRUE)>>
    [] t = "fields" -> <<Row(i1, Plain, Plain, TRUE), Row(i2, Other, Other, FALSE)>>
    [] t = "permits" -> IF f = f1 THEN <<Row(i1, Plain, Plain, TRUE), Row(i2, Other, Plain, TRUE)>>
                        ELSE <<Row(i3, Plain, Plain, TRUE)>>
    [] t = "limits" -> IF f = f1 THEN <<Row(PM, PM, 1, TRUE)>> ELSE <<Row(PM, PM, 2, TRUE)>>
    [] t = "ranges" -> <<Row(i1, Blank, Blank, FALSE), Row(i2, 1, 2, TRUE)>>

\* The details have three loads under way at a time.
MCMaxTogether(s) == IF s = "details" THEN 4 ELSE 5
=============================================================================
