------------------------ MODULE RecordsAndReports_proofs ------------------------
(***************************************************************************)
(* Proofs about two components that have no state in common: the record    *)
(* screens inside the shell, where production is entered and looked up,    *)
(* and the design of the reports it is printed in.                         *)
(*                                                                         *)
(* The record screens, for any fields, facilities, records and page size,  *)
(* any number of entries, requests and renewals, and any history of        *)
(* addresses. The properties speak of what is shown; Inv carries it back   *)
(* to what was asked and sent. A query under way is always the one of the  *)
(* pickers, since a change cancels the others, and its answer holds every  *)
(* matching record that was confirmed: none is confirmed while a query is  *)
(* under way, because only the form that sent a record is told of it. A    *)
(* record on its way or stored is Faithful to the editors it was sent      *)
(* from. The parts: the shell; sequences and pages; what a step leaves     *)
(* alone; the form; queries; mounting; saving; the server; answers;        *)
(* theorems.                                                               *)
(*                                                                         *)
(* The report design, for any template, documents, catalog, sample, typed  *)
(* expressions and number of edits. DesignInv says that the template and   *)
(* what is stored are well formed, and what is stored was written from     *)
(* what was saved; the rest is about operators: that parseRdl undoes       *)
(* toRdl, that the two readers agree, that the validator and the two       *)
(* evaluators agree piece by piece, and that the offsets the engine        *)
(* accumulates are the tops the bands of the preview flow to. The parts:   *)
(* sequences; the document; edits; steps; bindings; running sums; texts;   *)
(* tops and offsets; pages; theorems.                                      *)
(***************************************************************************)
EXTENDS RecordScreens, ReportDesign, FiniteSetTheorems, SequenceTheorems, WellFoundedInduction, TLAPS

(***************************************************************************)
(* The inductive invariant.                                                *)
(***************************************************************************)

\* The addresses a user can have been at.
Visited ==
  Addresses \cup {b.address : b \in Budgets}
    \cup [segment : Screens \cup {""}, id : Details \cup {NoDetail}]

\* The shell is at its address.
ShellInv ==
  /\ auth \in {"loading", "out", "in", "error"} /\ token \in Nat
  /\ audience \in {"orgUser", "siteAdmin"} /\ me \in {"nobody", audience}
  /\ history \in Seq(Visited) /\ at \in DOMAIN history /\ changes \in Nat
  /\ screen \in Screens
  /\ AddressMatchesScreen

Facilities == ToSet(FirstStore.facilities)
Entries == [field : Names, value : {"", "7", "true", "false", "day"}]

StoreInv ==
  /\ store = [facilities |-> store.facilities, catalog |-> store.catalog, records |-> store.records]
  /\ store.facilities \in Seq(Facilities) /\ store.catalog \in Seq(Fields)
  /\ IsFiniteSet(store.records)

ListInv == (facilities = NoRow \/ facilities \in Seq(Facilities)) /\ catalog \in Seq(Fields)

FormInv ==
  /\ entries \in Seq(Entries) /\ date \in Dates
  /\ entries # <<>> \/ saveState # "idle" => Shown = "log"
  /\ NoFieldTwice
  /\ Shown = "log" /\ Listed # <<>> => chosen \in ToSet(Listed) \cup {NoRow}

\* What the pickers of the drill-down stand at.
CurrentQuery == [facility |-> selected, from |-> from, to |-> to]

\* A list answers a query when it has matching records only, and all of them
\* that were confirmed and are still there.
IsAnswer(list, q) ==
  /\ list \in Seq(ToSet(list))
  /\ \A r \in ToSet(list) : Matches(r, q)
  /\ \A r \in store.records : r.id \in confirmed /\ Matches(r, q) => r \in ToSet(list)

DrillInv ==
  /\ selected # NoRow => Shown = "records"
  /\ {from, to} \subseteq Dates \cup {0}
  /\ clientPage \in Nat \ {0} /\ addedRow = NoRow
  /\ selected # NoRow /\ records # NoRow => IsAnswer(records, CurrentQuery)

\* A record holds what its editors showed, for its facility and its day.
Faithful(r) ==
  /\ r.facility = saves[r.id].facility /\ r.date = saves[r.id].date
  /\ \A s \in saves[r.id].shown : s.text # "" =>
       \A f \in Fields : f.name = s.field /\ f.kind = s.kind => Cell(f, r) = s.text

\* The numbers of the saves are the ids of their records.
SaveInv ==
  /\ saves \in Seq(ToSet(saves)) /\ confirmed \subseteq DOMAIN saves
  /\ \A r \in store.records : r.id \in DOMAIN saves => Faithful(r)
  /\ \A r \in store.records : r.id \in DOMAIN saves \/ r.id \notin Nat \ {0}

IsRequest(r) ==
  /\ r = [kind |-> r.kind, of |-> r.of, answer |-> r.answer, mine |-> r.mine]
  /\ r.kind \in {"facilities", "catalog", "records", "create"}
  /\ r.kind \in {"facilities", "catalog"} => r.answer = NoRow

\* Only the query of the pickers is under way.
RecordsRequest(r) ==
  /\ selected # NoRow /\ r.of = CurrentQuery
  /\ r.answer # NoRow => IsAnswer(r.answer.list, r.of)

\* A record under way is not confirmed yet, and its sender is shown.
CreateRequest(r) ==
  /\ r.of.id \in DOMAIN saves /\ Faithful(r.of)
  /\ r.mine => Shown = "log"
  /\ r.answer = NoRow => r.of.id \notin confirmed

RequestInv ==
  /\ \A r \in requests : IsRequest(r)
  /\ \A r \in requests : r.kind = "records" => RecordsRequest(r)
  /\ \A r \in requests : r.kind = "create" => CreateRequest(r)
  /\ \A r, q \in requests : r.kind = "create" /\ q.kind = "create" /\ r.of.id = q.of.id => r = q

Inv == ShellInv /\ StoreInv /\ ListInv /\ FormInv /\ DrillInv /\ SaveInv /\ RequestInv

(***************************************************************************)
(* The shell.                                                              *)
(***************************************************************************)

\* The names of the screens, and the screens of the tabs.
LEMMA ScreenNames ==
  /\ Screens = {"home", "records", "facilities", "fieldLimits", "orgs", "productionFields", "reports",
                "log", "report-builder", "report-preview"}
  /\ DOMAIN NavEntries = 1 .. 7
  /\ \A i \in 1 .. 7 : NavEntries[i][1] \in Screens \ AdminScreens
<1>1. DOMAIN NavEntries = 1 .. 7
  BY DEF NavEntries
<1>2. /\ NavEntries[1][1] = "home" /\ NavEntries[2][1] = "records" /\ NavEntries[3][1] = "facilities"
      /\ NavEntries[4][1] = "fieldLimits" /\ NavEntries[5][1] = "orgs" /\ NavEntries[6][1] = "productionFields"
      /\ NavEntries[7][1] = "reports"
  BY DEF NavEntries
<1>3. \A i \in 1 .. 7 : i = 1 \/ i = 2 \/ i = 3 \/ i = 4 \/ i = 5 \/ i = 6 \/ i = 7
  OBVIOUS
<1>4. {NavEntries[i][1] : i \in 1 .. 7}
        = {"home", "records", "facilities", "fieldLimits", "orgs", "productionFields", "reports"}
  BY <1>2, <1>3
<1>5. Screens = {"home", "records", "facilities", "fieldLimits", "orgs", "productionFields", "reports",
                 "log", "report-builder", "report-preview"}
  BY <1>1, <1>4 DEF Screens, AdminScreens
<1> QED
  BY <1>1, <1>2, <1>3, <1>5 DEF AdminScreens

\* The first tab a user may see is no screen of a template.
LEMMA HomeTabIsAScreen ==
  ASSUME me \in {"orgUser", "siteAdmin"}
  PROVE  HomeTab \in Screens \ AdminScreens
<1>1. /\ NavEntries[1][2] = {"orgUser"} /\ NavEntries[2][2] = {"orgUser"} /\ NavEntries[3][2] = {"orgUser"}
      /\ NavEntries[4][2] = {"orgUser"} /\ NavEntries[5][2] = {"siteAdmin"} /\ NavEntries[6][2] = {"siteAdmin"}
      /\ NavEntries[7][2] = {"orgUser", "siteAdmin"}
  BY DEF NavEntries
<1>2. \E i \in Permitted : \A j \in Permitted : i <= j
  <2>1. CASE me = "orgUser"
    <3>1. 1 \in Permitted
      BY <2>1, <1>1, ScreenNames DEF Permitted
    <3>2. \A j \in Permitted : 1 <= j
      BY ScreenNames DEF Permitted
    <3> QED
      BY <3>1, <3>2
  <2>2. CASE me = "siteAdmin"
    <3>1. 5 \in Permitted
      BY <2>2, <1>1, ScreenNames DEF Permitted
    <3>2. \A j \in Permitted : 5 <= j
      <4> SUFFICES ASSUME NEW j \in Permitted, j < 5
                   PROVE  FALSE
        BY ScreenNames DEF Permitted
      <4>1. j \in 1 .. 7 /\ me \in NavEntries[j][2]
        BY ScreenNames DEF Permitted
      <4>2. j = 1 \/ j = 2 \/ j = 3 \/ j = 4
        BY <4>1
      <4> QED
        BY <4>1, <4>2, <1>1, <2>2
    <3> QED
      BY <3>1, <3>2
  <2> QED
    BY <2>1, <2>2
<1>3. (CHOOSE i \in Permitted : \A j \in Permitted : i <= j) \in Permitted
  BY <1>2
<1> QED
  BY <1>3, ScreenNames DEF HomeTab, Permitted

\* The address of a link leads back to the screen and the id of the link.
LEMMA AddressesOfLinks ==
  ASSUME NEW s \in Screens, NEW d,
         s \in {"report-builder", "report-preview"} \/ d = NoDetail
  PROVE  /\ ScreenFromHash(HashFromScreen(s, d)) = s
         /\ DetailIdFromHash(HashFromScreen(s, d)) = d
<1>1. "" \notin Screens /\ "home" \in Screens
  BY ScreenNames
<1>2. CASE s = "home"
  BY <1>1, <1>2 DEF HashFromScreen, ScreenFromHash, DetailIdFromHash, To, AdminScreens
<1>3. CASE s # "home"
  BY <1>1, <1>3 DEF HashFromScreen, ScreenFromHash, DetailIdFromHash, To, AdminScreens
<1> QED
  BY <1>2, <1>3

\* Where the address may lead.
LEMMA VisitedAddresses ==
  /\ Addresses \subseteq Visited
  /\ \A b \in Budgets : b.address \in Visited
  /\ \A s \in Screens \cup {""}, d \in Details \cup {NoDetail} : To(s, d) \in Visited
<1>1. Addresses \subseteq Visited
  BY DEF Visited
<1>2. \A b \in Budgets : b.address \in Visited
  BY DEF Visited
<1>3. \A s \in Screens \cup {""}, d \in Details \cup {NoDetail} : To(s, d) \in Visited
  BY DEF Visited, To
<1> QED
  BY <1>1, <1>2, <1>3

\* Going to an address makes it the current one, and causes an event if it was not.
LEMMA GoingSomewhere ==
  ASSUME history \in Seq(Visited), at \in DOMAIN history, changes \in Nat,
         NEW h \in Visited, GoTo(h)
  PROVE  /\ history' \in Seq(Visited) /\ at' \in DOMAIN history' /\ changes' \in Nat
         /\ history'[at'] = h
         /\ h # Address => changes' # 0
<1>1. CASE h = Address
  BY <1>1 DEF GoTo, Address, browser
<1>2. CASE h # Address
  <2> DEFINE before == SubSeq(history, 1, at)
  <2>1. history' = before \o <<h>> /\ at' = at + 1 /\ changes' = changes + 1
    BY <1>2 DEF GoTo
  <2>2. at \in 1 .. Len(history)
    OBVIOUS
  <2>3. before \in Seq(Visited) /\ Len(before) = at
    BY <2>2
  <2>4. <<h>> \in Seq(Visited) /\ Len(<<h>>) = 1 /\ <<h>>[1] = h
    OBVIOUS
  <2> HIDE DEF before
  <2>5. history' \in Seq(Visited) /\ Len(history') = at + 1
    BY <2>1, <2>2, <2>3, <2>4
  <2>6. (before \o <<h>>)[Len(before) + 1] = <<h>>[1]
    BY <2>3, <2>4, Z3
  <2> QED
    BY <2>1, <2>2, <2>3, <2>4, <2>5, <2>6, <1>2
<1> QED
  BY <1>1, <1>2

\* What a step of the session does: it leaves the browser alone, and either the shell is
\* not there afterwards, or the screen is kept or started from the address.
SessionStep ==
  /\ UNCHANGED <<browser, audience>>
  /\ auth' \in {"loading", "out", "in", "error"} /\ token' \in Nat /\ me' \in {me, audience}
  /\ \/ MountShell
     \/ ~Mounted' /\ UNCHANGED route

\* Such a step keeps the shell at its address.
LEMMA SessionKeepsTheShell ==
  ASSUME ShellInv, SessionStep
  PROVE  ShellInv'
<1>1. UNCHANGED <<history, at, changes, audience>> /\ Address' = Address
  BY DEF SessionStep, browser, Address
<1>2. ScreenFromHash(Address) \in Screens
  BY ScreenNames DEF ScreenFromHash
<1>3. screen' \in Screens
  BY <1>2 DEF SessionStep, MountShell, route, ShellInv
<1>4. AddressMatchesScreen'
  <2>1. CASE Mounted' /\ ~Mounted
    BY <2>1, <1>1 DEF SessionStep, MountShell, AddressMatchesScreen
  <2>2. CASE ~Mounted'
    BY <2>2 DEF AddressMatchesScreen
  <2>3. CASE Mounted /\ Mounted'
    BY <2>3, <1>1 DEF SessionStep, MountShell, AddressMatchesScreen, route, ShellInv
  <2> QED
    BY <2>1, <2>2, <2>3
<1> QED
  BY <1>1, <1>3, <1>4 DEF ShellInv, SessionStep

\* So does going to a screen together with its address.
LEMMA NavigationKeepsTheShell ==
  ASSUME ShellInv, UNCHANGED session,
         NEW s \in Screens, NEW d \in Details \cup {NoDetail}, NEW h \in Visited,
         ScreenFromHash(h) = s, DetailIdFromHash(h) = d,
         screen' = s, detailId' = d, GoTo(h)
  PROVE  ShellInv'
<1>1. /\ history' \in Seq(Visited) /\ at' \in DOMAIN history' /\ changes' \in Nat
      /\ history'[at'] = h
  BY GoingSomewhere DEF ShellInv
<1>2. Address' = h
  BY <1>1 DEF Address
<1>3. AddressMatchesScreen'
  BY <1>2 DEF AddressMatchesScreen
<1> QED
  BY <1>1, <1>3 DEF ShellInv, session

\* Following a link or a redirect goes to a screen together with its address.
LEMMA LinksKeepTheShell ==
  ASSUME ShellInv, UNCHANGED session,
         NEW s \in Screens, NEW d \in Details \cup {NoDetail},
         s \in {"report-builder", "report-preview"} \/ d = NoDetail,
         Navigate(s, d)
  PROVE  ShellInv'
<1> DEFINE h == HashFromScreen(s, d)
<1>1. ScreenFromHash(h) = s /\ DetailIdFromHash(h) = d
  BY AddressesOfLinks
<1>2. h \in Visited
  <2>1. PICK segment \in Screens \cup {""}, id \in Details \cup {NoDetail} : h = To(segment, id)
    BY DEF HashFromScreen
  <2> QED
    BY <2>1, VisitedAddresses
<1>3. screen' = s /\ detailId' = d /\ GoTo(h)
  BY DEF Navigate
<1> HIDE DEF h
<1> QED
  BY <1>1, <1>2, <1>3, NavigationKeepsTheShell

\* The links are to screens, and only those of the report builder have an id.
LEMMA LinksAreScreens ==
  ASSUME NEW l \in Links
  PROVE  /\ l[1] \in Screens /\ l[2] \in Details \cup {NoDetail}
         /\ l[1] \in {"report-builder", "report-preview"} \/ l[2] = NoDetail
<1>1. CASE \E i \in Permitted : l = <<NavEntries[i][1], NoDetail>>
  BY <1>1, ScreenNames DEF Permitted
<1>2. CASE l = <<"log", NoDetail>>
  BY <1>2, ScreenNames
<1>3. CASE \E d \in Details : l = <<"report-builder", d>>
  BY <1>3, ScreenNames
<1> QED
  BY <1>1, <1>2, <1>3 DEF Links

\* No step of the shell parts the screen from its address.
LEMMA ShellStepsKeepTheShell ==
  ASSUME ShellInv, NextShell
  PROVE  ShellInv'
<1>1. CASE SignIn
  BY <1>1, SessionKeepsTheShell DEF SignIn, SessionStep, ShellInv
<1>2. CASE RenewToken
  BY <1>2, SessionKeepsTheShell DEF RenewToken, SessionStep, ShellInv
<1>3. CASE RenewalFails
  <2>1. ~Mounted'
    BY <1>3 DEF RenewalFails, Mounted
  <2> QED
    BY <1>3, <2>1, SessionKeepsTheShell DEF RenewalFails, SessionStep, ShellInv
<1>4. CASE MeArrives
  BY <1>4, SessionKeepsTheShell DEF MeArrives, SessionStep, ShellInv
<1>5. CASE Sync
  <2>1. UNCHANGED <<session, history, at>> /\ changes' \in Nat /\ Address' = Address /\ Mounted' = Mounted
    BY <1>5 DEF Sync, ShellInv, Address, Mounted, session
  <2>2. screen' \in Screens
    BY <1>5, ScreenNames DEF Sync, route, ScreenFromHash, ShellInv
  <2>3. AddressMatchesScreen'
    BY <1>5, <2>1 DEF Sync, AddressMatchesScreen
  <2> QED
    BY <2>1, <2>2, <2>3 DEF ShellInv, session
<1>6. CASE Redirect
  <2>1. me \in {"orgUser", "siteAdmin"}
    BY <1>6 DEF Redirect, Mounted, ShellInv
  <2>2. PICK s : s = HomeTab
    OBVIOUS
  <2>3. s \in Screens
    BY <2>1, <2>2, HomeTabIsAScreen
  <2>4. Navigate(s, NoDetail) /\ UNCHANGED session
    BY <1>6, <2>2 DEF Redirect
  <2> QED
    BY <2>3, <2>4, LinksKeepTheShell
<1>7. CASE FollowLink
  <2>1. PICK l \in Links : Navigate(l[1], l[2])
    BY <1>7 DEF FollowLink
  <2>2. UNCHANGED session
    BY <1>7 DEF FollowLink
  <2>3. PICK s, d : s = l[1] /\ d = l[2]
    OBVIOUS
  <2>4. /\ s \in Screens /\ d \in Details \cup {NoDetail}
        /\ s \in {"report-builder", "report-preview"} \/ d = NoDetail
    BY <2>3, LinksAreScreens
  <2>5. Navigate(s, d)
    BY <2>1, <2>3
  <2> QED
    BY <2>2, <2>4, <2>5, LinksKeepTheShell
<1>8. CASE PickFacility
  <2>1. PICK d \in Details : OpenFacility(d)
    BY <1>8 DEF PickFacility
  <2>2. PICK h : h = To("facilities", d)
    OBVIOUS
  <2>3. "facilities" \in Screens
    BY ScreenNames
  <2>4. ScreenFromHash(h) = "facilities" /\ DetailIdFromHash(h) = d
    BY <2>2, <2>3 DEF ScreenFromHash, DetailIdFromHash, To
  <2>5. h \in Visited
    BY <2>2, <2>3, VisitedAddresses
  <2>6. UNCHANGED session /\ screen' = "facilities" /\ detailId' = d /\ GoTo(h)
    BY <1>8, <2>1, <2>2 DEF PickFacility, OpenFacility
  <2> QED
    BY <2>3, <2>4, <2>5, <2>6, NavigationKeepsTheShell
<1>9. CASE EditAddress
  <2>1. PICK h \in Addresses \ {Address} : GoTo(h)
    BY <1>9 DEF EditAddress
  <2>2. h \in Visited
    BY VisitedAddresses
  <2>3. /\ history' \in Seq(Visited) /\ at' \in DOMAIN history' /\ changes' \in Nat
        /\ changes' # 0
    BY <2>1, <2>2, GoingSomewhere DEF ShellInv
  <2>4. AddressMatchesScreen'
    BY <2>3 DEF AddressMatchesScreen
  <2> QED
    BY <1>9, <2>3, <2>4 DEF EditAddress, ShellInv, session, route
<1>10. CASE BackOrForward
  <2>1. AddressMatchesScreen'
    BY <1>10 DEF BackOrForward, AddressMatchesScreen, ShellInv
  <2> QED
    BY <1>10, <2>1 DEF BackOrForward, ShellInv, session, route
<1>11. CASE ReloadPage
  <2>1. AddressMatchesScreen'
    BY <1>11 DEF ReloadPage, AddressMatchesScreen, Mounted
  <2> QED
    BY <1>11, <2>1, ScreenNames DEF ReloadPage, ShellInv
<1> QED
  BY <1>1, <1>2, <1>3, <1>4, <1>5, <1>6, <1>7, <1>8, <1>9, <1>10, <1>11 DEF NextShell

(***************************************************************************)
(* Sequences and pages.                                                    *)
(***************************************************************************)

\* A sequence is one of its own elements.
LEMMA SeqOfItsElements ==
  ASSUME NEW S, NEW s \in Seq(S)
  PROVE  s \in Seq(ToSet(s)) /\ ToSet(s) \subseteq S /\ DOMAIN s = 1 .. Len(s) /\ Len(s) \in Nat
<1>1. DOMAIN s = 1 .. Len(s) /\ Len(s) \in Nat /\ \A i \in 1 .. Len(s) : s[i] \in S
  OBVIOUS
<1>2. s \in [1 .. Len(s) -> ToSet(s)]
  BY <1>1 DEF ToSet
<1>3. s \in Seq(ToSet(s))
  BY <1>1, <1>2, IsASeq
<1> QED
  BY <1>1, <1>3 DEF ToSet

\* What Append puts where.
LEMMA Appending ==
  ASSUME NEW S, NEW s \in Seq(S), NEW e
  PROVE  /\ Append(s, e) \in Seq(ToSet(Append(s, e)))
         /\ Len(Append(s, e)) = Len(s) + 1
         /\ \A i \in 1 .. Len(s) : Append(s, e)[i] = s[i]
         /\ Append(s, e)[Len(s) + 1] = e
         /\ e \in S => Append(s, e) \in Seq(S)
<1>1. s \in Seq(S \cup {e}) /\ e \in S \cup {e}
  OBVIOUS
<1>2. /\ Append(s, e) \in Seq(S \cup {e})
      /\ Len(Append(s, e)) = Len(s) + 1
      /\ \A i \in 1 .. Len(s) : Append(s, e)[i] = s[i]
      /\ Append(s, e)[Len(s) + 1] = e
  BY <1>1, AppendProperties
<1>3. e \in S => Append(s, e) \in Seq(S)
  OBVIOUS
<1> QED
  BY <1>2, <1>3, SeqOfItsElements

\* RemoveAt moves what comes after one place up.
LEMMA Removing ==
  ASSUME NEW S, NEW s \in Seq(S), NEW i \in DOMAIN s
  PROVE  /\ RemoveAt(s, i) \in Seq(S) /\ Len(RemoveAt(s, i)) = Len(s) - 1
         /\ \A k \in 1 .. Len(s) - 1 : RemoveAt(s, i)[k] = IF k < i THEN s[k] ELSE s[k + 1]
<1> DEFINE a == SubSeq(s, 1, i - 1)
           b == SubSeq(s, i + 1, Len(s))
<1>1. i \in 1 .. Len(s) /\ Len(s) \in Nat
  OBVIOUS
<1>2. /\ a \in Seq(S) /\ Len(a) = i - 1
      /\ \A k \in 1 .. i - 1 : a[k] = s[k]
  BY <1>1
<1>3. /\ b \in Seq(S) /\ Len(b) = Len(s) - i
      /\ \A k \in 1 .. Len(s) - i : b[k] = s[i + k]
  BY <1>1
<1>4. RemoveAt(s, i) = a \o b
  BY DEF RemoveAt
<1> HIDE DEF a, b
<1>5. /\ a \o b \in Seq(S) /\ Len(a \o b) = Len(a) + Len(b)
      /\ \A k \in 1 .. Len(a) + Len(b) : (a \o b)[k] = IF k <= Len(a) THEN a[k] ELSE b[k - Len(a)]
  BY <1>2, <1>3, ConcatProperties
<1>6. PICK c : c = a \o b
  OBVIOUS
<1>7. PICK n, m : n = Len(s) /\ m = i
  OBVIOUS
<1>8. n \in Nat /\ m \in 1 .. n
  BY <1>1, <1>7
<1>9. \A k \in 1 .. n - 1 : c[k] = IF k <= m - 1 THEN a[k] ELSE b[k - (m - 1)]
  BY <1>7, <1>8, <1>2, <1>3, <1>5, <1>6
<1>10. \A k \in 1 .. m - 1 : a[k] = s[k]
  BY <1>2, <1>7
<1>11. \A k \in 1 .. n - m : b[k] = s[m + k]
  BY <1>3, <1>7
<1>12. ASSUME NEW k \in 1 .. n - 1
       PROVE  c[k] = IF k < m THEN s[k] ELSE s[k + 1]
  <2>1. CASE k < m
    <3>1. c[k] = a[k]
      BY ONLY <1>8, <1>9, <2>1, k \in 1 .. n - 1
    <3> QED
      BY ONLY <1>8, <1>10, <2>1, <3>1, k \in 1 .. n - 1
  <2>2. CASE k >= m
    <3>1. PICK j : j = k - (m - 1)
      OBVIOUS
    <3>2. c[k] = b[j]
      BY ONLY <1>8, <1>9, <2>2, <3>1, k \in 1 .. n - 1
    <3>3. j \in 1 .. n - m /\ m + j = k + 1
      BY ONLY <1>8, <2>2, <3>1, k \in 1 .. n - 1
    <3> QED
      BY ONLY <1>8, <1>11, <2>2, <3>2, <3>3, k \in 1 .. n - 1
  <2> QED
    BY ONLY <2>1, <2>2, <1>8, k \in 1 .. n - 1
<1>13. RemoveAt(s, i) = c
  BY <1>4, <1>6
<1>14. c \in Seq(S) /\ Len(c) = n - 1
  BY <1>2, <1>3, <1>5, <1>6, <1>7, <1>8
<1>15. \A k \in 1 .. n - 1 : c[k] = IF k < m THEN s[k] ELSE s[k + 1]
  BY <1>12
<1> QED
  BY ONLY <1>13, <1>14, <1>15, <1>7

\* The smaller of two numbers.
LEMMA MinOfTwo ==
  ASSUME NEW m \in Int, NEW n \in Int
  PROVE  Min({m, n}) = IF m <= n THEN m ELSE n
<1>1. PICK k : k \in {m, n} /\ \A y \in {m, n} : k <= y
  BY m <= n \/ n <= m
<1>2. Min({m, n}) \in {m, n} /\ \A y \in {m, n} : Min({m, n}) <= y
  BY <1>1 DEF Min
<1> QED
  BY <1>2

\* A page asked for too late is cut back to the last one, and that one has rows.
LEMMA PagesHaveRows ==
  ASSUME addedRow = NoRow, clientPage \in Nat \ {0}, PageSize \in Nat \ {0},
         NEW S, NEW rows \in Seq(S)
  PROVE  PageIsNeverEmpty(rows, PageSize)
<1> SUFFICES ASSUME rows # <<>>
             PROVE  VisibleRows(rows, PageSize) # <<>>
  BY DEF PageIsNeverEmpty, AllRows
<1>1. PICK n, size : n = Len(rows) /\ size = PageSize
  OBVIOUS
<1>2. n \in Nat \ {0} /\ size \in Nat \ {0}
  BY <1>1
<1>3. PICK pages : pages = (n + size - 1) \div size
  OBVIOUS
<1>4. pages \in Nat /\ pages >= 1 /\ (pages - 1) * size <= n - 1
  BY <1>2, <1>3
<1>5. TotalPages(n, size) = pages
  BY <1>3, <1>4 DEF TotalPages, Max
<1>6. PICK current : current = CurrentPage(n, size)
  OBVIOUS
<1>7. current \in Nat /\ 1 <= current /\ current <= pages
  BY <1>4, <1>5, <1>6, MinOfTwo DEF CurrentPage
<1>8. (current - 1) * size <= n - 1 /\ (current - 1) * size \in Nat
  <2>1. (current - 1) * size <= (pages - 1) * size
    BY <1>2, <1>4, <1>7
  <2>2. (current - 1) * size \in Nat /\ (pages - 1) * size \in Nat
    BY <1>2, <1>4, <1>7
  <2> QED
    BY <2>1, <2>2, <1>4, <1>2
<1>9. current * size = (current - 1) * size + size
  BY <1>2, <1>7
<1>10. PICK first, last : first = (current - 1) * size + 1 /\ last = Min({current * size, n})
  OBVIOUS
<1>11. first \in 1 .. n /\ last \in Int /\ first <= last /\ last <= n
  <2>1. current * size \in Int
    BY <1>2, <1>7
  <2>2. last = IF current * size <= n THEN current * size ELSE n
    BY <2>1, <1>2, <1>10, MinOfTwo
  <2> QED
    BY <2>1, <2>2, <1>2, <1>8, <1>9, <1>10
<1>12. Len(SubSeq(rows, first, last)) = last - first + 1
  BY <1>1, <1>11
<1>13. VisibleRows(rows, PageSize) = SubSeq(rows, first, last)
  BY <1>1, <1>2, <1>6, <1>10 DEF VisibleRows, AllRows
<1> QED
  BY <1>11, <1>12, <1>13

(***************************************************************************)
(* Parts of the invariant that a step leaves alone.                        *)
(***************************************************************************)

\* A step outside the shell shows the same screen at the same address.
LEMMA ShellIsLeft ==
  ASSUME UNCHANGED <<session, browser, route>>
  PROVE  (ShellInv => ShellInv') /\ Shown' = Shown /\ Mounted' = Mounted
<1>1. UNCHANGED <<auth, token, audience, me, meError, asking, history, at, changes, screen, detailId>>
  BY DEF session, browser, route
<1>2. Permitted' = Permitted /\ Mounted' = Mounted /\ Address' = Address
  BY <1>1 DEF Permitted, Mounted, Address
<1>3. HomeTab' = HomeTab /\ Allowed' = Allowed
  BY <1>1, <1>2 DEF HomeTab, Allowed
<1>4. Shown' = Shown
  BY <1>1, <1>2, <1>3 DEF Shown, EffectiveScreen
<1>5. ShellInv => ShellInv'
  BY <1>1, <1>2 DEF ShellInv, AddressMatchesScreen
<1> QED
  BY <1>2, <1>4, <1>5

\* The lists of both screens.
LEMMA ListsAreLeft ==
  ASSUME ListInv, UNCHANGED lists
  PROVE  ListInv' /\ Listed' = Listed
BY DEF ListInv, lists, Listed

\* The tables of the server.
LEMMA StoreIsLeft ==
  ASSUME StoreInv, UNCHANGED store
  PROVE  StoreInv'
BY DEF StoreInv

\* The form.
LEMMA FormIsLeft ==
  ASSUME FormInv, UNCHANGED <<form, lists>>, Shown' = Shown
  PROVE  FormInv'
BY DEF FormInv, form, lists, Listed, NoFieldTwice

\* A list answers a query also when records have gone, and when other ones have come
\* that are not confirmed.
LEMMA AnswersAreKept ==
  ASSUME NEW list, NEW q, IsAnswer(list, q),
         \A r \in store'.records : r.id \in confirmed' => r \in store.records /\ r.id \in confirmed
  PROVE  IsAnswer(list, q)'
BY DEF IsAnswer

\* The drill-down: its records stay the answer to its query.
LEMMA DrillDownIsLeft ==
  ASSUME DrillInv, UNCHANGED drillDown, Shown' = Shown,
         \A r \in store'.records : r.id \in confirmed' => r \in store.records /\ r.id \in confirmed
  PROVE  DrillInv'
<1>1. UNCHANGED <<selected, records, from, to, clientPage, addedRow>>
  BY DEF drillDown, grid
<1>2. ASSUME selected # NoRow, records # NoRow
      PROVE  IsAnswer(records, CurrentQuery)'
  <2>1. PICK list, q : list = records /\ q = CurrentQuery
    OBVIOUS
  <2>2. IsAnswer(list, q)
    BY <1>2, <2>1 DEF DrillInv
  <2>3. IsAnswer(list, q)'
    BY <2>2, AnswersAreKept
  <2>4. list = records' /\ q = CurrentQuery'
    BY <1>1, <2>1 DEF CurrentQuery
  <2> QED
    BY <2>3, <2>4 DEF IsAnswer
<1> QED
  BY <1>1, <1>2 DEF DrillInv

\* The records sent: removing some of those stored does no harm.
LEMMA SavesAreLeft ==
  ASSUME SaveInv, UNCHANGED told, store'.records \subseteq store.records
  PROVE  SaveInv'
BY DEF SaveInv, told, Faithful

\* What was asked for stays so, as long as the queries and the records sent do.
LEMMA RequestsAreLeft ==
  ASSUME RequestInv, requests' \subseteq requests,
         UNCHANGED <<selected, from, to, saves>>, Shown' = Shown, confirmed' = confirmed,
         \A r \in store'.records : r.id \in confirmed' => r \in store.records /\ r.id \in confirmed
  PROVE  RequestInv'
<1>1. CurrentQuery' = CurrentQuery
  BY DEF CurrentQuery
<1>2. ASSUME NEW r \in requests', r.kind = "records"
      PROVE  RecordsRequest(r)'
  <2>1. RecordsRequest(r)
    BY <1>2 DEF RequestInv
  <2>2. r.answer # NoRow => IsAnswer(r.answer.list, r.of)'
    BY <2>1, AnswersAreKept DEF RecordsRequest
  <2> QED
    BY <1>1, <2>1, <2>2 DEF RecordsRequest
<1>3. ASSUME NEW r \in requests', r.kind = "create"
      PROVE  CreateRequest(r)'
  BY <1>3 DEF RequestInv, CreateRequest, Faithful
<1>4. \A r \in requests' : IsRequest(r)
  BY DEF RequestInv
<1>5. \A r, q \in requests' : r.kind = "create" /\ q.kind = "create" /\ r.of.id = q.of.id => r = q
  BY DEF RequestInv
<1> QED
  BY <1>2, <1>3, <1>4, <1>5 DEF RequestInv

(***************************************************************************)
(* The entries of the form.                                                *)
(***************************************************************************)

\* A step that only edits the form, and enters no field twice.
LEMMA EditsKeepInv ==
  ASSUME Inv, FormShown, ByForm, UNCHANGED <<saveState, requests, told>>,
         entries' \in Seq(Entries), NoFieldTwice', date' \in Dates,
         chosen' \in ToSet(Listed) \cup {chosen}
  PROVE  Inv'
<1>1. ShellInv' /\ Shown' = Shown
  BY ShellIsLeft DEF ByForm, Inv
<1>2. ListInv' /\ Listed' = Listed
  BY ListsAreLeft DEF ByForm, Inv
<1>3. StoreInv' /\ UNCHANGED <<store, saves, confirmed, selected, from, to>>
  BY StoreIsLeft DEF ByForm, Inv, told, drillDown
<1>4. FormInv'
  BY <1>1, <1>2 DEF FormInv, Inv, FormShown
<1>5. DrillInv'
  BY <1>1, <1>3, DrillDownIsLeft DEF ByForm, Inv
<1>6. SaveInv'
  BY <1>3, SavesAreLeft DEF Inv
<1>7. RequestInv'
  BY <1>1, <1>3, RequestsAreLeft DEF Inv
<1> QED
  BY <1>1, <1>2, <1>3, <1>4, <1>5, <1>6, <1>7 DEF Inv

\* An entry starts with the empty value of its field.
LEMMA NewEntries ==
  ASSUME NEW f \in Fields
  PROVE  EntryOf(f) \in Entries /\ EntryOf(f).field = f.name
<1>1. f.name \in Names
  BY DEF Fields
<1> QED
  BY <1>1 DEF EntryOf, EmptyValueFor, Entries

\* The catalog of the screens lists fields.
LEMMA FieldsOfTheCatalog ==
  ASSUME ListInv
  PROVE  ToSet(catalog) \subseteq Fields
BY SeqOfItsElements DEF ListInv

\* Every entry has the editor of a known type.
LEMMA KindsOfEntries ==
  ASSUME ListInv, NEW e
  PROVE  KindOf(e) \in Kinds
<1>1. CASE FieldOf(e) = {}
  BY <1>1 DEF KindOf, Kinds
<1>2. CASE FieldOf(e) # {}
  <2>1. (CHOOSE f \in FieldOf(e) : TRUE) \in Fields
    BY <1>2, FieldsOfTheCatalog DEF FieldOf
  <2> QED
    BY <1>2, <2>1 DEF KindOf, Fields
<1> QED
  BY <1>1, <1>2

\* The field added is the first one that is not used yet.
LEMMA AddFieldKeepsInv ==
  ASSUME Inv, AddField
  PROVE  Inv'
<1>1. PICK f \in FirstUnusedField : entries' = Append(entries, EntryOf(f))
  BY DEF AddField
<1>2. f \in ToSet(catalog) /\ f.name \notin Used
  BY DEF FirstUnusedField, ToSet
<1>3. PICK e : e = EntryOf(f)
  OBVIOUS
<1>4. e \in Entries /\ e.field = f.name
  BY <1>2, <1>3, FieldsOfTheCatalog, NewEntries DEF Inv
<1>5. entries \in Seq(Entries)
  BY DEF Inv, FormInv
<1>6. /\ entries' \in Seq(Entries) /\ Len(entries') = Len(entries) + 1
      /\ \A i \in 1 .. Len(entries) : entries'[i] = entries[i]
      /\ entries'[Len(entries) + 1] = e
  BY <1>1, <1>3, <1>4, <1>5, Appending
<1>7. \A i \in 1 .. Len(entries) : entries[i].field # e.field
  BY <1>2, <1>4, <1>5 DEF Used
<1>8. NoFieldTwice'
  <2> SUFFICES ASSUME NEW i \in 1 .. Len(entries) + 1, NEW j \in 1 .. Len(entries) + 1,
                      entries'[i].field = entries'[j].field
               PROVE  i = j
    BY <1>6 DEF NoFieldTwice
  <2>1. CASE i \in 1 .. Len(entries) /\ j \in 1 .. Len(entries)
    BY <2>1, <1>5, <1>6 DEF Inv, FormInv, NoFieldTwice
  <2>2. CASE i = Len(entries) + 1 /\ j \in 1 .. Len(entries)
    BY <2>2, <1>6, <1>7
  <2>3. CASE j = Len(entries) + 1 /\ i \in 1 .. Len(entries)
    BY <2>3, <1>6, <1>7
  <2>4. CASE i = Len(entries) + 1 /\ j = Len(entries) + 1
    BY <2>4
  <2> QED
    BY <2>1, <2>2, <2>3, <2>4, <1>5
<1>9. FormShown /\ ByForm /\ UNCHANGED <<chosen, date, saveState, requests, told>>
  BY DEF AddField
<1>10. date' \in Dates
  BY <1>9 DEF Inv, FormInv
<1> QED
  BY <1>6, <1>8, <1>9, <1>10, EditsKeepInv

\* The field chosen is the one of the entry or one that is not used yet.
LEMMA ChooseFieldKeepsInv ==
  ASSUME Inv, ChooseField
  PROVE  Inv'
<1>0. PICK i \in DOMAIN entries : \E f \in FieldOptions(entries[i]) : entries' = [entries EXCEPT ![i] = EntryOf(f)]
  BY DEF ChooseField
<1>1. PICK f \in FieldOptions(entries[i]) : entries' = [entries EXCEPT ![i] = EntryOf(f)]
  BY <1>0
<1>2. f \in ToSet(catalog) /\ (f.name = entries[i].field \/ f.name \notin Used)
  BY DEF FieldOptions
<1>3. PICK e : e = EntryOf(f)
  OBVIOUS
<1>4. e \in Entries /\ e.field = f.name
  BY <1>2, <1>3, FieldsOfTheCatalog, NewEntries DEF Inv
<1>5. entries \in Seq(Entries)
  BY DEF Inv, FormInv
<1>6. /\ entries' \in Seq(Entries) /\ DOMAIN entries' = DOMAIN entries
      /\ \A j \in DOMAIN entries : entries'[j] = IF j = i THEN e ELSE entries[j]
  BY <1>1, <1>3, <1>4, <1>5
<1>7. \A j \in DOMAIN entries : j # i => entries[j].field # e.field
  BY <1>2, <1>4 DEF Used, Inv, FormInv, NoFieldTwice
<1>8. NoFieldTwice'
  BY <1>6, <1>7 DEF Inv, FormInv, NoFieldTwice
<1>9. FormShown /\ ByForm /\ UNCHANGED <<chosen, date, saveState, requests, told>>
  BY DEF ChooseField
<1>10. date' \in Dates
  BY <1>9 DEF Inv, FormInv
<1> QED
  BY <1>6, <1>8, <1>9, <1>10, EditsKeepInv

\* Typing changes no field.
LEMMA SetValueKeepsInv ==
  ASSUME Inv, SetValue
  PROVE  Inv'
<1>0. PICK i \in DOMAIN entries : \E v \in Typed(KindOf(entries[i])) : entries' = [entries EXCEPT ![i].value = v]
  BY DEF SetValue
<1>1. PICK v \in Typed(KindOf(entries[i])) : entries' = [entries EXCEPT ![i].value = v]
  BY <1>0
<1>2. entries \in Seq(Entries)
  BY DEF Inv, FormInv
<1>4. KindOf(entries[i]) \in Kinds
  BY KindsOfEntries DEF Inv
<1>5. v \in {"", "7", "true", "false", "day"}
  BY <1>4 DEF Typed, Kinds
<1>6. entries[i] \in Entries
  BY <1>2
<1>7. PICK e : e = [entries[i] EXCEPT !.value = v]
  OBVIOUS
<1>8. e \in Entries /\ e.field = entries[i].field
  BY <1>5, <1>6, <1>7 DEF Entries
<1>9. entries' = [entries EXCEPT ![i] = e]
  BY <1>1, <1>7
<1>10. /\ entries' \in Seq(Entries) /\ DOMAIN entries' = DOMAIN entries
       /\ \A j \in DOMAIN entries : entries'[j].field = entries[j].field
  BY <1>2, <1>8, <1>9
<1>11. NoFieldTwice'
  BY <1>10 DEF Inv, FormInv, NoFieldTwice
<1>12. FormShown /\ ByForm /\ UNCHANGED <<chosen, date, saveState, requests, told>>
  BY DEF SetValue
<1>13. date' \in Dates
  BY <1>12 DEF Inv, FormInv
<1> QED
  BY <1>10, <1>11, <1>12, <1>13, EditsKeepInv

\* Removing an entry leaves the fields of the others.
LEMMA RemoveEntryKeepsInv ==
  ASSUME Inv, RemoveEntry
  PROVE  Inv'
<1>1. PICK i \in DOMAIN entries : entries' = RemoveAt(entries, i)
  BY DEF RemoveEntry
<1>2. entries \in Seq(Entries)
  BY DEF Inv, FormInv
<1>3. /\ entries' \in Seq(Entries) /\ Len(entries') = Len(entries) - 1
      /\ \A k \in 1 .. Len(entries) - 1 : entries'[k] = IF k < i THEN entries[k] ELSE entries[k + 1]
  BY <1>1, <1>2, Removing
<1>4. NoFieldTwice'
  <2>1. PICK n : n = Len(entries)
    OBVIOUS
  <2>2. n \in Nat /\ i \in 1 .. n /\ DOMAIN entries = 1 .. n /\ DOMAIN entries' = 1 .. n - 1
    BY <1>2, <1>3, <2>1
  <2>3. ASSUME NEW k \in 1 .. n - 1, NEW m \in 1 .. n - 1, entries'[k].field = entries'[m].field
        PROVE  k = m
    <3>1. PICK p \in 1 .. n, q \in 1 .. n :
            /\ p = (IF k < i THEN k ELSE k + 1) /\ q = (IF m < i THEN m ELSE m + 1)
      BY <2>2
    <3>2. entries'[k] = entries[p] /\ entries'[m] = entries[q]
      BY <1>3, <2>1, <2>3, <3>1
    <3>3. p = q
      BY <2>2, <2>3, <3>2 DEF Inv, FormInv, NoFieldTwice
    <3> QED
      BY <2>2, <3>1, <3>3
  <2> QED
    BY <2>2, <2>3 DEF NoFieldTwice
<1>5. FormShown /\ ByForm /\ UNCHANGED <<chosen, date, saveState, requests, told>>
  BY DEF RemoveEntry
<1>6. date' \in Dates
  BY <1>5 DEF Inv, FormInv
<1> QED
  BY <1>3, <1>4, <1>5, <1>6, EditsKeepInv

\* The facility chosen is one of the list.
LEMMA ChooseFacilityOrDateKeepsInv ==
  ASSUME Inv, ChooseFacilityOrDate
  PROVE  Inv'
<1>1. entries' \in Seq(Entries) /\ NoFieldTwice'
  BY DEF ChooseFacilityOrDate, Inv, FormInv, NoFieldTwice
<1>2. date' \in Dates /\ chosen' \in ToSet(Listed) \cup {chosen}
  BY DEF ChooseFacilityOrDate, Inv, FormInv
<1>3. FormShown /\ ByForm /\ UNCHANGED <<saveState, requests, told>>
  BY DEF ChooseFacilityOrDate
<1> QED
  BY <1>1, <1>2, <1>3, EditsKeepInv

(***************************************************************************)
(* What is asked for.                                                      *)
(***************************************************************************)

\* New requests for lists and new queries join what is kept of the others.
LEMMA RequestsAreAdded ==
  ASSUME RequestInv, UNCHANGED <<saves, confirmed>>, Shown' = Shown,
         \A r \in requests' :
           \/ r \in requests /\ r.kind # "records"
           \/ IsRequest(r) /\ r.kind \in {"facilities", "catalog"}
           \/ IsRequest(r) /\ r.kind = "records" /\ RecordsRequest(r)'
  PROVE  RequestInv'
<1>1. \A r \in requests' : IsRequest(r)
  BY DEF RequestInv
<1>2. \A r \in requests' : r.kind = "create" => r \in requests
  OBVIOUS
<1>3. ASSUME NEW r \in requests', r.kind = "create"
      PROVE  CreateRequest(r)'
  BY <1>2, <1>3 DEF RequestInv, CreateRequest, Faithful
<1>4. \A r, q \in requests' : r.kind = "create" /\ q.kind = "create" /\ r.of.id = q.of.id => r = q
  BY <1>2 DEF RequestInv
<1>5. \A r \in requests' : r.kind = "records" => RecordsRequest(r)'
  OBVIOUS
<1> QED
  BY <1>1, <1>3, <1>4, <1>5 DEF RequestInv

\* Requests start without an answer, queries with the facility and the range asked for.
LEMMA NewRequests ==
  /\ \A r \in Loads : IsRequest(r) /\ r.kind \in {"facilities", "catalog"}
  /\ \A s, f, t : \A r \in Query(s, f, t) :
       /\ s # NoRow /\ IsRequest(r) /\ r.kind = "records" /\ r.answer = NoRow
       /\ r.of = [facility |-> s, from |-> f, to |-> t]
BY DEF Loads, Query, Get, IsRequest

\* A changed query cancels the one before and empties the list.
LEMMA AskKeepsInv ==
  ASSUME Inv, OnRecords, ByRecords,
         NEW s, NEW f \in Dates \cup {0}, NEW t \in Dates \cup {0}, Ask(s, f, t),
         clientPage' \in Nat \ {0}, addedRow' = NoRow
  PROVE  Inv'
<1>1. ShellInv' /\ Shown' = Shown /\ Shown = "records"
  BY ShellIsLeft DEF ByRecords, OnRecords, Inv
<1>2. UNCHANGED <<store, saves, confirmed>>
  BY DEF ByRecords, told
<1>3. ListInv' /\ StoreInv' /\ FormInv' /\ SaveInv'
  BY <1>1, <1>2, ListsAreLeft, StoreIsLeft, FormIsLeft, SavesAreLeft DEF Inv, ByRecords
<1>4. selected' = s /\ from' = f /\ to' = t /\ (s # NoRow => records' = NoRow)
  BY DEF Ask
<1>5. DrillInv'
  BY <1>1, <1>4 DEF DrillInv
<1>6. ASSUME NEW r \in Query(s, f, t)
      PROVE  IsRequest(r) /\ r.kind = "records" /\ RecordsRequest(r)'
  BY <1>4, NewRequests DEF RecordsRequest, CurrentQuery
<1>7. RequestInv'
  <2>1. \A r \in requests' : (r \in requests /\ r.kind # "records") \/ r \in Query(s, f, t)
    BY DEF Ask, Cancel
  <2> QED
    BY <1>1, <1>2, <1>6, <2>1, RequestsAreAdded DEF Inv
<1> QED
  BY <1>1, <1>3, <1>5, <1>7 DEF Inv

\* The pickers of the drill-down change its query.
LEMMA RecordsStepsKeepInv ==
  ASSUME Inv, SelectFacility \/ BackToFacilities \/ SetRange
  PROVE  Inv'
<1>1. clientPage \in Nat \ {0} /\ addedRow = NoRow /\ {from, to} \subseteq Dates \cup {0}
  BY DEF Inv, DrillInv
<1>2. CASE SelectFacility
  <2>1. PICK f : Ask(f, from, to)
    BY <1>2 DEF SelectFacility
  <2>2. clientPage' = 1 /\ addedRow' = NoRow
    BY <1>2 DEF SelectFacility, RemountGrid
  <2>3. OnRecords /\ ByRecords
    BY <1>2 DEF SelectFacility
  <2>4. PICK d, u : d = from /\ u = to
    OBVIOUS
  <2> QED
    BY <1>1, <2>1, <2>2, <2>3, <2>4, AskKeepsInv
<1>3. CASE BackToFacilities
  <2>1. Ask(NoRow, from, to) /\ OnRecords /\ ByRecords
    BY <1>3 DEF BackToFacilities
  <2>2. clientPage' \in Nat \ {0} /\ addedRow' = NoRow
    BY <1>1, <1>3 DEF BackToFacilities, grid
  <2>3. PICK d, u : d = from /\ u = to
    OBVIOUS
  <2> QED
    BY <1>1, <2>1, <2>2, <2>3, AskKeepsInv
<1>4. CASE SetRange
  <2>1. PICK d \in Dates : Ask(selected, d, to) \/ Ask(selected, from, d)
    BY <1>4 DEF SetRange
  <2>2. OnRecords /\ ByRecords
    BY <1>4 DEF SetRange
  <2>3. clientPage' \in Nat \ {0} /\ addedRow' = NoRow
    BY <1>1, <1>4 DEF SetRange, grid
  <2>4. PICK s, f, t : s = selected /\ f = from /\ t = to
    OBVIOUS
  <2> QED
    BY <1>1, <2>1, <2>2, <2>3, <2>4, AskKeepsInv
<1> QED
  BY <1>2, <1>3, <1>4

\* The page turned to is a number from 1.
LEMMA TurnThePageKeepsInv ==
  ASSUME Inv, TurnThePage
  PROVE  Inv'
<1>1. ShellInv' /\ Shown' = Shown
  BY ShellIsLeft DEF TurnThePage, ByRecords, Inv
<1>2. UNCHANGED <<store, saves, confirmed, selected, records, from, to, requests>>
  BY DEF TurnThePage, ByRecords, told
<1>3. ListInv' /\ StoreInv' /\ FormInv' /\ SaveInv'
  BY <1>1, <1>2, ListsAreLeft, StoreIsLeft, FormIsLeft, SavesAreLeft DEF Inv, TurnThePage, ByRecords
<1>4. RequestInv'
  BY <1>1, <1>2, RequestsAreLeft DEF Inv
<1>5. PICK step \in {1, -1} : TurnPage(Rows, PageSize, step)
  BY DEF TurnThePage
<1>6. addedRow' = addedRow /\ \E k : k \in 1 .. TotalPages(Len(AllRows(Rows)), PageSize) /\ clientPage' = k
  BY <1>5 DEF TurnPage
<1>7. clientPage' \in Nat \ {0}
  BY <1>6
<1>8. DrillInv'
  <2>1. DrillInv /\ CurrentQuery' = CurrentQuery
    BY <1>2 DEF Inv, CurrentQuery
  <2> QED
    BY <1>1, <1>2, <1>6, <1>7, <2>1 DEF DrillInv, IsAnswer
<1> QED
  BY <1>1, <1>3, <1>4, <1>8 DEF Inv

(***************************************************************************)
(* Mounting, and running the effects again.                                *)
(***************************************************************************)

\* A mounted screen starts over, and no save is its own.
LEMMA MountKeepsInv ==
  ASSUME Inv, ShellInv', Mount, UNCHANGED <<store, told>>
  PROVE  Inv'
<1>1. UNCHANGED <<saves, confirmed>>
  BY DEF told
<1>2. ListInv'
  BY DEF Mount, ListInv
<1>3. StoreInv' /\ SaveInv'
  BY StoreIsLeft, SavesAreLeft DEF Inv
<1>4. FormInv'
  BY RecordScreensAssumption DEF Mount, FormInv, NoFieldTwice
<1>5. DrillInv'
  BY DEF Mount, RemountGrid, DrillInv
<1>6. RequestInv'
  <2>1. \A r \in requests' : r \in Loads
          \/ \E q \in requests : q.kind \notin {"facilities", "catalog", "records"} /\ r = [q EXCEPT !.mine = FALSE]
    BY DEF Mount, Cancel
  <2>2. \A q \in requests : IsRequest(q)
    BY DEF Inv, RequestInv
  <2>3. \A r \in requests' : r \in Loads
          \/ \E q \in requests : /\ q.kind = "create"
                                 /\ r = [kind |-> q.kind, of |-> q.of, answer |-> q.answer, mine |-> FALSE]
    <3> SUFFICES ASSUME NEW q \in requests, q.kind \notin {"facilities", "catalog", "records"}
                 PROVE  /\ q.kind = "create"
                        /\ [q EXCEPT !.mine = FALSE] = [kind |-> q.kind, of |-> q.of, answer |-> q.answer, mine |-> FALSE]
      BY <2>1
    <3>1. q.kind = "create"
      BY <2>2 DEF IsRequest
    <3>2. q = [kind |-> q.kind, of |-> q.of, answer |-> q.answer, mine |-> q.mine]
      BY <2>2 DEF IsRequest
    <3>3. PICK of, answer, mine : of = q.of /\ answer = q.answer /\ mine = q.mine
      OBVIOUS
    <3>4. q = [kind |-> "create", of |-> of, answer |-> answer, mine |-> mine]
      BY ONLY <3>1, <3>2, <3>3
    <3>5. [q EXCEPT !.mine = FALSE] = [kind |-> "create", of |-> of, answer |-> answer, mine |-> FALSE]
      <4>1. PICK no : no = FALSE
        OBVIOUS
      <4>2. [q EXCEPT !.mine = no] = [kind |-> "create", of |-> of, answer |-> answer, mine |-> no]
        BY ONLY <3>4
      <4> QED
        BY ONLY <4>1, <4>2
    <3> QED
      BY <3>1, <3>3, <3>5
  <2>4. \A r \in requests' : IsRequest(r) /\ r.kind # "records"
    <3>1. ASSUME NEW of, NEW answer
          PROVE  LET r == [kind |-> "create", of |-> of, answer |-> answer, mine |-> FALSE]
                 IN  IsRequest(r) /\ r.kind # "records"
      BY DEF IsRequest
    <3>2. \A r \in Loads : IsRequest(r) /\ r.kind # "records"
      BY NewRequests
    <3> QED
      BY <2>3, <3>1, <3>2
  <2>5. ASSUME NEW r \in requests', r.kind = "create"
        PROVE  /\ CreateRequest(r)'
               /\ \E q \in requests : q.kind = "create" /\ q.of = r.of
                    /\ r = [kind |-> q.kind, of |-> q.of, answer |-> q.answer, mine |-> FALSE]
    <3>1. PICK q \in requests : /\ q.kind = "create"
                                /\ r = [kind |-> q.kind, of |-> q.of, answer |-> q.answer, mine |-> FALSE]
      BY <2>3, <2>5, NewRequests
    <3>2. CreateRequest(q)
      BY <3>1 DEF Inv, RequestInv
    <3>3. r.of = q.of /\ r.answer = q.answer /\ r.mine = FALSE
      BY <3>1
    <3>4. CreateRequest(r)'
      BY <1>1, <3>2, <3>3 DEF CreateRequest, Faithful
    <3> QED
      BY <3>1, <3>3, <3>4
  <2>6. \A q, p \in requests : q.kind = "create" /\ p.kind = "create" /\ q.of.id = p.of.id => q = p
    BY DEF Inv, RequestInv
  <2>7. \A r, q \in requests' : r.kind = "create" /\ q.kind = "create" /\ r.of.id = q.of.id => r = q
    <3> SUFFICES ASSUME NEW r \in requests', NEW s \in requests', r.kind = "create", s.kind = "create",
                        r.of.id = s.of.id
                 PROVE  r = s
      OBVIOUS
    <3>1. PICK q \in requests : q.kind = "create" /\ q.of = r.of
                    /\ r = [kind |-> q.kind, of |-> q.of, answer |-> q.answer, mine |-> FALSE]
      BY <2>5
    <3>2. PICK p \in requests : p.kind = "create" /\ p.of = s.of
                    /\ s = [kind |-> p.kind, of |-> p.of, answer |-> p.answer, mine |-> FALSE]
      BY <2>5
    <3>3. q = p
      BY <2>6, <3>1, <3>2
    <3> QED
      BY <3>1, <3>2, <3>3
  <2> QED
    BY <2>4, <2>5, <2>7 DEF RequestInv
<1> QED
  BY <1>2, <1>3, <1>4, <1>5, <1>6 DEF Inv

\* A renewed token asks everything again.
LEMMA RunEffectsKeepsInv ==
  ASSUME Inv, ShellInv', Shown' = Shown, RunEffects, UNCHANGED <<store, told>>
  PROVE  Inv'
<1>1. UNCHANGED <<store, saves, confirmed, selected, from, to, clientPage, addedRow>>
  BY DEF told, RunEffects, grid
<1>2. ListInv' /\ StoreInv' /\ FormInv' /\ SaveInv'
  BY <1>1, ListsAreLeft, StoreIsLeft, FormIsLeft, SavesAreLeft DEF Inv, RunEffects
<1>3. DrillInv'
  BY <1>1 DEF Inv, DrillInv, RunEffects
<1>4. RequestInv'
  <2>1. \A r \in requests' : (r \in requests /\ r.kind # "records") \/ r \in Loads \/ r \in Query(selected, from, to)
    BY DEF RunEffects, Cancel
  <2>2. ASSUME NEW r \in Query(selected, from, to)
        PROVE  IsRequest(r) /\ r.kind = "records" /\ RecordsRequest(r)'
    <3>1. PICK s, f, t : s = selected /\ f = from /\ t = to
      OBVIOUS
    <3> QED
      BY <1>1, <3>1, NewRequests DEF RecordsRequest, CurrentQuery
  <2> QED
    BY <1>1, <2>1, <2>2, NewRequests, RequestsAreAdded DEF Inv
<1> QED
  BY <1>2, <1>3, <1>4 DEF Inv

\* The steps of the shell, with what they do to the screen.
LEMMA ShellStepKeepsInv ==
  ASSUME Inv, ShellStep
  PROVE  Inv'
<1>1. ShellInv' /\ UNCHANGED <<store, told>>
  BY ShellStepsKeepTheShell DEF ShellStep, Inv
<1>2. CASE Mount
  BY <1>1, <1>2, MountKeepsInv
<1>3. CASE Shown' = Shown /\ RunEffects
  BY <1>1, <1>3, RunEffectsKeepsInv
<1>4. CASE Shown' = Shown /\ UNCHANGED <<lists, drillDown, form, requests>>
  <2>1. UNCHANGED <<store, saves, confirmed, selected, from, to, requests>>
    BY <1>1, <1>4 DEF told, drillDown
  <2>2. ListInv' /\ StoreInv' /\ FormInv' /\ SaveInv'
    BY <1>1, <1>4, <2>1, ListsAreLeft, StoreIsLeft, FormIsLeft, SavesAreLeft DEF Inv
  <2>3. DrillInv' /\ RequestInv'
    BY <1>4, <2>1, DrillDownIsLeft, RequestsAreLeft DEF Inv
  <2> QED
    BY <1>1, <2>2, <2>3 DEF Inv
<1> QED
  BY <1>2, <1>3, <1>4 DEF ShellStep, Follow

(***************************************************************************)
(* Saving.                                                                 *)
(***************************************************************************)

\* Records stay true to what was shown when others are sent.
LEMMA RecordsStayFaithful ==
  ASSUME NEW r, Faithful(r), saves'[r.id] = saves[r.id]
  PROVE  Faithful(r)'
BY DEF Faithful

\* What an editor shows is what the list will show, because no other entry is of the
\* same field.
LEMMA RecordedAsShown ==
  ASSUME ListInv, NoFieldTwice,
         NEW s \in Form, s.text # "", NEW f, f.name = s.field, f.kind = s.kind,
         NEW r, r.values = BuildValues
  PROVE  Cell(f, r) = s.text
<1>1. PICK i \in DOMAIN entries :
        /\ FieldOf(entries[i]) # {}
        /\ s = [field |-> entries[i].field, kind |-> KindOf(entries[i]), text |-> EditorText(entries[i])]
  BY DEF Form
<1>2. PICK e, k, v : e = entries[i] /\ k = KindOf(e) /\ v = Sent(e)
  OBVIOUS
<1>3. k \in Kinds
  BY <1>2, KindsOfEntries
<1>4. f.name = e.field /\ f.kind = k /\ s.text = EditorText(e)
  BY <1>1, <1>2
<1>5. ~Skipped(e)
  BY <1>1, <1>2, <1>4 DEF Skipped, EditorText
<1>6. i \in DOMAIN r.values /\ r.values[i] = v
  BY <1>2, <1>5 DEF BuildValues
<1>7. v.field = f.name /\ v.kind = f.kind
  BY <1>2, <1>4 DEF Sent
<1>8. v \in ToSet(r.values)
  BY <1>6 DEF ToSet
<1>9. ASSUME NEW w \in ToSet(r.values), w.field = f.name
      PROVE  w = v
  <2>1. PICK j \in DOMAIN r.values : w = r.values[j]
    BY DEF ToSet
  <2>2. j \in DOMAIN entries /\ w = Sent(entries[j])
    BY <2>1 DEF BuildValues
  <2>3. w.field = entries[j].field
    BY <2>2 DEF Sent
  <2>4. j = i
    BY <1>2, <1>4, <1>9, <2>2, <2>3 DEF NoFieldTwice
  <2> QED
    BY <1>6, <2>1, <2>4
<1>10. HasValue(f, r) /\ ValueOf(f, r) = v
  BY <1>7, <1>8, <1>9 DEF HasValue, ValueOf
<1>11. CASE k = "number"
  <2>1. Cell(f, r) = v.value
    BY <1>4, <1>10, <1>11 DEF Cell
  <2>2. v.value = IF e.value = "7" THEN "7" ELSE "0"
    BY <1>2, <1>11 DEF Sent
  <2>3. s.text = IF e.value = "7" THEN "7" ELSE ""
    BY <1>2, <1>4, <1>11 DEF EditorText
  <2> QED
    BY <2>1, <2>2, <2>3
<1>12. CASE k = "yesno"
  BY <1>2, <1>4, <1>10, <1>12 DEF Cell, Sent, EditorText
<1>13. CASE k = "date"
  <2>1. Cell(f, r) = v.value
    BY <1>4, <1>10, <1>13 DEF Cell
  <2>2. v.value = e.value
    BY <1>2, <1>13 DEF Sent
  <2>3. s.text = IF e.value = "day" THEN "day" ELSE ""
    BY <1>2, <1>4, <1>13 DEF EditorText
  <2> QED
    BY <2>1, <2>2, <2>3
<1> QED
  BY <1>3, <1>11, <1>12, <1>13 DEF Kinds

\* A record is sent under a new number, as its editors show it.
LEMMA SaveKeepsInv ==
  ASSUME Inv, Save
  PROVE  Inv'
<1>1. ShellInv' /\ Shown' = Shown /\ Shown = "log"
  BY ShellIsLeft DEF Save, ByForm, FormShown, Inv
<1>2. UNCHANGED <<store, confirmed, selected, from, to, entries, chosen, date, facilities, catalog>>
  BY DEF Save, ByForm, drillDown, lists
<1>3. ListInv' /\ StoreInv'
  BY <1>2, ListsAreLeft, StoreIsLeft DEF Inv, Save, ByForm
<1>4. FormInv'
  BY <1>1, <1>2 DEF Inv, FormInv, NoFieldTwice, Listed
<1>5. DrillInv'
  BY <1>1, <1>2, DrillDownIsLeft DEF Inv, Save, ByForm
<1>6. PICK n, save, of, new :
        /\ n = Len(saves) + 1
        /\ save = [facility |-> SelectedFacility, date |-> date, shown |-> Form]
        /\ of = [id |-> n, facility |-> SelectedFacility, date |-> date, values |-> BuildValues]
        /\ new = Get("create", of)
  OBVIOUS
<1>7. saves' = Append(saves, save)
  BY <1>6 DEF Save
<1>8. saves \in Seq(ToSet(saves))
  BY DEF Inv, SaveInv
<1>9. /\ saves' \in Seq(ToSet(saves')) /\ Len(saves') = n /\ saves'[n] = save
      /\ \A id \in DOMAIN saves : saves'[id] = saves[id]
      /\ DOMAIN saves = 1 .. n - 1 /\ DOMAIN saves' = 1 .. n /\ n \in Nat \ {0}
  <2>1. saves' \in Seq(ToSet(saves')) /\ Len(saves') = n /\ saves'[n] = save
    BY <1>6, <1>7, <1>8, Appending
  <2>2. \A id \in 1 .. Len(saves) : saves'[id] = saves[id]
    BY <1>7, <1>8, Appending
  <2>3. DOMAIN saves = 1 .. Len(saves) /\ Len(saves) \in Nat /\ DOMAIN saves' = 1 .. Len(saves')
    BY <1>8, <2>1
  <2> QED
    BY <1>6, <2>1, <2>2, <2>3
<1>10. requests' = requests \cup {new}
  BY <1>6, <1>7, <1>9 DEF Save
<1>11. SaveInv'
  <2>1. \A r \in store.records : r.id \in DOMAIN saves' => r.id \in DOMAIN saves
    BY <1>9 DEF Inv, SaveInv
  <2>2. ASSUME NEW r \in store.records, r.id \in DOMAIN saves'
        PROVE  Faithful(r)'
    BY <1>9, <2>1, <2>2, RecordsStayFaithful DEF Inv, SaveInv
  <2>3. \A r \in store.records : r.id \in DOMAIN saves' \/ r.id \notin Nat \ {0}
    BY <1>9 DEF Inv, SaveInv
  <2>4. confirmed' \subseteq DOMAIN saves'
    BY <1>2, <1>9 DEF Inv, SaveInv
  <2> QED
    BY <1>2, <1>9, <2>2, <2>3, <2>4 DEF SaveInv
<1>12. of.id = n /\ of.facility = save.facility /\ of.date = save.date /\ of.values = BuildValues /\ save.shown = Form
  BY <1>6
<1>13. Faithful(of)'
  <2>1. ASSUME NEW s \in Form, s.text # "", NEW f \in Fields, f.name = s.field, f.kind = s.kind
        PROVE  Cell(f, of) = s.text
    BY <1>12, <2>1, RecordedAsShown DEF Inv, FormInv
  <2> QED
    BY <1>9, <1>12, <2>1 DEF Faithful
<1>14. new.kind = "create" /\ new.of = of /\ new.answer = NoRow /\ IsRequest(new)
  BY <1>6 DEF Get, IsRequest
<1>15. RequestInv'
  <2>1. CreateRequest(new)'
    BY <1>1, <1>2, <1>9, <1>12, <1>13, <1>14 DEF CreateRequest, Inv, SaveInv
  <2>2. ASSUME NEW r \in requests, r.kind = "create"
        PROVE  CreateRequest(r)' /\ r.of.id # n
    <3>1. CreateRequest(r)
      BY <2>2 DEF Inv, RequestInv
    <3>2. Faithful(r.of)'
      <4>1. PICK o : o = r.of
        OBVIOUS
      <4>2. Faithful(o)'
        BY <3>1, <4>1, <1>9, RecordsStayFaithful DEF CreateRequest
      <4> QED
        BY <4>1, <4>2
    <3> QED
      BY <1>1, <1>2, <1>9, <3>1, <3>2 DEF CreateRequest
  <2>3. ASSUME NEW r \in requests, r.kind = "records"
        PROVE  RecordsRequest(r)'
    BY <1>2, <2>3 DEF Inv, RequestInv, RecordsRequest, CurrentQuery, IsAnswer
  <2>4. \A r, q \in requests' : r.kind = "create" /\ q.kind = "create" /\ r.of.id = q.of.id => r = q
    BY <1>10, <1>12, <1>14, <2>2 DEF Inv, RequestInv
  <2>5. \A r \in requests' : IsRequest(r)
    BY <1>10, <1>14 DEF Inv, RequestInv
  <2> QED
    BY <1>10, <1>14, <2>1, <2>2, <2>3, <2>4, <2>5 DEF RequestInv
<1> QED
  BY <1>1, <1>3, <1>4, <1>5, <1>11, <1>15 DEF Inv

(***************************************************************************)
(* The server and other users.                                             *)
(***************************************************************************)

\* An answer changes nothing else of its request.
LEMMA ChangedAnswer ==
  ASSUME NEW r, IsRequest(r), NEW a, NEW n, n = [r EXCEPT !.answer = a]
  PROVE  /\ n = [kind |-> n.kind, of |-> n.of, answer |-> n.answer, mine |-> n.mine]
         /\ n.kind = r.kind /\ n.of = r.of /\ n.answer = a /\ n.mine = r.mine
<1>1. PICK b, c, d, e : b = r.kind /\ c = r.of /\ d = r.answer /\ e = r.mine
  OBVIOUS
<1>2. r = [kind |-> b, of |-> c, answer |-> d, mine |-> e]
  BY <1>1 DEF IsRequest
<1>3. n = [kind |-> b, of |-> c, answer |-> a, mine |-> e]
  BY ONLY <1>2, n = [r EXCEPT !.answer = a]
<1> QED
  BY <1>1, <1>3

\* A request that nobody has answered yet gets its answer.
LEMMA AnsweringKeepsRequests ==
  ASSUME RequestInv, UNCHANGED <<selected, from, to, saves, confirmed>>, Shown' = Shown,
         NEW r \in requests, r.kind \in {"create", "records"}, r.answer = NoRow,
         NEW a, Answered(r, a), r.kind = "records" => IsAnswer(a.list, r.of)',
         \A x \in store'.records : x.id \in confirmed' => x \in store.records /\ x.id \in confirmed
  PROVE  RequestInv'
<1>1. PICK n : n = [r EXCEPT !.answer = a]
  OBVIOUS
<1>2. requests' = (requests \ {r}) \cup {n}
  BY <1>1 DEF Answered
<1>3. IsRequest(r)
  BY DEF RequestInv
<1>4. /\ n = [kind |-> n.kind, of |-> n.of, answer |-> n.answer, mine |-> n.mine]
      /\ n.kind = r.kind /\ n.of = r.of /\ n.answer = a /\ n.mine = r.mine
  BY <1>1, <1>3, ChangedAnswer
<1>5. IsRequest(n)
  BY <1>4 DEF IsRequest
<1>6. CurrentQuery' = CurrentQuery
  BY DEF CurrentQuery
<1>7. ASSUME NEW q \in requests, q.kind = "records"
      PROVE  RecordsRequest(q)'
  <2>1. RecordsRequest(q)
    BY <1>7 DEF RequestInv
  <2>2. q.answer # NoRow => IsAnswer(q.answer.list, q.of)'
    BY <2>1, AnswersAreKept DEF RecordsRequest
  <2> QED
    BY <1>6, <2>1, <2>2 DEF RecordsRequest
<1>8. ASSUME NEW q \in requests, q.kind = "create"
      PROVE  CreateRequest(q)'
  BY <1>8 DEF RequestInv, CreateRequest, Faithful
<1>9. n.kind = "records" => RecordsRequest(n)'
  BY <1>4, <1>6 DEF RequestInv, RecordsRequest
<1>10. ASSUME n.kind = "create"
       PROVE  CreateRequest(n)'
  <2>1. CreateRequest(r) /\ CreateRequest(r)'
    BY <1>4, <1>8, <1>10 DEF RequestInv
  <2>2. PICK o : o = r.of /\ o = n.of
    BY <1>4
  <2>3. Faithful(o)'
    BY <2>1, <2>2, RecordsStayFaithful DEF CreateRequest
  <2>4. Faithful(n.of)'
    BY <2>2, <2>3
  <2>5. /\ n.of.id \in DOMAIN saves' /\ n.of.id \notin confirmed'
        /\ n.mine => Shown' = "log"
    BY <1>4, <2>1 DEF CreateRequest
  <2> QED
    BY <2>4, <2>5 DEF CreateRequest
<1>11. \A p, q \in requests' : p.kind = "create" /\ q.kind = "create" /\ p.of.id = q.of.id => p = q
  BY <1>2, <1>4 DEF RequestInv
<1>12. \A q \in requests' : IsRequest(q)
  BY <1>2, <1>5 DEF RequestInv
<1> QED
  BY <1>2, <1>7, <1>8, <1>9, <1>10, <1>11, <1>12 DEF RequestInv

\* The server finds all records that match, and no others.
LEMMA FoundIsAnAnswer ==
  ASSUME StoreInv, NEW q, NEW list \in Found(q)
  PROVE  /\ list \in Seq(ToSet(list))
         /\ \A r \in store.records : r \in ToSet(list) <=> Matches(r, q)
         /\ \A r \in ToSet(list) : r \in store.records
<1>1. PICK S : S = {r \in store.records : Matches(r, q)}
  OBVIOUS
<1>2. IsFiniteSet(S)
  BY <1>1, FS_Subset DEF StoreInv
<1>3. PICK n : n = Cardinality(S)
  OBVIOUS
<1>4. n \in Nat
  BY <1>2, <1>3, FS_CardinalityType
<1>5. list \in [1 .. n -> S] /\ \A i, j \in 1 .. n : i # j => list[i] # list[j]
  BY <1>1, <1>3 DEF Found, SetToSeqs
<1>6. list \in Injection(1 .. n, S)
  BY <1>5 DEF Injection, IsInjective
<1>7. Cardinality(1 .. n) = n
  BY <1>4, FS_Interval
<1>8. list \in Surjection(1 .. n, S)
  BY <1>2, <1>3, <1>6, <1>7, FS_Injection
<1>9. \A r \in S : \E i \in 1 .. n : list[i] = r
  BY <1>8 DEF Surjection
<1>10. ToSet(list) = S
  BY <1>5, <1>9 DEF ToSet
<1>11. list \in Seq(S)
  BY <1>4, <1>5, IsASeq
<1> QED
  BY <1>1, <1>10, <1>11

\* The server stores a record, refuses it, or answers a query.
LEMMA ServeKeepsInv ==
  ASSUME Inv, NEW r, Serve(r)
  PROVE  Inv'
<1>1. ShellInv' /\ Shown' = Shown
  BY ShellIsLeft DEF Serve, shell, Inv
<1>2. UNCHANGED <<saves, confirmed, selected, from, to>> /\ r \in requests /\ r.answer = NoRow
  BY DEF Serve, told, drillDown
<1>3. ListInv' /\ FormInv'
  BY <1>1, ListsAreLeft, FormIsLeft DEF Inv, Serve
<1>4. CASE r.kind = "create" /\ Accepts(r.of)
  <2>1. PICK a : Answered(r, a)
    BY <1>4 DEF Serve
  <2>2. store' = [store EXCEPT !.records = @ \cup {r.of}]
    BY <1>4 DEF Serve
  <2>3. /\ store' = [facilities |-> store.facilities, catalog |-> store.catalog, records |-> store'.records]
        /\ store'.records = store.records \cup {r.of}
    BY <2>2 DEF Inv, StoreInv
  <2>4. StoreInv'
    <3>1. IsFiniteSet(store'.records)
      <4>1. PICK R, x : R = store.records /\ x = r.of
        OBVIOUS
      <4>2. IsFiniteSet(R)
        BY <4>1 DEF Inv, StoreInv
      <4>3. IsFiniteSet(R \cup {x})
        BY <4>2, FS_AddElement
      <4> QED
        BY <2>3, <4>1, <4>3
    <3>2. store'.facilities = store.facilities /\ store'.catalog = store.catalog
      BY <2>3
    <3> QED
      BY <2>3, <3>1, <3>2 DEF Inv, StoreInv
  <2>5. CreateRequest(r)
    BY <1>2, <1>4 DEF Inv, RequestInv
  <2>6. \A x \in store'.records : x.id \in confirmed' => x \in store.records /\ x.id \in confirmed
    BY <1>2, <2>3, <2>5 DEF CreateRequest
  <2>7. SaveInv'
    <3>1. PICK o : o = r.of
      OBVIOUS
    <3>2. o.id \in DOMAIN saves /\ Faithful(o)
      BY <2>5, <3>1 DEF CreateRequest
    <3>3. \A x \in store'.records : x \in store.records \/ x = o
      BY <2>3, <3>1
    <3>4. ASSUME NEW x \in store'.records, x.id \in DOMAIN saves
          PROVE  Faithful(x)
      BY <3>2, <3>3, <3>4 DEF Inv, SaveInv
    <3>5. \A x \in store'.records : x.id \in DOMAIN saves' => Faithful(x)'
      BY <1>2, <3>4, RecordsStayFaithful
    <3>6. \A x \in store'.records : x.id \in DOMAIN saves \/ x.id \notin Nat \ {0}
      BY <3>2, <3>3 DEF Inv, SaveInv
    <3> QED
      BY <1>2, <3>5, <3>6 DEF Inv, SaveInv
  <2>8. DrillInv'
    BY <1>1, <2>6, DrillDownIsLeft DEF Inv, Serve
  <2>9. RequestInv'
    BY <1>1, <1>2, <1>4, <2>1, <2>6, AnsweringKeepsRequests DEF Inv
  <2> QED
    BY <1>1, <1>3, <2>4, <2>7, <2>8, <2>9 DEF Inv
<1>5. CASE r.kind = "create" /\ ~Accepts(r.of)
  <2>1. (\E a : Answered(r, a)) /\ UNCHANGED store
    BY <1>5 DEF Serve
  <2>2. PICK a : Answered(r, a)
    BY <2>1
  <2>3. StoreInv' /\ SaveInv'
    BY <1>2, <2>1, StoreIsLeft, SavesAreLeft DEF Inv, Serve
  <2>4. DrillInv'
    BY <1>1, <1>2, <2>1, DrillDownIsLeft DEF Inv, Serve
  <2>5. RequestInv'
    BY <1>1, <1>2, <1>5, <2>1, <2>2, AnsweringKeepsRequests DEF Inv
  <2> QED
    BY <1>1, <1>3, <2>3, <2>4, <2>5 DEF Inv
<1>6. CASE r.kind = "records"
  <2>1. UNCHANGED store
    BY <1>6 DEF Serve
  <2>2. PICK list \in Found(r.of) : Answered(r, [ok |-> TRUE, list |-> list])
    BY <1>6 DEF Serve
  <2>3. PICK a : a = [ok |-> TRUE, list |-> list]
    OBVIOUS
  <2>4. a.list = list /\ Answered(r, a)
    BY <2>2, <2>3
  <2>5. StoreInv' /\ SaveInv'
    BY <1>2, <2>1, StoreIsLeft, SavesAreLeft DEF Inv, Serve
  <2>6. DrillInv'
    BY <1>1, <1>2, <2>1, DrillDownIsLeft DEF Inv, Serve
  <2>7. PICK q : q = r.of
    OBVIOUS
  <2>8. IsAnswer(list, q)
    BY <2>2, <2>7, FoundIsAnAnswer DEF Inv, IsAnswer
  <2>9. IsAnswer(list, q)'
    BY <1>2, <2>1, <2>8, AnswersAreKept
  <2>10. IsAnswer(a.list, r.of)'
    BY <2>4, <2>7, <2>9
  <2>11. RequestInv'
    BY <1>1, <1>2, <1>6, <2>1, <2>4, <2>10, AnsweringKeepsRequests DEF Inv
  <2> QED
    BY <1>1, <1>3, <2>5, <2>6, <2>11 DEF Inv
<1> QED
  BY <1>4, <1>5, <1>6 DEF Serve

\* Other users change the catalog and remove facilities with their records.
LEMMA OtherUserKeepsInv ==
  ASSUME Inv, OtherUser
  PROVE  Inv'
<1>1. ShellInv' /\ Shown' = Shown
  BY ShellIsLeft DEF OtherUser, Inv
<1>2. UNCHANGED <<saves, confirmed, selected, from, to, requests>>
  BY DEF OtherUser, told, drillDown
<1>3. ListInv' /\ FormInv'
  BY <1>1, ListsAreLeft, FormIsLeft DEF Inv, OtherUser
<1>4. StoreInv' /\ store'.records \subseteq store.records
  <2>1. /\ store = [facilities |-> store.facilities, catalog |-> store.catalog, records |-> store.records]
        /\ store.facilities \in Seq(Facilities) /\ store.catalog \in Seq(Fields)
        /\ IsFiniteSet(store.records)
    BY DEF Inv, StoreInv
  <2>2. CASE \E i \in DOMAIN store.catalog, k \in Kinds : store' = [store EXCEPT !.catalog[i].kind = k]
    <3>1. PICK i \in DOMAIN store.catalog, k \in Kinds : store' = [store EXCEPT !.catalog[i].kind = k]
      BY <2>2
    <3>2. PICK f : f = [store.catalog[i] EXCEPT !.kind = k]
      OBVIOUS
    <3>3. store.catalog[i] \in Fields
      BY <2>1
    <3>4. f \in Fields
      BY <3>2, <3>3 DEF Fields
    <3>5. PICK c : c = [store.catalog EXCEPT ![i] = f]
      OBVIOUS
    <3>6. c \in Seq(Fields)
      BY <2>1, <3>4, <3>5
    <3>7. store' = [store EXCEPT !.catalog = c]
      BY <3>1, <3>2, <3>5
    <3>8. store' = [facilities |-> store.facilities, catalog |-> c, records |-> store.records]
      BY <2>1, <3>7
    <3> QED
      BY <2>1, <3>6, <3>8 DEF StoreInv
  <2>3. CASE \E i \in DOMAIN store.catalog : store' = [store EXCEPT !.catalog = RemoveAt(@, i)]
    <3>1. PICK i \in DOMAIN store.catalog : store' = [store EXCEPT !.catalog = RemoveAt(@, i)]
      BY <2>3
    <3>2. PICK c : c = RemoveAt(store.catalog, i)
      OBVIOUS
    <3>3. c \in Seq(Fields)
      BY <2>1, <3>2, Removing
    <3>4. store' = [facilities |-> store.facilities, catalog |-> c, records |-> store.records]
      BY <2>1, <3>1, <3>2
    <3> QED
      BY <2>1, <3>3, <3>4 DEF StoreInv
  <2>4. CASE \E i \in DOMAIN store.facilities :
               store' = [store EXCEPT !.facilities = RemoveAt(@, i),
                                      !.records = {r \in @ : r.facility # store.facilities[i]}]
    <3>1. PICK i \in DOMAIN store.facilities :
            store' = [store EXCEPT !.facilities = RemoveAt(@, i),
                                   !.records = {r \in @ : r.facility # store.facilities[i]}]
      BY <2>4
    <3>2. PICK l, k : l = RemoveAt(store.facilities, i) /\ k = {r \in store.records : r.facility # store.facilities[i]}
      OBVIOUS
    <3>3. l \in Seq(Facilities)
      BY <2>1, <3>2, Removing
    <3>4. k \subseteq store.records /\ IsFiniteSet(k)
      BY <2>1, <3>2, FS_Subset
    <3>5. store' = [facilities |-> l, catalog |-> store.catalog, records |-> k]
      BY <2>1, <3>1, <3>2
    <3> QED
      BY <2>1, <3>3, <3>4, <3>5 DEF StoreInv
  <2> QED
    BY <2>2, <2>3, <2>4 DEF OtherUser
<1>5. SaveInv'
  BY <1>4, SavesAreLeft DEF Inv, OtherUser
<1>6. DrillInv'
  BY <1>1, <1>2, <1>4, DrillDownIsLeft DEF Inv, OtherUser
<1>7. RequestInv'
  BY <1>1, <1>2, <1>4, RequestsAreLeft DEF Inv
<1> QED
  BY <1>1, <1>3, <1>4, <1>5, <1>6, <1>7 DEF Inv

(***************************************************************************)
(* An answer reaches its screen.                                           *)
(***************************************************************************)

\* A new list of facilities selects one of its own.
LEMMA FacilitiesKeepInv ==
  ASSUME Inv, NEW r \in requests, requests' = requests \ {r}, UNCHANGED <<session, browser, route, store>>,
         NEW ok, NEW list, ok => list \in Seq(Facilities), ok \in BOOLEAN, TakeFacilities(ok, list)
  PROVE  Inv'
<1>1. ShellInv' /\ Shown' = Shown
  BY ShellIsLeft DEF Inv
<1>2. UNCHANGED <<store, saves, confirmed, selected, records, from, to, clientPage, addedRow, catalog, entries, date, saveState>>
  BY DEF TakeFacilities, told, drillDown, grid, form
<1>3. StoreInv' /\ SaveInv'
  BY <1>2, StoreIsLeft, SavesAreLeft DEF Inv, told
<1>4. DrillInv'
  BY <1>1, <1>2 DEF Inv, DrillInv, CurrentQuery, IsAnswer
<1>5. RequestInv'
  BY <1>1, <1>2, RequestsAreLeft DEF Inv
<1>6. ListInv'
  <2>1. <<>> \in Seq(Facilities)
    OBVIOUS
  <2>2. facilities' \in {facilities, list, <<>>} /\ (facilities' = list => ok \/ facilities' \in {facilities, <<>>})
    BY DEF TakeFacilities
  <2> QED
    BY <1>2, <2>1, <2>2 DEF Inv, ListInv
<1>7. FormInv'
  <2>1. CASE Shown = "log" /\ ok
    <3>1. Listed' # <<>> => Listed' = list /\ list # <<>>
      BY <2>1 DEF TakeFacilities, Listed
    <3>2. list # <<>> => chosen' = list[1] /\ list[1] \in ToSet(list)
      BY <2>1 DEF TakeFacilities, ChosenFrom, ToSet
    <3> QED
      BY <1>1, <1>2, <3>1, <3>2 DEF Inv, FormInv, NoFieldTwice
  <2>2. CASE Shown = "log" /\ ~ok
    <3>1. Listed' = <<>>
      BY <2>2 DEF TakeFacilities, Listed
    <3> QED
      BY <1>1, <1>2, <3>1 DEF Inv, FormInv, NoFieldTwice
  <2>3. CASE Shown # "log"
    BY <1>1, <1>2, <2>3 DEF Inv, FormInv, NoFieldTwice
  <2> QED
    BY <2>1, <2>2, <2>3
<1> QED
  BY <1>1, <1>3, <1>4, <1>5, <1>6, <1>7 DEF Inv

\* A new catalog leaves the entries as they are.
LEMMA CatalogKeepsInv ==
  ASSUME Inv, NEW r \in requests, requests' = requests \ {r}, UNCHANGED <<session, browser, route, store>>,
         NEW ok, NEW list, ok => list \in Seq(Fields), ok \in BOOLEAN, TakeCatalog(ok, list)
  PROVE  Inv'
<1>1. ShellInv' /\ Shown' = Shown
  BY ShellIsLeft DEF Inv
<1>2. UNCHANGED <<store, saves, confirmed, selected, from, to, facilities>>
  BY DEF TakeCatalog, told, drillDown
<1>3. StoreInv' /\ SaveInv'
  BY <1>2, StoreIsLeft, SavesAreLeft DEF Inv, told
<1>4. DrillInv' /\ RequestInv'
  BY <1>1, <1>2, DrillDownIsLeft, RequestsAreLeft DEF Inv, TakeCatalog
<1>5. ListInv' /\ Listed' = Listed
  BY <1>2 DEF Inv, ListInv, TakeCatalog, Listed
<1>6. FormInv'
  BY <1>1, <1>5 DEF Inv, FormInv, NoFieldTwice, TakeCatalog, form
<1> QED
  BY <1>1, <1>3, <1>4, <1>5, <1>6 DEF Inv

\* The answer to a query that was not cancelled is shown.
LEMMA RecordsKeepInv ==
  ASSUME Inv, NEW r \in requests, requests' = requests \ {r}, UNCHANGED <<session, browser, route, store>>,
         NEW ok, NEW list, ok => IsAnswer(list, r.of), r.kind = "records", TakeRecords(ok, list)
  PROVE  Inv'
<1>1. ShellInv' /\ Shown' = Shown
  BY ShellIsLeft DEF Inv
<1>2. UNCHANGED <<store, saves, confirmed, selected, from, to, clientPage, addedRow>>
  BY DEF TakeRecords, told, grid
<1>3. StoreInv' /\ SaveInv' /\ RequestInv'
  BY <1>1, <1>2, StoreIsLeft, SavesAreLeft, RequestsAreLeft DEF Inv, told
<1>4. ListInv' /\ FormInv'
  BY <1>1, ListsAreLeft, FormIsLeft DEF Inv, TakeRecords
<1>5. DrillInv'
  <2>1. CASE ok
    <3>1. PICK q : q = r.of /\ q = CurrentQuery
      BY DEF Inv, RequestInv, RecordsRequest
    <3>2. IsAnswer(list, q) /\ records' = list /\ q = CurrentQuery'
      BY <1>2, <2>1, <3>1 DEF TakeRecords, CurrentQuery
    <3>3. IsAnswer(list, q)'
      BY <1>2, <3>2, AnswersAreKept
    <3> QED
      BY <1>1, <1>2, <3>2, <3>3 DEF Inv, DrillInv, IsAnswer
  <2>2. CASE ~ok
    <3>1. records' = records
      BY <2>2 DEF TakeRecords
    <3> QED
      BY <1>1, <1>2, <3>1 DEF Inv, DrillInv, IsAnswer, CurrentQuery
  <2> QED
    BY <2>1, <2>2
<1> QED
  BY <1>1, <1>3, <1>4, <1>5 DEF Inv

\* A record is confirmed to the form that sent it, while no query is under way.
LEMMA SavedKeepsInv ==
  ASSUME Inv, NEW r \in requests, requests' = requests \ {r}, UNCHANGED <<session, browser, route, store>>,
         NEW ok, r.kind = "create", TakeSaved(r, ok)
  PROVE  Inv'
<1>1. ShellInv' /\ Shown' = Shown
  BY ShellIsLeft DEF Inv
<1>2. UNCHANGED <<store, saves, selected, records, from, to, clientPage, addedRow, lists, entries, date, chosen>>
  BY DEF TakeSaved, drillDown, grid
<1>3. ListInv' /\ StoreInv' /\ Listed' = Listed
  BY <1>2, ListsAreLeft, StoreIsLeft DEF Inv
<1>4. CreateRequest(r)
  BY DEF Inv, RequestInv
<1>5. SaveInv'
  <2>1. confirmed' \subseteq confirmed \cup {r.of.id}
    BY DEF TakeSaved
  <2> QED
    BY <1>2, <1>4, <2>1 DEF Inv, SaveInv, CreateRequest, Faithful
<1>6. FormInv'
  <2>1. saveState' # "idle" => saveState # "idle" \/ Shown = "log"
    BY <1>4 DEF TakeSaved, CreateRequest
  <2> QED
    BY <1>1, <1>2, <1>3, <2>1 DEF Inv, FormInv, NoFieldTwice
<1>7. CASE r.mine /\ ok
  <2>1. Shown = "log" /\ selected = NoRow
    BY <1>4, <1>7 DEF Inv, DrillInv, CreateRequest
  <2>2. DrillInv'
    BY <1>1, <1>2, <2>1 DEF Inv, DrillInv
  <2>3. \A q \in requests : q.kind # "records"
    BY <2>1 DEF Inv, RequestInv, RecordsRequest
  <2>4. confirmed' = confirmed \cup {r.of.id}
    BY <1>7 DEF TakeSaved
  <2>5. ASSUME NEW q \in requests', q.kind = "create"
        PROVE  CreateRequest(q)'
    <3>1. CreateRequest(q) /\ q.of.id # r.of.id
      BY <2>5 DEF Inv, RequestInv
    <3>2. PICK o : o = q.of
      OBVIOUS
    <3>3. Faithful(o)'
      BY <1>2, <3>1, <3>2, RecordsStayFaithful DEF CreateRequest
    <3> QED
      BY <1>1, <1>2, <2>4, <3>1, <3>2, <3>3 DEF CreateRequest
  <2>6. RequestInv'
    BY <2>3, <2>5 DEF Inv, RequestInv
  <2> QED
    BY <1>1, <1>3, <1>5, <1>6, <2>2, <2>6 DEF Inv
<1>8. CASE ~(r.mine /\ ok)
  <2>1. confirmed' = confirmed
    BY <1>8 DEF TakeSaved
  <2>2. DrillInv'
    BY <1>1, <1>2, <2>1 DEF Inv, DrillInv, CurrentQuery, IsAnswer
  <2>3. RequestInv'
    BY <1>1, <1>2, <2>1, RequestsAreLeft DEF Inv
  <2> QED
    BY <1>1, <1>3, <1>5, <1>6, <2>2, <2>3 DEF Inv
<1> QED
  BY <1>7, <1>8

\* Every kind of request ends with its answer or with a failure.
LEMMA ArriveKeepsInv ==
  ASSUME Inv, NEW r, Arrive(r)
  PROVE  Inv'
<1>1. r \in requests /\ requests' = requests \ {r} /\ UNCHANGED <<session, browser, route, store>>
  BY DEF Arrive
<1>2. IsRequest(r)
  BY <1>1 DEF Inv, RequestInv
<1>3. CASE r.kind = "facilities"
  <2>1. TakeFacilities(TRUE, store.facilities) \/ TakeFacilities(FALSE, <<>>)
    BY <1>2, <1>3 DEF Arrive, Take, IsRequest
  <2>2. store.facilities \in Seq(Facilities)
    BY DEF Inv, StoreInv
  <2>3. PICK l : l = store.facilities
    OBVIOUS
  <2> QED
    BY <1>1, <2>1, <2>2, <2>3, FacilitiesKeepInv
<1>4. CASE r.kind = "catalog"
  <2>1. TakeCatalog(TRUE, store.catalog) \/ TakeCatalog(FALSE, <<>>)
    BY <1>2, <1>4 DEF Arrive, Take, IsRequest
  <2>2. store.catalog \in Seq(Fields)
    BY DEF Inv, StoreInv
  <2>3. PICK l : l = store.catalog
    OBVIOUS
  <2> QED
    BY <1>1, <2>1, <2>2, <2>3, CatalogKeepsInv
<1>5. CASE r.kind = "records"
  <2>1. (r.answer # NoRow /\ TakeRecords(r.answer.ok, r.answer.list)) \/ TakeRecords(FALSE, <<>>)
    BY <1>5 DEF Arrive, Take
  <2>2. r.answer # NoRow => IsAnswer(r.answer.list, r.of)
    BY <1>1, <1>5 DEF Inv, RequestInv, RecordsRequest
  <2> QED
    BY <1>1, <1>5, <2>1, <2>2, RecordsKeepInv
<1>6. CASE r.kind = "create"
  <2>1. TakeSaved(r, r.answer.ok) \/ TakeSaved(r, FALSE)
    BY <1>6 DEF Arrive, Take
  <2> QED
    BY <1>1, <1>6, <2>1, SavedKeepsInv
<1> QED
  BY <1>2, <1>3, <1>4, <1>5, <1>6 DEF IsRequest

(***************************************************************************)
(* The invariant and the theorems.                                         *)
(***************************************************************************)

\* At first nothing is shown, asked or sent.
LEMMA InitEstablishesInv ==
  ASSUME Init
  PROVE  Inv
<1>1. ShellInv
  <2>1. PICK b \in Budgets : audience = b.audience /\ history = <<b.address>>
    BY DEF Init, InitShell
  <2>2. b.address \in Visited /\ b.audience \in {"orgUser", "siteAdmin"}
    BY VisitedAddresses, ShellAssumption
  <2>3. history \in Seq(Visited) /\ DOMAIN history = {1}
    BY <2>1, <2>2
  <2>4. AddressMatchesScreen
    BY DEF Init, InitShell, AddressMatchesScreen, Mounted
  <2> QED
    BY <2>1, <2>2, <2>3, <2>4, ScreenNames DEF Init, InitShell, ShellInv
<1>2. StoreInv
  BY RecordScreensAssumption DEF Init, StoreInv, Facilities
<1>3. ListInv
  BY DEF Init, ListInv
<1>4. FormInv
  BY RecordScreensAssumption DEF Init, FormInv, NoFieldTwice
<1>5. DrillInv
  BY DEF Init, InitGrid, DrillInv
<1>6. SaveInv
  <2>1. saves = <<>> /\ DOMAIN saves = {} /\ store.records = FirstStore.records /\ confirmed = {}
    BY DEF Init
  <2>2. saves \in Seq(ToSet(saves))
    BY <2>1
  <2> QED
    BY <2>1, <2>2, RecordScreensAssumption DEF SaveInv
<1>7. RequestInv
  BY DEF Init, RequestInv
<1> QED
  BY <1>1, <1>2, <1>3, <1>4, <1>5, <1>6, <1>7 DEF Inv

\* Every step keeps the invariant.
LEMMA NextKeepsInv ==
  ASSUME Inv, [Next]_vars
  PROVE  Inv'
<1>1. CASE ShellStep
  BY <1>1, ShellStepKeepsInv
<1>2. CASE SelectFacility \/ BackToFacilities \/ SetRange
  BY <1>2, RecordsStepsKeepInv
<1>3. CASE TurnThePage
  BY <1>3, TurnThePageKeepsInv
<1>4. CASE AddField
  BY <1>4, AddFieldKeepsInv
<1>5. CASE ChooseField
  BY <1>5, ChooseFieldKeepsInv
<1>6. CASE SetValue
  BY <1>6, SetValueKeepsInv
<1>7. CASE RemoveEntry
  BY <1>7, RemoveEntryKeepsInv
<1>8. CASE ChooseFacilityOrDate
  BY <1>8, ChooseFacilityOrDateKeepsInv
<1>9. CASE Save
  BY <1>9, SaveKeepsInv
<1>10. CASE OtherUser
  BY <1>10, OtherUserKeepsInv
<1>11. CASE \E r \in requests : Serve(r) \/ Arrive(r)
  BY <1>11, ServeKeepsInv, ArriveKeepsInv
<1>12. CASE UNCHANGED vars
  <2>1. /\ UNCHANGED <<session, browser, route, lists, drillDown, form, requests, store, told>>
        /\ UNCHANGED <<selected, from, to, saves, confirmed>>
    BY <1>12 DEF vars, shell, drillDown, told
  <2>2. ShellInv' /\ Shown' = Shown
    BY <2>1, ShellIsLeft DEF Inv
  <2>3. ListInv' /\ StoreInv' /\ FormInv' /\ SaveInv'
    BY <2>1, <2>2, ListsAreLeft, StoreIsLeft, FormIsLeft, SavesAreLeft DEF Inv
  <2>4. DrillInv' /\ RequestInv'
    BY <2>1, <2>2, DrillDownIsLeft, RequestsAreLeft DEF Inv
  <2> QED
    BY <2>2, <2>3, <2>4 DEF Inv
<1> QED
  BY <1>1, <1>2, <1>3, <1>4, <1>5, <1>6, <1>7, <1>8, <1>9, <1>10, <1>11, <1>12 DEF Next

\* The invariant holds for every number of fields, records, pages and requests, of every
\* history of addresses and session.
THEOREM InvHolds == Spec => []Inv
BY InitEstablishesInv, NextKeepsInv, PTL DEF Spec

\* The screen is the one of the address whenever no event is under way
\* (useHashScreen.ts:119-180).
THEOREM AddressMatchesScreenHolds == Spec => []AddressMatchesScreen
<1>1. Inv => AddressMatchesScreen
  BY DEF Inv, ShellInv
<1> QED
  BY <1>1, InvHolds, PTL

\* The records listed are of the facility and the range in the pickers
\* (RecordsScreen.tsx:133-149).
THEOREM ShownRecordsMatchTheFilterHolds == Spec => []ShownRecordsMatchTheFilter
<1>1. Inv => ShownRecordsMatchTheFilter
  <2> SUFFICES ASSUME Inv, selected # NoRow, NEW r \in ToSet(Rows)
               PROVE  r.facility = selected /\ InRange(r.date, from, to)
    BY DEF ShownRecordsMatchTheFilter
  <2>1. records # NoRow /\ r \in ToSet(records)
    BY DEF Rows, ToSet
  <2>2. Matches(r, CurrentQuery)
    BY <2>1 DEF Inv, DrillInv, IsAnswer
  <2> QED
    BY <2>2 DEF Matches, CurrentQuery
<1> QED
  BY <1>1, InvHolds, PTL

\* A record reported as saved is listed with what its editors showed
\* (LogRecordScreen.tsx:154-188, RecordsScreen.tsx:35-47).
THEOREM ConfirmedRecordsAreShownHolds == Spec => []ConfirmedRecordsAreShown
<1>1. Inv => ConfirmedRecordsAreShown
  <2> SUFFICES ASSUME Inv, selected # NoRow, records # NoRow,
                      NEW id \in confirmed, saves[id].facility = selected, InRange(saves[id].date, from, to),
                      NEW r \in store.records, r.id = id
               PROVE  /\ r \in ToSet(Rows)
                      /\ \A s \in saves[id].shown : s.text # "" =>
                           \A f \in SummaryFields : f.name = s.field /\ f.kind = s.kind => Cell(f, r) = s.text
    BY DEF ConfirmedRecordsAreShown
  <2>1. Faithful(r)
    BY DEF Inv, SaveInv
  <2>2. Matches(r, CurrentQuery)
    BY <2>1 DEF Faithful, Matches, CurrentQuery
  <2>3. IsAnswer(records, CurrentQuery)
    BY DEF Inv, DrillInv
  <2>4. r \in ToSet(records)
    BY <2>2, <2>3 DEF IsAnswer
  <2>5. SummaryFields \subseteq Fields
    BY FieldsOfTheCatalog DEF Inv, SummaryFields
  <2> QED
    BY <2>1, <2>4, <2>5 DEF Faithful, Rows
<1> QED
  BY <1>1, InvHolds, PTL

\* The shell shows one of its screens, or none.
LEMMA ShownIsAScreen ==
  ASSUME ShellInv
  PROVE  Shown \in Screens \cup {"none"}
<1>1. CASE Mounted
  <2>1. me \in {"orgUser", "siteAdmin"}
    BY <1>1 DEF ShellInv, Mounted
  <2> QED
    BY <1>1, <2>1, HomeTabIsAScreen DEF ShellInv, Shown, EffectiveScreen
<1>2. CASE ~Mounted
  BY <1>2 DEF Shown
<1> QED
  BY <1>1, <1>2

\* What the screens hold is of the screen shown, no page is empty, no field is entered
\* twice, and a record is sent for a facility the form offers (RecordsScreen.tsx:194-202,
\* LogRecordScreen.tsx:86-123, 242-248).
THEOREM ScreensAreConsistentHolds == Spec => []ScreensAreConsistent
<1>1. Inv => ScreensAreConsistent
  <2> SUFFICES ASSUME Inv
               PROVE  ScreensAreConsistent
    OBVIOUS
  <2>1. TypeOK
    BY ShownIsAScreen DEF Inv, ShellInv, DrillInv, FormInv, SaveInv, TypeOK
  <2>2. RecordsPageIsNeverEmpty
    <3> SUFFICES ASSUME selected # NoRow
                 PROVE  PageIsNeverEmpty(Rows, PageSize)
      BY DEF RecordsPageIsNeverEmpty
    <3>1. addedRow = NoRow /\ clientPage \in Nat \ {0} /\ PageSize \in Nat \ {0}
      BY RecordScreensAssumption DEF Inv, DrillInv
    <3>2. PICK rows : rows = Rows
      OBVIOUS
    <3>3. rows \in Seq(ToSet(rows))
      <4>1. CASE records = NoRow
        BY <3>2, <4>1 DEF Rows
      <4>2. CASE records # NoRow
        <5>1. IsAnswer(records, CurrentQuery) /\ rows = records
          BY <3>2, <4>2 DEF Inv, DrillInv, Rows
        <5> QED
          BY <5>1 DEF IsAnswer
      <4> QED
        BY <4>1, <4>2
    <3>4. PageIsNeverEmpty(rows, PageSize)
      BY <3>1, <3>3, PagesHaveRows
    <3> QED
      BY <3>2, <3>4
  <2>3. NoFieldTwice
    BY DEF Inv, FormInv
  <2>4. ChosenFacilityIsOffered
    <3> SUFFICES ASSUME Shown = "log", Listed # <<>>
                 PROVE  SelectedFacility \in ToSet(Listed)
      BY DEF ChosenFacilityIsOffered, FormShown
    <3>1. PICK l : l = Listed
      OBVIOUS
    <3>2. l \in Seq(Facilities)
      BY <3>1 DEF Inv, ListInv, Listed
    <3>3. l[1] \in ToSet(l)
      BY <3>1, <3>2 DEF ToSet
    <3> QED
      BY <3>1, <3>3 DEF Inv, FormInv, SelectedFacility
  <2> QED
    BY <2>1, <2>2, <2>3, <2>4 DEF ScreensAreConsistent
<1> QED
  BY <1>1, InvHolds, PTL

-----------------------------------------------------------------------------
(***************************************************************************)
(* Sequences, and the items of one that are kept.                          *)
(***************************************************************************)

\* A sequence is a function of 1 .. n, and the other way round.
LEMMA SeqIsFunction ==
  ASSUME NEW s, IsSeq(s)
  PROVE  /\ Len(s) \in Nat /\ DOMAIN s = 1 .. Len(s) /\ s = [i \in 1 .. Len(s) |-> s[i]]
         /\ \A i \in DOMAIN s : s[i] \in Range(s)
         /\ \A x \in Range(s) : \E i \in DOMAIN s : s[i] = x
<1>1. s \in Seq(Range(s))
  BY DEF IsSeq
<1>2. Len(s) \in Nat /\ DOMAIN s = 1 .. Len(s) /\ s \in [1 .. Len(s) -> Range(s)]
  BY <1>1, LenProperties
<1> QED BY <1>2 DEF Range

\* A function of 1 .. n is a sequence of its values.
LEMMA FunctionIsSeq ==
  ASSUME NEW n \in Nat, NEW f, DOMAIN f = 1 .. n, f = [i \in 1 .. n |-> f[i]]
  PROVE  IsSeq(f) /\ Len(f) = n
<1>1. f \in [1 .. n -> Range(f)]
  BY DEF Range
<1>2. f \in Seq(Range(f))
  BY <1>1, IsASeq
<1>3. Len(f) \in Nat /\ DOMAIN f = 1 .. Len(f)
  BY <1>2, LenProperties
<1>4. Len(f) = n
  BY <1>3
<1> QED BY <1>2, <1>4 DEF IsSeq

\* Counting the smaller ones finds the n-th of a set of places.
LEMMA PlacesInOrder ==
  ASSUME NEW m \in Nat, NEW K \in SUBSET (1 .. m)
  PROVE  /\ IsFiniteSet(K) /\ Cardinality(K) \in Nat
         /\ \A n \in 1 .. Cardinality(K) : \E i \in K : Cardinality({j \in K : j < i}) = n - 1
<1> DEFINE below(i) == {j \in K : j < i}
           N == Cardinality(K)
<1>1. IsFiniteSet(1 .. m)
  BY FS_Interval
<1>2. IsFiniteSet(K) /\ N \in Nat
  BY <1>1, FS_Subset, FS_CardinalityType
<1>3. \A i \in K : IsFiniteSet(below(i)) /\ Cardinality(below(i)) \in Nat /\ Cardinality(below(i)) < N
  <2> SUFFICES ASSUME NEW i \in K
               PROVE  IsFiniteSet(below(i)) /\ Cardinality(below(i)) \in Nat /\ Cardinality(below(i)) < N
    OBVIOUS
  <2> PICK b : b = below(i)
    OBVIOUS
  <2>1. b \in SUBSET K /\ i \notin b
    OBVIOUS
  <2>2. IsFiniteSet(b) /\ Cardinality(b) <= N /\ Cardinality(b) # N
    BY <1>2, <2>1, FS_Subset
  <2>3. Cardinality(b) \in Nat
    BY <2>2, FS_CardinalityType
  <2> QED BY <1>2, <2>2, <2>3
<1>4. \A i, j \in K : i < j => Cardinality(below(i)) < Cardinality(below(j))
  <2> SUFFICES ASSUME NEW i \in K, NEW j \in K, i < j
               PROVE  Cardinality(below(i)) < Cardinality(below(j))
    OBVIOUS
  <2> PICK a : a = below(i)
    OBVIOUS
  <2> PICK b : b = below(j)
    OBVIOUS
  <2>0. i \in Int /\ j \in Int /\ K \subseteq Int
    OBVIOUS
  <2>1. a \in SUBSET b /\ i \in b /\ i \notin a
    <3>1. \A k \in K : k < i => k < j
      BY <2>0
    <3>2. \A k : (k \in a <=> k \in K /\ k < i) /\ (k \in b <=> k \in K /\ k < j)
      OBVIOUS
    <3>3. ~(i < i)
      BY <2>0
    <3> QED BY <3>1, <3>2, <3>3
  <2>2. IsFiniteSet(b) /\ Cardinality(b) \in Nat /\ Cardinality(a) \in Nat
    BY <1>3
  <2>3. Cardinality(a) <= Cardinality(b) /\ Cardinality(a) # Cardinality(b)
    BY <2>1, <2>2, FS_Subset
  <2> QED BY <2>2, <2>3
<1>5. PICK f : f = [i \in K |-> Cardinality(below(i)) + 1]
  OBVIOUS
<1>6. \A i \in K : f[i] = Cardinality(below(i)) + 1
  BY <1>5
<1> HIDE DEF below
<1>7. f \in [K -> 1 .. N]
  BY <1>2, <1>3, <1>5
<1>8. \A i, j \in K : f[i] = f[j] => i = j
  <2> SUFFICES ASSUME NEW i \in K, NEW j \in K, f[i] = f[j], i # j PROVE FALSE
    OBVIOUS
  <2>1. i < j \/ j < i
    OBVIOUS
  <2> QED BY <1>3, <1>4, <1>6, <2>1
<1>9. \A n \in 1 .. N : \E i \in K : f[i] = n
  <2> PICK T : T = 1 .. N
    OBVIOUS
  <2>1. IsFiniteSet(T) /\ Cardinality(T) = N
    BY <1>2, FS_Interval
  <2>2. f \in Injection(K, T)
    BY <1>7, <1>8, <2>1 DEF Injection, IsInjective
  <2>3. f \in Surjection(K, T)
    BY <1>2, <2>1, <2>2, FS_Injection
  <2> QED BY <2>3 DEF Surjection
<1>10. \A n \in 1 .. N : \E i \in K : Cardinality(below(i)) = n - 1
  <2> SUFFICES ASSUME NEW n \in 1 .. N PROVE \E i \in K : Cardinality(below(i)) = n - 1
    OBVIOUS
  <2>1. PICK i \in K : f[i] = n
    BY <1>9
  <2>2. Cardinality(below(i)) = n - 1
    BY <1>2, <1>3, <1>6, <2>1
  <2> QED BY <2>2
<1> QED BY <1>2, <1>10 DEF below

\* What is kept are items of the sequence at the places.
LEMMA KeptItems ==
  ASSUME NEW s, IsSeq(s), NEW K \in SUBSET DOMAIN s
  PROVE  /\ Cardinality(K) \in Nat /\ DOMAIN Kept(s, K) = 1 .. Cardinality(K)
         /\ Kept(s, K) = [n \in 1 .. Cardinality(K) |-> Kept(s, K)[n]]
         /\ \A n \in 1 .. Cardinality(K) : \E i \in K : Kept(s, K)[n] = s[i]
<1> DEFINE place(n) == CHOOSE i \in K : Cardinality({j \in K : j < i}) = n - 1
           N == Cardinality(K)
<1>1. Len(s) \in Nat /\ K \in SUBSET (1 .. Len(s))
  BY SeqIsFunction
<1>2. N \in Nat /\ \A n \in 1 .. N : place(n) \in K
  BY <1>1, PlacesInOrder
<1>3. Kept(s, K) = [n \in 1 .. N |-> s[place(n)]]
  BY DEF Kept
<1> HIDE DEF place, N
<1>4. DOMAIN Kept(s, K) = 1 .. N /\ \A n \in 1 .. N : Kept(s, K)[n] = s[place(n)]
  BY <1>3
<1>5. Kept(s, K) = [n \in 1 .. N |-> Kept(s, K)[n]]
  BY <1>3, <1>4
<1> QED BY <1>2, <1>4, <1>5 DEF N

\* All the items are the sequence.
LEMMA KeptAll ==
  ASSUME NEW s, IsSeq(s)
  PROVE  Kept(s, DOMAIN s) = s
<1> DEFINE N == Len(s)
<1>1. N \in Nat /\ DOMAIN s = 1 .. N /\ s = [i \in 1 .. N |-> s[i]]
  BY SeqIsFunction
<1>2. Cardinality(1 .. N) = N
  BY <1>1, FS_Interval
<1>3. \A i \in 1 .. N : Cardinality({j \in 1 .. N : j < i}) = i - 1
  <2> SUFFICES ASSUME NEW i \in 1 .. N PROVE Cardinality({j \in 1 .. N : j < i}) = i - 1
    OBVIOUS
  <2>1. {j \in 1 .. N : j < i} = 1 .. (i - 1)
    BY <1>1
  <2>2. Cardinality(1 .. (i - 1)) = i - 1
    BY <1>1, FS_Interval
  <2> QED BY <2>1, <2>2
<1>4. \A n \in 1 .. N : (CHOOSE i \in 1 .. N : Cardinality({j \in 1 .. N : j < i}) = n - 1) = n
  <2> SUFFICES ASSUME NEW n \in 1 .. N
               PROVE  (CHOOSE i \in 1 .. N : Cardinality({j \in 1 .. N : j < i}) = n - 1) = n
    OBVIOUS
  <2>1. \A i \in 1 .. N : Cardinality({j \in 1 .. N : j < i}) = n - 1 <=> i = n
    BY <1>1, <1>3
  <2> QED BY <2>1
<1> DEFINE place(n) == CHOOSE i \in 1 .. N : Cardinality({j \in 1 .. N : j < i}) = n - 1
<1>5. Kept(s, DOMAIN s) = [n \in 1 .. N |-> s[place(n)]]
  BY <1>1, <1>2 DEF Kept
<1>6. \A n \in 1 .. N : place(n) = n
  BY <1>4
<1> HIDE DEF place, N
<1> QED BY <1>1, <1>5, <1>6

-----------------------------------------------------------------------------
(***************************************************************************)
(* The document: what is written is read back, and read the same twice.    *)
(***************************************************************************)

\* An entry of a table whose values differ is found again by its value.
LEMMA TableEntries ==
  ASSUME NEW f, \A x, y \in DOMAIN f : f[x] = f[y] => x = y
  PROVE  /\ \A x \in DOMAIN f : f[x] \in Range(f) /\ AntiFunction(f)[f[x]] = x
         /\ \A v \in Range(f) : AntiFunction(f)[v] \in DOMAIN f
<1>1. \A x \in DOMAIN f : f[x] \in Range(f)
  BY DEF Range
<1>2. \A v \in Range(f) : \E x \in DOMAIN f : f[x] = v
  BY DEF Range
<1>3. \A v \in Range(f) : AntiFunction(f)[v] = CHOOSE x \in DOMAIN f : v \in Range(f) => f[x] = v
  BY DEF AntiFunction, Inverse
<1>4. \A v \in Range(f) : AntiFunction(f)[v] \in DOMAIN f /\ f[AntiFunction(f)[v]] = v
  BY <1>2, <1>3
<1>5. \A x \in DOMAIN f : AntiFunction(f)[f[x]] = x
  BY <1>1, <1>4
<1> QED BY <1>1, <1>4, <1>5

\* The two tables of the styles.
LEMMA StyleTables ==
  /\ \A x \in DOMAIN FontWeightRdl :
       FontWeightRdl[x] \in Range(FontWeightRdl) /\ AntiFunction(FontWeightRdl)[FontWeightRdl[x]] = x
  /\ \A v \in Range(FontWeightRdl) : AntiFunction(FontWeightRdl)[v] \in DOMAIN FontWeightRdl
  /\ \A x \in DOMAIN AlignRdl : AlignRdl[x] \in Range(AlignRdl) /\ AntiFunction(AlignRdl)[AlignRdl[x]] = x
  /\ \A v \in Range(AlignRdl) : AntiFunction(AlignRdl)[v] \in DOMAIN AlignRdl
<1>1. \A x, y \in DOMAIN FontWeightRdl : FontWeightRdl[x] = FontWeightRdl[y] => x = y
  BY DEF FontWeightRdl
<1>2. \A x, y \in DOMAIN AlignRdl : AlignRdl[x] = AlignRdl[y] => x = y
  BY DEF AlignRdl
<1> QED BY <1>1, <1>2, TableEntries

\* A style that is written is read back.
LEMMA StyleRoundTrip ==
  ASSUME NEW s, IsStyle(s)
  PROVE  ParsedStyle(WrittenStyle(s)) = s
<1> DEFINE w == WrittenStyle(s)
           kept == {q \in DOMAIN w : /\ q = "fontWeight" => w[q] \in Range(FontWeightRdl)
                                     /\ q = "align" => w[q] \in Range(AlignRdl)}
           read(p) == CASE p = "fontWeight" -> AntiFunction(FontWeightRdl)[w[p]]
                        [] p = "align"      -> AntiFunction(AlignRdl)[w[p]]
                        [] OTHER            -> w[p]
<1>1. DOMAIN w = DOMAIN s
  BY DEF WrittenStyle
<1>2. \A p \in DOMAIN s : /\ p = "fontWeight" => w[p] = FontWeightRdl[s[p]]
                          /\ p = "align" => w[p] = AlignRdl[s[p]]
                          /\ p # "fontWeight" /\ p # "align" => w[p] = s[p]
  BY DEF WrittenStyle
<1>3. /\ s = [p \in DOMAIN s |-> s[p]]
      /\ \A p \in DOMAIN s : /\ p = "fontWeight" => s[p] \in DOMAIN FontWeightRdl
                             /\ p = "align" => s[p] \in DOMAIN AlignRdl
  BY DEF IsStyle
<1>4. ParsedStyle(w) = [p \in kept |-> read(p)]
  BY DEF ParsedStyle
<1> HIDE DEF w
<1>5. kept = DOMAIN s
  BY <1>1, <1>2, <1>3, StyleTables
<1>6. \A p \in DOMAIN s : read(p) = s[p]
  BY <1>2, <1>3, StyleTables
<1> HIDE DEF kept, read
<1>7. ParsedStyle(w) = s
  BY <1>3, <1>4, <1>5, <1>6
<1> QED BY <1>7 DEF w

\* What is read as a style is one.
LEMMA ParsedStyleIsStyle ==
  ASSUME NEW w
  PROVE  IsStyle(ParsedStyle(w))
<1> DEFINE kept == {q \in DOMAIN w : /\ q = "fontWeight" => w[q] \in Range(FontWeightRdl)
                                     /\ q = "align" => w[q] \in Range(AlignRdl)}
           read(p) == CASE p = "fontWeight" -> AntiFunction(FontWeightRdl)[w[p]]
                        [] p = "align"      -> AntiFunction(AlignRdl)[w[p]]
                        [] OTHER            -> w[p]
           s == ParsedStyle(w)
<1>1. s = [p \in kept |-> read(p)]
  BY DEF ParsedStyle
<1>2. "fontWeight" \in kept => read("fontWeight") \in DOMAIN FontWeightRdl
  BY StyleTables
<1>3. "align" \in kept => read("align") \in DOMAIN AlignRdl
  BY StyleTables
<1> HIDE DEF kept, read, s
<1>4. DOMAIN s = kept /\ \A p \in kept : s[p] = read(p)
  BY <1>1
<1>5. s = [p \in DOMAIN s |-> s[p]]
  BY <1>1, <1>4
<1>6. IsStyle(s)
  BY <1>2, <1>3, <1>4, <1>5 DEF IsStyle
<1> QED BY <1>6 DEF s

\* An element that is written is read back.
LEMMA ElementRoundTrip ==
  ASSUME NEW e, IsElement(e)
  PROVE  WrittenElement(e).type \in ElementTypes /\ ParsedItem(WrittenElement(e)) = e
<1>1. /\ e = [id |-> e.id, type |-> e.type, rect |-> e.rect, text |-> e.text,
              expression |-> e.expression, style |-> e.style]
      /\ e.type \in ElementTypes /\ IsStyle(e.style)
  BY DEF IsElement
<1>2. ParsedStyle(WrittenStyle(e.style)) = e.style
  BY <1>1, StyleRoundTrip
<1>3. /\ WrittenElement(e).name = e.id /\ WrittenElement(e).type = e.type
      /\ WrittenElement(e).expression = e.expression /\ WrittenElement(e).rect = e.rect
      /\ WrittenElement(e).style = WrittenStyle(e.style) /\ WrittenElement(e).value = e.text
  BY DEF WrittenElement
<1>4. ParsedItem(WrittenElement(e)) =
        [id |-> e.id, type |-> e.type, rect |-> e.rect, text |-> e.text,
         expression |-> e.expression, style |-> e.style]
  BY <1>2, <1>3 DEF ParsedItem
<1> QED BY <1>1, <1>3, <1>4

\* The items of the builder, of which all are kept.
LEMMA ItemsRoundTrip ==
  ASSUME NEW s, IsSeq(s), \A e \in Range(s) : IsElement(e),
         NEW items, items = [i \in DOMAIN s |-> WrittenElement(s[i])]
  PROVE  /\ IsSeq(items) /\ DOMAIN items = DOMAIN s
         /\ \A i \in DOMAIN items : items[i].type \in ElementTypes
         /\ ParsedItems(items, DOMAIN items) = s
<1>1. Len(s) \in Nat /\ DOMAIN s = 1 .. Len(s) /\ s = [i \in 1 .. Len(s) |-> s[i]]
  BY SeqIsFunction
<1>2. \A i \in DOMAIN s : IsElement(s[i])
  BY SeqIsFunction
<1>3. /\ DOMAIN items = 1 .. Len(s) /\ items = [i \in 1 .. Len(s) |-> items[i]]
      /\ \A i \in DOMAIN s : items[i] = WrittenElement(s[i])
  BY <1>1
<1>4. IsSeq(items)
  BY <1>1, <1>3, FunctionIsSeq
<1>5. \A i \in DOMAIN items : items[i].type \in ElementTypes
  BY <1>1, <1>2, <1>3, ElementRoundTrip
<1>6. Kept(items, DOMAIN items) = items
  BY <1>4, KeptAll
<1>7. ParsedItems(items, DOMAIN items) = [n \in 1 .. Len(s) |-> ParsedItem(items[n])]
  BY <1>3, <1>6 DEF ParsedItems
<1>8. \A n \in 1 .. Len(s) : ParsedItem(items[n]) = s[n]
  BY <1>1, <1>2, <1>3, ElementRoundTrip
<1>9. ParsedItems(items, DOMAIN items) = s
  BY <1>1, <1>7, <1>8
<1> QED BY <1>1, <1>3, <1>4, <1>5, <1>9

\* A band that is written is read back.
LEMMA BandRoundTrip ==
  ASSUME NEW b, IsBand(b)
  PROVE  IsRectangle(WrittenBand(b)) /\ ParsedBand(WrittenBand(b)) = b
<1> DEFINE items == [i \in DOMAIN b.elements |-> WrittenElement(b.elements[i])]
<1>1. /\ b = [kind |-> b.kind, height |-> b.height, elements |-> b.elements]
      /\ b.kind \in BandKinds /\ b.height \in Int
      /\ IsSeq(b.elements) /\ \A e \in Range(b.elements) : IsElement(e)
  BY DEF IsBand
<1>2. WrittenBand(b) = [marker |-> b.kind, height |-> b.height, items |-> items]
  BY DEF WrittenBand
<1>3. /\ IsSeq(items) /\ \A i \in DOMAIN items : items[i].type \in ElementTypes
      /\ ParsedItems(items, DOMAIN items) = b.elements
  BY <1>1, ItemsRoundTrip
<1>4. PICK r : r = WrittenBand(b)
  OBVIOUS
<1> HIDE DEF items
<1>5. r.marker = b.kind /\ r.height = b.height /\ r.items = items
  BY <1>2, <1>4
<1>6. {i \in DOMAIN items : items[i].type # None} = DOMAIN items
  BY <1>3, DesignAssumption
<1>7. ParsedBand(r) = b
  BY <1>1, <1>3, <1>5, <1>6 DEF ParsedBand
<1>8. \A i \in Range(items) : i.type \in ElementTypes
  BY <1>3, SeqIsFunction
<1>9. IsRectangle(r)
  BY <1>1, <1>3, <1>5, <1>8 DEF IsRectangle
<1> QED BY <1>4, <1>7, <1>9

\* Whatever the bands, elements and styles of a template are, what toRdl writes of it is
\* a document, from which parseRdl reads the same template (rdl.ts calls them inverses).
THEOREM TemplateRoundTrip ==
  ASSUME NEW t, IsTemplate(t)
  PROVE  IsDocument(ToRdl(t)) /\ ParseRdl(ToRdl(t)) = t
<1> DEFINE body == [i \in DOMAIN t.bands |-> WrittenBand(t.bands[i])]
<1>1. /\ t = [name |-> t.name, settings |-> t.settings, page |-> t.page, bands |-> t.bands,
              pageNumbers |-> t.pageNumbers]
      /\ IsSeq(t.bands) /\ (\A b \in Range(t.bands) : IsBand(b))
      /\ t.pageNumbers \in PageNumberOptions
  BY DEF IsTemplate
<1>2. PICK doc : doc = ToRdl(t)
  OBVIOUS
<1>3. /\ doc.template.name = t.name /\ doc.template.settings = t.settings
      /\ doc.pageNumbers = t.pageNumbers /\ doc.page = t.page /\ doc.body = body
  BY <1>2 DEF ToRdl
<1>4. Len(t.bands) \in Nat /\ DOMAIN t.bands = 1 .. Len(t.bands)
      /\ t.bands = [i \in 1 .. Len(t.bands) |-> t.bands[i]]
      /\ \A i \in DOMAIN t.bands : IsBand(t.bands[i])
  BY <1>1, SeqIsFunction
<1>5. /\ DOMAIN body = 1 .. Len(t.bands) /\ body = [i \in 1 .. Len(t.bands) |-> body[i]]
      /\ \A i \in 1 .. Len(t.bands) : body[i] = WrittenBand(t.bands[i])
  BY <1>4
<1> HIDE DEF body
<1>6. IsSeq(body)
  BY <1>4, <1>5, FunctionIsSeq
<1>7. \A i \in 1 .. Len(t.bands) : IsRectangle(body[i]) /\ ParsedBand(body[i]) = t.bands[i]
  BY <1>4, <1>5, BandRoundTrip
<1>8. \A r \in Range(body) : IsRectangle(r)
  BY <1>5, <1>6, <1>7, SeqIsFunction
<1>9. IsDocument(doc)
  BY <1>1, <1>3, <1>6, <1>8 DEF IsDocument
<1>10. [i \in DOMAIN doc.body |-> ParsedBand(doc.body[i])] = t.bands
  BY <1>3, <1>4, <1>5, <1>7
<1>11. ParsedPageNumbers(doc) = t.pageNumbers
  BY <1>1, <1>3, DesignAssumption DEF ParsedPageNumbers, Fallback
<1>12. ParseRdl(doc) = t
  BY <1>1, <1>3, <1>10, <1>11 DEF ParseRdl
<1> QED BY <1>2, <1>9, <1>12

\* The items that are kept are read as elements, when their types are known.
LEMMA ParsedItemsAreElements ==
  ASSUME NEW items, IsSeq(items), NEW K \in SUBSET DOMAIN items,
         \A i \in K : items[i].type \in ElementTypes
  PROVE  IsSeq(ParsedItems(items, K)) /\ \A e \in Range(ParsedItems(items, K)) : IsElement(e)
<1> DEFINE of == Kept(items, K)
           N == Cardinality(K)
<1>1. N \in Nat /\ DOMAIN of = 1 .. N /\ \A n \in 1 .. N : \E i \in K : of[n] = items[i]
  BY KeptItems
<1>2. PICK s : s = ParsedItems(items, K)
  OBVIOUS
<1>3. s = [n \in DOMAIN of |-> ParsedItem(of[n])]
  BY <1>2 DEF ParsedItems
<1> HIDE DEF of, N
<1>4. DOMAIN s = 1 .. N /\ s = [n \in 1 .. N |-> s[n]] /\ \A n \in 1 .. N : s[n] = ParsedItem(of[n])
  BY <1>1, <1>3
<1>5. IsSeq(s)
  BY <1>1, <1>4, FunctionIsSeq
<1>6. \A n \in 1 .. N : IsElement(s[n])
  <2> SUFFICES ASSUME NEW n \in 1 .. N PROVE IsElement(s[n])
    OBVIOUS
  <2>1. PICK i \in K : of[n] = items[i]
    BY <1>1
  <2>2. PICK x : x = items[i]
    OBVIOUS
  <2>3. x.type \in ElementTypes /\ s[n] = ParsedItem(x)
    BY <1>4, <2>1, <2>2
  <2>4. IsStyle(ParsedStyle(x.style))
    BY ParsedStyleIsStyle
  <2>5. PICK e : e = ParsedItem(x)
    OBVIOUS
  <2>6. IsElement(e)
    BY <2>3, <2>4, <2>5 DEF IsElement, ParsedItem
  <2> QED BY <2>3, <2>5, <2>6
<1>7. \A e \in Range(s) : IsElement(e)
  BY <1>4, <1>5, <1>6, SeqIsFunction
<1> QED BY <1>2, <1>5, <1>7

\* A rectangle of a document is read as a band, by the builder and by the engine.
LEMMA RectangleIsRead ==
  ASSUME NEW r, IsRectangle(r)
  PROVE  IsBand(ParsedBand(r)) /\ ReadBand(r) = ParsedBand(r)
<1> DEFINE K == {i \in DOMAIN r.items : r.items[i].type # None}
<1>1. /\ r.marker \in BandKinds /\ r.height \in Int
      /\ IsSeq(r.items) /\ \A i \in Range(r.items) : i.type \in ElementTypes \cup {None}
  BY DEF IsRectangle
<1>2. \A i \in DOMAIN r.items : r.items[i].type \in ElementTypes \cup {None}
  BY <1>1, SeqIsFunction
<1>3. K = {i \in DOMAIN r.items : r.items[i].type \in ElementTypes}
  BY <1>2, DesignAssumption
<1>4. \A i \in K : r.items[i].type \in ElementTypes
  BY <1>2
<1>5. K \in SUBSET DOMAIN r.items
  OBVIOUS
<1>6. ParsedBand(r) = [kind |-> r.marker, height |-> r.height, elements |-> ParsedItems(r.items, K)]
  BY DEF ParsedBand
<1>7. ReadBand(r) = [kind |-> r.marker, height |-> r.height, elements |-> ParsedItems(r.items, K)]
  BY <1>3 DEF ReadBand
<1> HIDE DEF K
<1>8. PICK s : s = ParsedItems(r.items, K)
  OBVIOUS
<1>9. IsSeq(s) /\ \A e \in Range(s) : IsElement(e)
  BY <1>1, <1>4, <1>5, <1>8, ParsedItemsAreElements
<1>10. PICK b : b = ParsedBand(r)
  OBVIOUS
<1>11. b = [kind |-> r.marker, height |-> r.height, elements |-> s]
  BY <1>6, <1>8, <1>10
<1>12. IsBand(b)
  BY <1>1, <1>9, <1>11 DEF IsBand
<1> QED BY <1>6, <1>7, <1>10, <1>12

\* What the builder reads from a document is a template.
LEMMA DocumentIsRead ==
  ASSUME NEW doc, IsDocument(doc)
  PROVE  IsTemplate(ParseRdl(doc))
<1> DEFINE bands == [i \in DOMAIN doc.body |-> ParsedBand(doc.body[i])]
           N == Len(doc.body)
<1>1. /\ IsSeq(doc.body) /\ (\A r \in Range(doc.body) : IsRectangle(r))
      /\ doc.pageNumbers \in PageNumberOptions \cup {None}
  BY DEF IsDocument
<1>2. N \in Nat /\ DOMAIN doc.body = 1 .. N /\ \A i \in 1 .. N : IsBand(ParsedBand(doc.body[i]))
  BY <1>1, SeqIsFunction, RectangleIsRead
<1>3. DOMAIN bands = 1 .. N /\ bands = [i \in 1 .. N |-> bands[i]] /\ \A i \in 1 .. N : IsBand(bands[i])
  BY <1>2
<1>4. PICK s : s = bands
  OBVIOUS
<1> HIDE DEF N, bands
<1>5. IsSeq(s)
  BY <1>2, <1>3, <1>4, FunctionIsSeq
<1>6. \A b \in Range(s) : IsBand(b)
  <2> SUFFICES ASSUME NEW b \in Range(s) PROVE IsBand(b)
    OBVIOUS
  <2>1. PICK i \in DOMAIN s : s[i] = b
    BY <1>5, SeqIsFunction
  <2> QED BY <1>3, <1>4, <2>1
<1>7. PICK o : o = ParsedPageNumbers(doc)
  OBVIOUS
<1>8. o \in PageNumberOptions
  BY <1>1, <1>7, DesignAssumption DEF ParsedPageNumbers, Fallback
<1>9. PICK t : t = ParseRdl(doc)
  OBVIOUS
<1>10. t = [name |-> doc.template.name, settings |-> doc.template.settings, page |-> doc.page,
            bands |-> s, pageNumbers |-> o]
  BY <1>4, <1>7, <1>9 DEF ParseRdl, bands
<1>11. IsTemplate(t)
  BY <1>5, <1>6, <1>8, <1>10 DEF IsTemplate
<1> QED BY <1>9, <1>11

\* The report engine reads from a document what the builder reads from it.
LEMMA DocumentIsReadTheSame ==
  ASSUME NEW doc, IsDocument(doc)
  PROVE  ReadRdl(doc) = ParseRdl(doc)
<1>1. IsSeq(doc.body) /\ \A r \in Range(doc.body) : IsRectangle(r)
  BY DEF IsDocument
<1>2. \A i \in DOMAIN doc.body : IsRectangle(doc.body[i])
  BY <1>1, SeqIsFunction
<1>3. \A i \in DOMAIN doc.body : /\ doc.body[i].marker \in BandKinds
                                 /\ ReadBand(doc.body[i]) = ParsedBand(doc.body[i])
  BY <1>2, RectangleIsRead DEF IsRectangle
<1>4. {i \in DOMAIN doc.body : doc.body[i].marker \in BandKinds} = DOMAIN doc.body
  BY <1>3
<1>5. Kept(doc.body, DOMAIN doc.body) = doc.body
  BY <1>1, KeptAll
<1>6. ReadBands(doc) = [i \in DOMAIN doc.body |-> ReadBand(doc.body[i])]
  BY <1>4, <1>5 DEF ReadBands
<1>7. ReadBands(doc) = [i \in DOMAIN doc.body |-> ParsedBand(doc.body[i])]
  BY <1>3, <1>6
<1>8. ReadPageNumbers(doc) = ParsedPageNumbers(doc)
  BY DEF ReadPageNumbers, ParsedPageNumbers
<1> QED BY <1>7, <1>8 DEF ReadRdl, ParseRdl

-----------------------------------------------------------------------------
(***************************************************************************)
(* The edits keep the template a template.                                 *)
(***************************************************************************)

\* The template, what is stored and what was saved are of the model, and what is
\* stored is written from what was saved.
DesignInv ==
  /\ IsTemplate(template)
  /\ stored # None => IsDocument(stored)
  /\ saved # None => IsTemplate(saved) /\ stored = ToRdl(saved)

\* What the panels change of an element.
IsPatch(patch) ==
  /\ DOMAIN patch \subseteq {"text", "expression", "style"}
  /\ "style" \in DOMAIN patch => IsStyle(patch["style"])

PatchedElement(e, patch) == [p \in DOMAIN e |-> IF p \in DOMAIN patch THEN patch[p] ELSE e[p]]
PatchedBand(b, id, patch) ==
  [b EXCEPT !.elements =
     [i \in DOMAIN b.elements |->
        IF b.elements[i].id = id THEN PatchedElement(b.elements[i], patch) ELSE b.elements[i]]]

\* A patched element is an element.
LEMMA PatchKeepsElement ==
  ASSUME NEW e, IsElement(e), NEW patch, IsPatch(patch)
  PROVE  IsElement(PatchedElement(e, patch))
<1> DEFINE Props == {"id", "type", "rect", "text", "expression", "style"}
<1>1. /\ e = [id |-> e.id, type |-> e.type, rect |-> e.rect, text |-> e.text,
              expression |-> e.expression, style |-> e.style]
      /\ e.type \in ElementTypes /\ IsStyle(e.style)
  BY DEF IsElement
<1>2. DOMAIN e = Props
  BY <1>1
<1>3. PICK x : x = PatchedElement(e, patch)
  OBVIOUS
<1>4. x = [p \in Props |-> IF p \in DOMAIN patch THEN patch[p] ELSE e[p]]
  BY <1>2, <1>3 DEF PatchedElement
<1>5. x.type = e.type
  BY <1>4 DEF IsPatch
<1>6. IsStyle(x.style)
  BY <1>1, <1>4 DEF IsPatch
<1>7. x = [id |-> x.id, type |-> x.type, rect |-> x.rect, text |-> x.text,
           expression |-> x.expression, style |-> x.style]
  BY <1>4
<1> QED BY <1>1, <1>3, <1>5, <1>6, <1>7 DEF IsElement

\* A band with other elements is a band.
LEMMA OtherElements ==
  ASSUME NEW b, IsBand(b), NEW s, IsSeq(s), \A e \in Range(s) : IsElement(e)
  PROVE  IsBand([b EXCEPT !.elements = s])
<1>1. /\ b = [kind |-> b.kind, height |-> b.height, elements |-> b.elements]
      /\ b.kind \in BandKinds /\ b.height \in Int
  BY DEF IsBand
<1>2. PICK x : x = [kind |-> b.kind, height |-> b.height, elements |-> s]
  OBVIOUS
<1>3. IsBand(x)
  BY <1>1, <1>2 DEF IsBand
<1>4. [b EXCEPT !.elements = s] = x
  BY <1>1, <1>2
<1> QED BY <1>3, <1>4

\* A patched band is a band.
LEMMA PatchKeepsBand ==
  ASSUME NEW b, IsBand(b), NEW id, NEW patch, IsPatch(patch)
  PROVE  IsBand(PatchedBand(b, id, patch))
<1> DEFINE f == [i \in DOMAIN b.elements |->
                   IF b.elements[i].id = id THEN PatchedElement(b.elements[i], patch) ELSE b.elements[i]]
           N == Len(b.elements)
<1>1. IsSeq(b.elements) /\ \A e \in Range(b.elements) : IsElement(e)
  BY DEF IsBand
<1>2. N \in Nat /\ DOMAIN b.elements = 1 .. N /\ \A i \in 1 .. N : IsElement(b.elements[i])
  BY <1>1, SeqIsFunction
<1>3. PICK s : s = f
  OBVIOUS
<1>4. DOMAIN s = 1 .. N /\ s = [i \in 1 .. N |-> s[i]]
  BY <1>2, <1>3
<1>5. \A i \in 1 .. N : IsElement(s[i])
  BY <1>2, <1>3, PatchKeepsElement
<1>6. PatchedBand(b, id, patch) = [b EXCEPT !.elements = s]
  BY <1>3 DEF PatchedBand
<1> HIDE DEF f, N
<1>7. IsSeq(s)
  BY <1>2, <1>4, FunctionIsSeq
<1>8. \A e \in Range(s) : IsElement(e)
  <2> SUFFICES ASSUME NEW e \in Range(s) PROVE IsElement(e)
    OBVIOUS
  <2>1. PICK i \in DOMAIN s : s[i] = e
    BY <1>7, SeqIsFunction
  <2> QED BY <1>4, <1>5, <2>1
<1>9. IsBand([b EXCEPT !.elements = s])
  BY <1>7, <1>8, OtherElements
<1> QED BY <1>6, <1>9

\* A template with other bands is a template.
LEMMA OtherBands ==
  ASSUME NEW t, IsTemplate(t), NEW s, IsSeq(s), \A b \in Range(s) : IsBand(b)
  PROVE  IsTemplate([t EXCEPT !.bands = s])
<1>1. /\ t = [name |-> t.name, settings |-> t.settings, page |-> t.page, bands |-> t.bands,
              pageNumbers |-> t.pageNumbers]
      /\ t.pageNumbers \in PageNumberOptions
  BY DEF IsTemplate
<1>2. PICK x : x = [name |-> t.name, settings |-> t.settings, page |-> t.page, bands |-> s,
                    pageNumbers |-> t.pageNumbers]
  OBVIOUS
<1>3. IsTemplate(x)
  BY <1>1, <1>2 DEF IsTemplate
<1>4. [t EXCEPT !.bands = s] = x
  BY <1>1, <1>2
<1> QED BY <1>3, <1>4

\* A template with another page is a template.
LEMMA OtherPage ==
  ASSUME NEW t, IsTemplate(t), NEW page
  PROVE  IsTemplate([t EXCEPT !.page = page])
<1>1. /\ t = [name |-> t.name, settings |-> t.settings, page |-> t.page, bands |-> t.bands,
              pageNumbers |-> t.pageNumbers]
      /\ IsSeq(t.bands) /\ (\A b \in Range(t.bands) : IsBand(b))
      /\ t.pageNumbers \in PageNumberOptions
  BY DEF IsTemplate
<1>2. PICK x : x = [name |-> t.name, settings |-> t.settings, page |-> page, bands |-> t.bands,
                    pageNumbers |-> t.pageNumbers]
  OBVIOUS
<1>3. IsTemplate(x)
  BY <1>1, <1>2 DEF IsTemplate
<1>4. [t EXCEPT !.page = page] = x
  BY <1>1, <1>2
<1> QED BY <1>3, <1>4

\* A template with other page numbers is a template.
LEMMA OtherPageNumbers ==
  ASSUME NEW t, IsTemplate(t), NEW o \in PageNumberOptions
  PROVE  IsTemplate([t EXCEPT !.pageNumbers = o])
<1>1. /\ t = [name |-> t.name, settings |-> t.settings, page |-> t.page, bands |-> t.bands,
              pageNumbers |-> t.pageNumbers]
      /\ IsSeq(t.bands) /\ (\A b \in Range(t.bands) : IsBand(b))
  BY DEF IsTemplate
<1>2. PICK x : x = [name |-> t.name, settings |-> t.settings, page |-> t.page, bands |-> t.bands,
                    pageNumbers |-> o]
  OBVIOUS
<1>3. IsTemplate(x)
  BY <1>1, <1>2 DEF IsTemplate
<1>4. [t EXCEPT !.pageNumbers = o] = x
  BY <1>1, <1>2
<1> QED BY <1>3, <1>4

\* The bands of a template, and the elements of it.
LEMMA BandsOfTemplates ==
  ASSUME NEW t, IsTemplate(t)
  PROVE  /\ IsSeq(t.bands) /\ Len(t.bands) \in Nat /\ DOMAIN t.bands = 1 .. Len(t.bands)
         /\ t.bands = [b \in 1 .. Len(t.bands) |-> t.bands[b]]
         /\ \A b \in DOMAIN t.bands : IsBand(t.bands[b])
         /\ \A e \in ElementsOf(t) : IsElement(e)
<1>1. IsSeq(t.bands) /\ \A b \in Range(t.bands) : IsBand(b)
  BY DEF IsTemplate
<1>2. \A b \in DOMAIN t.bands : IsBand(t.bands[b])
  BY <1>1, SeqIsFunction
<1>3. \A e \in ElementsOf(t) : IsElement(e)
  BY <1>2 DEF ElementsOf, IsBand
<1> QED BY <1>1, <1>2, <1>3, SeqIsFunction

\* An edit keeps the template a template.
LEMMA EditKeepsInv ==
  ASSUME DesignInv, NEW id, NEW patch, IsPatch(patch), Edit(id, patch)
  PROVE  DesignInv'
<1>1. PICK t : t = template
  OBVIOUS
<1> DEFINE f == [b \in DOMAIN t.bands |-> PatchedBand(t.bands[b], id, patch)]
           N == Len(t.bands)
<1>2. IsTemplate(t)
  BY <1>1 DEF DesignInv
<1>3. N \in Nat /\ DOMAIN t.bands = 1 .. N /\ \A b \in 1 .. N : IsBand(t.bands[b])
  BY <1>2, BandsOfTemplates
<1>4. template' = [t EXCEPT !.bands = f] /\ UNCHANGED <<stored, saved>>
  BY <1>1 DEF Edit, Commit, PatchedBand, PatchedElement
<1>5. \A b \in 1 .. N : IsBand(PatchedBand(t.bands[b], id, patch))
  BY <1>3, PatchKeepsBand
<1>6. PICK s : s = f
  OBVIOUS
<1>7. DOMAIN s = 1 .. N /\ s = [b \in 1 .. N |-> s[b]] /\ \A b \in 1 .. N : IsBand(s[b])
  BY <1>3, <1>5, <1>6
<1> HIDE DEF f, N
<1>8. IsSeq(s)
  BY <1>3, <1>7, FunctionIsSeq
<1>9. \A b \in Range(s) : IsBand(b)
  <2> SUFFICES ASSUME NEW b \in Range(s) PROVE IsBand(b)
    OBVIOUS
  <2>1. PICK i \in DOMAIN s : s[i] = b
    BY <1>8, SeqIsFunction
  <2> QED BY <1>7, <2>1
<1>10. IsTemplate([t EXCEPT !.bands = s])
  BY <1>2, <1>8, <1>9, OtherBands
<1>11. IsTemplate(template')
  BY <1>4, <1>6, <1>10
<1>12. IsTemplate(template)'
  BY <1>11
<1> QED BY <1>4, <1>12 DEF DesignInv

-----------------------------------------------------------------------------
(***************************************************************************)
(* The steps.                                                              *)
(***************************************************************************)

\* The style without a property, and with a value for it.
StyleWithout(s, property) == [p \in DOMAIN s \ {property} |-> s[p]]
StyleWith(s, property, value) ==
  [p \in (DOMAIN s \ {property}) \cup {property} |->
     IF p = property THEN value ELSE StyleWithout(s, property)[p]]

\* A style in which a property is set or taken away is a style.
LEMMA StyleEdits ==
  ASSUME NEW s, IsStyle(s), NEW property, NEW value
  PROVE  /\ IsStyle(StyleWithout(s, property))
         /\ /\ property = "fontWeight" => value \in DOMAIN FontWeightRdl
            /\ property = "align" => value \in DOMAIN AlignRdl
            => IsStyle(StyleWith(s, property, value))
<1>1. PICK o : o = StyleWithout(s, property)
  OBVIOUS
<1>2. IsStyle(o)
  BY <1>1 DEF IsStyle, StyleWithout
<1>3. PICK n : n = StyleWith(s, property, value)
  OBVIOUS
<1>4. /\ DOMAIN n = (DOMAIN s \ {property}) \cup {property}
      /\ \A p \in DOMAIN n : n[p] = IF p = property THEN value ELSE o[p]
      /\ n = [p \in DOMAIN n |-> n[p]]
  BY <1>1, <1>3 DEF StyleWith
<1>5. DOMAIN o = DOMAIN s \ {property} /\ \A p \in DOMAIN o : o[p] = s[p]
  BY <1>1 DEF StyleWithout
<1>6. ASSUME property = "fontWeight" => value \in DOMAIN FontWeightRdl,
             property = "align" => value \in DOMAIN AlignRdl
      PROVE  IsStyle(n)
  <2>1. "fontWeight" \in DOMAIN n => n["fontWeight"] \in DOMAIN FontWeightRdl
    BY <1>2, <1>4, <1>5, <1>6 DEF IsStyle
  <2>2. "align" \in DOMAIN n => n["align"] \in DOMAIN AlignRdl
    BY <1>2, <1>4, <1>5, <1>6 DEF IsStyle
  <2> QED BY <1>4, <2>1, <2>2 DEF IsStyle
<1> QED BY <1>1, <1>2, <1>3, <1>6

\* A change of the style keeps the invariant.
LEMMA EditStyleKeepsInv ==
  ASSUME DesignInv, NEW e, IsElement(e), NEW property, NEW value,
         value # None => /\ property = "fontWeight" => value \in DOMAIN FontWeightRdl
                         /\ property = "align" => value \in DOMAIN AlignRdl,
         EditStyle(e, property, value)
  PROVE  DesignInv'
<1>1. PICK n : n = IF value = None THEN StyleWithout(e.style, property) ELSE StyleWith(e.style, property, value)
  OBVIOUS
<1>2. IsStyle(e.style)
  BY DEF IsElement
<1>3. IsStyle(n)
  <2>1. CASE value = None
    BY <1>1, <1>2, <2>1, StyleEdits
  <2>2. CASE value # None
    BY <1>1, <1>2, <2>2, StyleEdits
  <2> QED BY <2>1, <2>2
<1>4. PICK patch : patch = [style |-> n]
  OBVIOUS
<1>5. DOMAIN [p \in DOMAIN e.style \ {property} |-> e.style[p]] = DOMAIN e.style \ {property}
  OBVIOUS
<1>6. Edit(e.id, patch)
  BY <1>1, <1>4, <1>5 DEF EditStyle, StyleWith, StyleWithout
<1>7. IsPatch(patch)
  BY <1>3, <1>4 DEF IsPatch
<1> QED BY <1>6, <1>7, EditKeepsInv

\* What the properties panel does keeps the invariant.
LEMMA PropertiesKeepInv ==
  ASSUME DesignInv, NEW e \in ElementsOf(template), Properties(e)
  PROVE  DesignInv'
<1>1. IsElement(e)
  BY BandsOfTemplates DEF DesignInv
<1>2. ASSUME NEW text \in Texts, EditText(e, text) PROVE DesignInv'
  <2>1. PICK patch : patch = [text |-> text]
    OBVIOUS
  <2>2. IsPatch(patch)
    BY <2>1 DEF IsPatch
  <2> QED BY <1>2, <2>1, <2>2, EditKeepsInv DEF EditText
<1>3. ASSUME NEW p \in {"italic", "underline"}, Toggle(e, p) PROVE DesignInv'
  <2>1. PICK v : v = IF IsSet(e, p) THEN None ELSE TRUE
    OBVIOUS
  <2>2. EditStyle(e, p, v) /\ p # "fontWeight" /\ p # "align"
    BY <1>3, <2>1 DEF Toggle
  <2> QED BY <1>1, <2>2, EditStyleKeepsInv
<1>4. ASSUME ToggleBold(e) PROVE DesignInv'
  <2>1. PICK v : v = IF IsSet(e, "fontWeight") /\ e.style["fontWeight"] = "bold" THEN "normal" ELSE "bold"
    OBVIOUS
  <2>2. EditStyle(e, "fontWeight", v) /\ v \in DOMAIN FontWeightRdl
    BY <1>4, <2>1 DEF ToggleBold, FontWeightRdl
  <2> QED BY <1>1, <2>2, EditStyleKeepsInv
<1>5. ASSUME Restyle(e) PROVE DesignInv'
  <2>1. ASSUME EditStyle(e, "fontWeight", "semibold") PROVE DesignInv'
    <3>1. "semibold" \in DOMAIN FontWeightRdl
      BY DEF FontWeightRdl
    <3> QED BY <1>1, <2>1, <3>1, EditStyleKeepsInv
  <2>2. ASSUME NEW align \in {"left", "right"}, EditStyle(e, "align", align) PROVE DesignInv'
    <3>1. align \in DOMAIN AlignRdl
      BY DEF AlignRdl
    <3> QED BY <1>1, <2>2, <3>1, EditStyleKeepsInv
  <2>3. ASSUME NEW size \in FontSizes, EditStyle(e, "fontSize", size) PROVE DesignInv'
    BY <1>1, <2>3, EditStyleKeepsInv
  <2> QED BY <1>5, <2>1, <2>2, <2>3 DEF Restyle
<1> QED BY <1>2, <1>3, <1>4, <1>5 DEF Properties

\* A change of the binding keeps the invariant.
LEMMA BindingKeepsInv ==
  ASSUME DesignInv, NEW e, Binding(e)
  PROVE  DesignInv'
<1>1. PICK x : SetExpression(e, x)
  BY DEF Binding, SelectField, TypeExpression, InsertField
<1>2. PICK patch : patch = [expression |-> x, text |-> Verbatim]
  OBVIOUS
<1>3. IsPatch(patch)
  BY <1>2 DEF IsPatch
<1> QED BY <1>1, <1>2, <1>3, EditKeepsInv DEF SetExpression

\* A template that is committed is all that changes.
LEMMA CommitKeepsInv ==
  ASSUME DesignInv, NEW t, IsTemplate(t), Commit(t)
  PROVE  DesignInv'
<1>1. template' = t /\ UNCHANGED <<stored, saved>>
  BY DEF Commit
<1>2. IsTemplate(template)'
  BY <1>1
<1> QED BY <1>1, <1>2 DEF DesignInv

\* The page and its numbers.
LEMMA PageSetupKeepsInv ==
  ASSUME DesignInv, PageSetup
  PROVE  DesignInv'
<1>1. IsTemplate(template)
  BY DEF DesignInv
<1>2. ASSUME NEW page, Commit([template EXCEPT !.page = page]) PROVE DesignInv'
  BY <1>1, <1>2, OtherPage, CommitKeepsInv
<1>3. ASSUME NEW o \in PageNumberOptions, Commit([template EXCEPT !.pageNumbers = o]) PROVE DesignInv'
  BY <1>1, <1>3, OtherPageNumbers, CommitKeepsInv
<1>4. ASSUME ChangeSize PROVE DesignInv'
  BY <1>2, <1>4 DEF ChangeSize
<1>5. ASSUME ChangeOrientation PROVE DesignInv'
  BY <1>2, <1>5 DEF ChangeOrientation
<1>6. ASSUME ChangeMargin PROVE DesignInv'
  <2>1. PICK side \in DOMAIN template.page.margins, v \in Margins :
          Commit([template EXCEPT !.page.margins[side] = v])
    BY <1>6 DEF ChangeMargin
  <2>2. Commit([template EXCEPT !.page = [template.page EXCEPT !.margins[side] = v]])
    BY <2>1
  <2> QED BY <1>2, <2>2
<1>7. ASSUME ChangePageNumbers PROVE DesignInv'
  <2>1. PICK o : o = template.pageNumbers
    OBVIOUS
  <2>2. o \in PageNumberOptions
    BY <1>1, <2>1 DEF IsTemplate
  <2>3. ASSUME Commit([template EXCEPT !.pageNumbers.show = ~@]) PROVE DesignInv'
    <3>1. Commit([template EXCEPT !.pageNumbers = [o EXCEPT !.show = ~o.show]])
      BY <2>1, <2>3
    <3>2. [o EXCEPT !.show = ~o.show] \in PageNumberOptions
      BY <2>2 DEF PageNumberOptions
    <3> QED BY <1>3, <3>1, <3>2
  <2>4. ASSUME NEW n \in {0, 3}, Commit([template EXCEPT !.pageNumbers.startAt = n]) PROVE DesignInv'
    <3>1. Commit([template EXCEPT !.pageNumbers = [o EXCEPT !.startAt = n]])
      BY <2>1, <2>4
    <3>2. [o EXCEPT !.startAt = n] \in PageNumberOptions
      BY <2>2 DEF PageNumberOptions
    <3> QED BY <1>3, <3>1, <3>2
  <2>5. ASSUME NEW f \in {<<>>, <<"n">>, <<"N", "n">>}, Commit([template EXCEPT !.pageNumbers.format = f])
        PROVE  DesignInv'
    <3>1. Commit([template EXCEPT !.pageNumbers = [o EXCEPT !.format = f]])
      BY <2>1, <2>5
    <3>2. <<>> \in Seq({"n", "N"}) /\ <<"n">> \in Seq({"n", "N"}) /\ <<"N", "n">> \in Seq({"n", "N"})
      OBVIOUS
    <3>3. [o EXCEPT !.format = f] \in PageNumberOptions
      BY <2>2, <2>5, <3>2 DEF PageNumberOptions
    <3> QED BY <1>3, <3>1, <3>3
  <2> QED BY <1>7, <2>3, <2>4, <2>5 DEF ChangePageNumbers
<1> QED BY <1>4, <1>5, <1>6, <1>7 DEF PageSetup

\* A sequence with one more item.
LEMMA OneMore ==
  ASSUME NEW s, IsSeq(s), NEW x
  PROVE  IsSeq(Append(s, x)) /\ \A y \in Range(Append(s, x)) : y \in Range(s) \/ y = x
<1> DEFINE T == Range(s) \cup {x}
<1>1. s \in Seq(T) /\ x \in T
  <2>1. Len(s) \in Nat /\ s \in [1 .. Len(s) -> T]
    BY SeqIsFunction
  <2> QED BY <2>1, IsASeq
<1>2. PICK a : a = Append(s, x)
  OBVIOUS
<1>3. a \in Seq(T)
  BY <1>1, <1>2
<1>4. Len(a) \in Nat /\ DOMAIN a = 1 .. Len(a) /\ a \in [1 .. Len(a) -> T]
  BY <1>3, LenProperties
<1>5. a = [i \in 1 .. Len(a) |-> a[i]]
  BY <1>4
<1>6. IsSeq(a)
  BY <1>4, <1>5, FunctionIsSeq
<1>7. \A y \in Range(a) : y \in T
  BY <1>4 DEF Range
<1> QED BY <1>2, <1>6, <1>7

\* A page break is dropped.
LEMMA InsertBreakKeepsInv ==
  ASSUME DesignInv, InsertBreak
  PROVE  DesignInv'
<1>1. PICK t : t = template
  OBVIOUS
<1>2. PICK b \in DOMAIN t.bands :
        Commit([template EXCEPT !.bands[b].elements = Append(@, Break(Cardinality(ElementsOf(template)) + 1))])
  BY <1>1 DEF InsertBreak
<1>3. PICK x : x = Break(Cardinality(ElementsOf(template)) + 1)
  OBVIOUS
<1>4. PICK old : old = t.bands[b].elements
  OBVIOUS
<1>5. PICK s : s = Append(old, x)
  OBVIOUS
<1>6. IsElement(x)
  BY <1>3 DEF Break, IsElement, ElementTypes, IsStyle
<1>7. IsTemplate(t)
  BY <1>1 DEF DesignInv
<1>8. IsBand(t.bands[b])
  BY <1>7, BandsOfTemplates
<1>9. IsSeq(old) /\ \A e \in Range(old) : IsElement(e)
  BY <1>4, <1>8 DEF IsBand
<1>10. IsSeq(s) /\ \A e \in Range(s) : IsElement(e)
  BY <1>5, <1>6, <1>9, OneMore
<1>11. PICK nb : nb = [t.bands[b] EXCEPT !.elements = s]
  OBVIOUS
<1>12. IsBand(nb)
  BY <1>8, <1>10, <1>11, OtherElements
<1>13. PICK bs : bs = [t.bands EXCEPT ![b] = nb]
  OBVIOUS
<1>14. Len(t.bands) \in Nat /\ DOMAIN t.bands = 1 .. Len(t.bands) /\ \A i \in DOMAIN t.bands : IsBand(t.bands[i])
  BY <1>7, BandsOfTemplates
<1>15. /\ DOMAIN bs = 1 .. Len(t.bands) /\ bs = [i \in 1 .. Len(t.bands) |-> bs[i]]
       /\ \A i \in 1 .. Len(t.bands) : IsBand(bs[i])
  BY <1>12, <1>13, <1>14
<1>16. IsSeq(bs)
  BY <1>14, <1>15, FunctionIsSeq
<1>17. \A y \in Range(bs) : IsBand(y)
  <2> SUFFICES ASSUME NEW y \in Range(bs) PROVE IsBand(y)
    OBVIOUS
  <2>1. PICK i \in DOMAIN bs : bs[i] = y
    BY <1>16, SeqIsFunction
  <2> QED BY <1>15, <2>1
<1>18. IsTemplate([t EXCEPT !.bands = bs])
  BY <1>7, <1>16, <1>17, OtherBands
<1>19. Commit([t EXCEPT !.bands = bs])
  BY <1>1, <1>2, <1>3, <1>4, <1>5, <1>11, <1>13
<1> QED BY <1>18, <1>19, CommitKeepsInv

\* The template is saved.
LEMMA SaveKeepsDesign ==
  ASSUME DesignInv, SaveTemplate
  PROVE  DesignInv'
<1>1. IsTemplate(template) /\ stored' = ToRdl(template) /\ saved' = template /\ template' = template
  BY DEF DesignInv, SaveTemplate
<1>2. PICK t : t = template
  OBVIOUS
<1>3. IsTemplate(t) /\ stored' = ToRdl(t) /\ saved' = t /\ template' = t
  BY <1>1, <1>2
<1>4. PICK doc : doc = ToRdl(t)
  OBVIOUS
<1>5. IsDocument(doc)
  BY <1>3, <1>4, TemplateRoundTrip
<1>6. IsDocument(stored)'
  BY <1>3, <1>4, <1>5
<1>7. (stored = ToRdl(saved))'
  BY <1>3
<1>8. IsTemplate(template)' /\ IsTemplate(saved)'
  BY <1>3
<1> QED BY <1>6, <1>7, <1>8 DEF DesignInv

\* The template is loaded.
LEMMA LoadKeepsDesign ==
  ASSUME DesignInv, LoadTemplate
  PROVE  DesignInv'
<1>1. IsDocument(stored) /\ template' = ParseRdl(stored) /\ UNCHANGED <<stored, saved>>
  BY DEF DesignInv, LoadTemplate
<1>2. PICK t : t = ParseRdl(stored)
  OBVIOUS
<1>3. IsTemplate(t)
  BY <1>1, <1>2, DocumentIsRead
<1>4. IsTemplate(template)'
  BY <1>1, <1>2, <1>3
<1> QED BY <1>1, <1>4 DEF DesignInv

\* The design starts with the invariant, and every step keeps it.
LEMMA DesignStaysInv ==
  /\ DesignInit => DesignInv
  /\ DesignInv /\ [DesignNext]_design => DesignInv'
<1>1. DesignInit => DesignInv
  BY DesignAssumption DEF DesignInit, DesignInv
<1>2. ASSUME DesignInv, DesignNext PROVE DesignInv'
  <2>1. ASSUME NEW e \in ElementsOf(template), Properties(e) PROVE DesignInv'
    BY <1>2, <2>1, PropertiesKeepInv
  <2>2. ASSUME NEW e \in ElementsOf(template), Binding(e) PROVE DesignInv'
    BY <1>2, <2>2, BindingKeepsInv
  <2> QED BY <1>2, <2>1, <2>2, PageSetupKeepsInv, InsertBreakKeepsInv, SaveKeepsDesign,
             LoadKeepsDesign DEF DesignNext
<1>3. ASSUME DesignInv, UNCHANGED design PROVE DesignInv'
  BY <1>3 DEF DesignInv, design
<1> QED BY <1>1, <1>2, <1>3

\* In every reachable state the template is a template and what is stored is a
\* document, that of the template that was saved last: every panel leaves the template
\* in a form toRdl can write.
THEOREM DesignInvHolds == DesignSpec => []DesignInv
<1> QED BY DesignStaysInv, PTL DEF DesignSpec

\* What is saved and loaded again is the template that was saved: whatever was edited
\* before, parseRdl undoes toRdl.
THEOREM LoadedIsSavedHolds == DesignSpec => []LoadedIsSaved
<1>1. DesignInv => LoadedIsSaved
  BY TemplateRoundTrip DEF DesignInv, LoadedIsSaved
<1> QED BY <1>1, DesignInvHolds, PTL

\* The report engine reads from every document of the store what the builder reads
\* from it.
THEOREM EngineReadsTheSameHolds == DesignSpec => []EngineReadsTheSame
<1>1. DesignInv => EngineReadsTheSame
  BY DocumentIsReadTheSame DEF DesignInv, EngineReadsTheSame
<1> QED BY <1>1, DesignInvHolds, PTL

-----------------------------------------------------------------------------
(***************************************************************************)
(* The bindings: the validator and the evaluators agree.                   *)
(***************************************************************************)

\* A context with the scopes of the sample and some of its rows, at least one.
IsContext(ctx) ==
  /\ ctx = [scopes |-> ctx.scopes, detail |-> ctx.detail, page |-> ctx.page]
  /\ ctx.scopes = Context.scopes /\ ctx.page \in [number : Nat, total : Nat]
  /\ IsSeq(ctx.detail) /\ Len(ctx.detail) > 0
  /\ \A row \in Range(ctx.detail) : row \in Range(Context.detail)

\* The sample is one.
LEMMA SampleIsContext ==
  IsContext(Context)
<1>1. IsSeq(Context.detail) /\ Context.detail # <<>>
  BY SampleAssumption
<1>2. PICK s : s = Context.detail
  OBVIOUS
<1>3. Len(s) \in Nat /\ s = [i \in 1 .. Len(s) |-> s[i]] /\ s \in Seq(Range(s))
  BY <1>1, <1>2, SeqIsFunction DEF IsSeq
<1>4. Len(s) > 0
  BY <1>1, <1>2, <1>3
<1> QED BY <1>1, <1>2, <1>4, SampleAssumption DEF IsContext

\* So is each row of it by itself.
LEMMA RowIsContext ==
  ASSUME NEW ctx, IsContext(ctx), NEW row \in DOMAIN ctx.detail
  PROVE  /\ IsContext(RowContext(ctx, row))
         /\ RowContext(ctx, row) =
              [scopes |-> ctx.scopes, detail |-> <<ctx.detail[row]>>, page |-> ctx.page]
<1>1. PICK r : r = ctx.detail[row]
  OBVIOUS
<1>2. r \in Range(Context.detail)
  BY <1>1, SeqIsFunction DEF IsContext
<1>3. RowContext(ctx, row) = [scopes |-> ctx.scopes, detail |-> <<r>>, page |-> ctx.page]
  BY <1>1 DEF RowContext, IsContext
<1>4. PICK one : one = [i \in 1 .. 1 |-> r]
  OBVIOUS
<1>5. IsSeq(one) /\ Len(one) = 1
  BY <1>4, FunctionIsSeq
<1>6. one = <<r>>
  BY <1>4, <1>5
<1>7. \A x \in Range(one) : x = r
  BY <1>4 DEF Range
<1>8. PICK c : c = [scopes |-> ctx.scopes, detail |-> one, page |-> ctx.page]
  OBVIOUS
<1>9. IsContext(c)
  <2>1. c.scopes = Context.scopes /\ c.page \in [number : Nat, total : Nat] /\ c.detail = one
    BY <1>8 DEF IsContext
  <2>2. c = [scopes |-> c.scopes, detail |-> c.detail, page |-> c.page]
    BY <1>8
  <2>3. Len(c.detail) > 0
    <3>1. c.detail = one
      BY <2>1
    <3>2. Len(c.detail) = 1
      BY <1>5, <3>1, Zenon
    <3> QED BY <3>2
  <2> QED BY <1>2, <1>5, <1>7, <2>1, <2>2, <2>3 DEF IsContext
<1> QED BY <1>1, <1>3, <1>6, <1>8, <1>9

\* All the contexts an expression is evaluated in.
LEMMA ContextsOfTheSample ==
  ASSUME NEW ctx \in Contexts
  PROVE  IsContext(ctx)
<1>1. ctx = Context \/ \E row \in DOMAIN Context.detail : ctx = RowContext(Context, row)
  BY DEF Contexts
<1> QED BY <1>1, SampleIsContext, RowIsContext

\* A context has rows, and their columns are those of the sample.
LEMMA ColumnsOfContexts ==
  ASSUME NEW ctx, IsContext(ctx)
  PROVE  /\ Len(ctx.detail) \in Nat \ {0} /\ ctx.detail # <<>> /\ DOMAIN ctx.detail = 1 .. Len(ctx.detail)
         /\ \A i \in DOMAIN ctx.detail : ctx.detail[i] \in Range(Context.detail) /\ DOMAIN ctx.detail[i] = Columns
<1>1. PICK s : s = ctx.detail
  OBVIOUS
<1>2. IsSeq(s) /\ Len(s) > 0 /\ \A row \in Range(s) : row \in Range(Context.detail)
  BY <1>1 DEF IsContext
<1>3. /\ Len(s) \in Nat /\ DOMAIN s = 1 .. Len(s)
      /\ \A i \in DOMAIN s : s[i] \in Range(Context.detail)
  BY <1>2, SeqIsFunction
<1>4. \A i \in DOMAIN s : DOMAIN s[i] = Columns
  BY <1>3, SampleAssumption
<1>5. s # <<>>
  BY <1>2, <1>3
<1> QED BY <1>1, <1>2, <1>3, <1>4, <1>5

\* What a piece becomes.
LEMMA SegmentKinds ==
  ASSUME NEW p, NEW s, s = Segment(p)
  PROVE  s.kind \in {"text", "n", "N", "field", "function", "invalid"}
<1> QED BY DEF Segment

\* The catalog and the data have the same fields.
LEMMA FieldsOfTheSample ==
  ASSUME NEW path
  PROVE  /\ {f \in Catalog : f.path = path} # {} <=> path \in DOMAIN Context.scopes \cup Columns
         /\ path \in Columns => path[1] = DetailScope
         /\ path \in DOMAIN Context.scopes => path[1] # DetailScope
         /\ \A f \in Catalog : f.path = path => (~ f.isDetail <=> path[1] # DetailScope)
<1>1. path \in {f.path : f \in Catalog} <=> path \in DOMAIN Context.scopes \cup Columns
  BY SampleAssumption
<1>2. path \in {f.path : f \in Catalog} <=> \E f \in Catalog : f.path = path
  OBVIOUS
<1>3. /\ path \in Columns => path[1] = DetailScope
      /\ path \in DOMAIN Context.scopes => path[1] # DetailScope
  BY SampleAssumption
<1>4. \A f \in Catalog : f.path = path => (~ f.isDetail <=> path[1] # DetailScope)
  BY SampleAssumption
<1> QED BY <1>1, <1>2, <1>3, <1>4

\* A field has a value exactly when the catalog has it.
LEMMA FieldIsPredicted ==
  ASSUME NEW ctx, IsContext(ctx), NEW path
  PROVE  ResolveField(path, ctx) # Failure <=> {f \in Catalog : f.path = path} # {}
<1>1. ctx.detail # <<>> /\ DOMAIN ctx.detail[1] = Columns /\ ctx.scopes = Context.scopes
  BY ColumnsOfContexts DEF IsContext
<1>2. \A v : <<v>> # <<>>
  OBVIOUS
<1>3. CASE path[1] = DetailScope
  <2>1. ResolveField(path, ctx) # Failure <=> path \in Columns
    BY <1>1, <1>2, <1>3 DEF ResolveField, Failure
  <2> QED BY <1>3, <2>1, FieldsOfTheSample
<1>4. CASE path[1] # DetailScope
  <2>1. ResolveField(path, ctx) # Failure <=> path \in DOMAIN Context.scopes
    BY <1>1, <1>2, <1>4 DEF ResolveField, Failure
  <2> QED BY <1>4, <2>1, FieldsOfTheSample
<1> QED BY <1>3, <1>4

\* A call has a value exactly when the function is known and the catalog has its
\* argument as a field of the rows.
LEMMA CallIsPredicted ==
  ASSUME NEW ctx, IsContext(ctx), NEW path, NEW name
  PROVE  LET fine == /\ name \in EXPRESSION_FUNCTIONS /\ {f \in Catalog : f.path = path} # {}
                     /\ ~ \E f \in {g \in Catalog : g.path = path} : ~ f.isDetail
         IN /\ ApplyFunction(name, path, ctx, Aggregate) # Failure <=> fine
            /\ ApplyFunction(name, path, ctx, EngineAggregate) # Failure <=> fine
<1> DEFINE applies == name \in EXPRESSION_FUNCTIONS /\ path[1] = DetailScope /\ path \in Columns
<1>1. ctx.detail # <<>> /\ DOMAIN ctx.detail[1] = Columns
  BY ColumnsOfContexts
<1>2. \A v : <<v>> # <<>>
  OBVIOUS
<1>3. ApplyFunction(name, path, ctx, Aggregate) # Failure <=> applies
  BY <1>1, <1>2 DEF ApplyFunction, Failure
<1>4. ApplyFunction(name, path, ctx, EngineAggregate) # Failure <=> applies
  BY <1>1, <1>2 DEF ApplyFunction, Failure
<1>5. applies <=> /\ name \in EXPRESSION_FUNCTIONS /\ {f \in Catalog : f.path = path} # {}
                  /\ ~ \E f \in {g \in Catalog : g.path = path} : ~ f.isDetail
  <2>1. (\E f \in {g \in Catalog : g.path = path} : ~ f.isDetail)
          <=> ({f \in Catalog : f.path = path} # {} /\ path[1] # DetailScope)
    BY FieldsOfTheSample
  <2> QED BY <2>1, FieldsOfTheSample
<1> QED BY <1>3, <1>4, <1>5

\* A piece of an expression has no problem exactly when both evaluators have a value
\* for it.
LEMMA PieceIsPredicted ==
  ASSUME NEW ctx, IsContext(ctx), NEW p, NEW s, s = Segment(p)
  PROVE  /\ Part(s, ctx, Aggregate) # Failure <=> Problem(s, Catalog) = None
         /\ Part(s, ctx, EngineAggregate) # Failure <=> Problem(s, Catalog) = None
<1> DEFINE known == {f \in Catalog : f.path = s.of}
<1>1. \A v : <<v>> # <<>>
  OBVIOUS
<1>2. /\ None # "Invalid field reference" /\ None # "Unknown field"
      /\ None # "Unknown function" /\ None # "requires a detail field"
  BY DesignAssumption
<1>3. s.kind \in {"text", "n", "N", "field", "function", "invalid"}
  BY SegmentKinds
<1>4. CASE s.kind \in {"text", "n", "N"}
  <2>1. Problem(s, Catalog) = None
    BY <1>4 DEF Problem
  <2>2. Part(s, ctx, Aggregate) # Failure /\ Part(s, ctx, EngineAggregate) # Failure
    BY <1>1, <1>4 DEF Part, Failure
  <2> QED BY <2>1, <2>2
<1>5. CASE s.kind = "field"
  <2>1. Problem(s, Catalog) = None <=> known # {}
    BY <1>2, <1>5 DEF Problem
  <2>2. Part(s, ctx, Aggregate) = ResolveField(s.of, ctx) /\ Part(s, ctx, EngineAggregate) = ResolveField(s.of, ctx)
    BY <1>5 DEF Part
  <2> QED BY <2>1, <2>2, FieldIsPredicted
<1>6. CASE s.kind = "function"
  <2> DEFINE fine == s.name \in EXPRESSION_FUNCTIONS /\ known # {} /\ ~ \E f \in known : ~ f.isDetail
  <2>1. Problem(s, Catalog) = None <=> fine
    BY <1>2, <1>6 DEF Problem
  <2>2. /\ Part(s, ctx, Aggregate) = ApplyFunction(s.name, s.of, ctx, Aggregate)
        /\ Part(s, ctx, EngineAggregate) = ApplyFunction(s.name, s.of, ctx, EngineAggregate)
    BY <1>6 DEF Part
  <2>3. /\ ApplyFunction(s.name, s.of, ctx, Aggregate) # Failure <=> fine
        /\ ApplyFunction(s.name, s.of, ctx, EngineAggregate) # Failure <=> fine
    BY CallIsPredicted
  <2> QED BY <2>1, <2>2, <2>3
<1>7. CASE s.kind = "invalid"
  BY <1>2, <1>7 DEF Problem, Part, Failure
<1> QED BY <1>3, <1>4, <1>5, <1>6, <1>7

\* An expression has no problem exactly when both evaluators have a value for it.
LEMMA ExpressionIsPredicted ==
  ASSUME NEW ctx, IsContext(ctx), NEW x
  PROVE  LET clean == ValidateExpression(x, Catalog) = {}
         IN /\ clean <=> EvaluateExpression(x, ctx).ok
            /\ clean <=> EngineEvaluate(x, ctx).ok
<1> DEFINE segment(i) == ParseExpression(x)[i]
<1>1. \A i \in DOMAIN x : segment(i) = Segment(x[i])
  BY DEF ParseExpression
<1>2. ValidateExpression(x, Catalog) = {} <=> \A i \in DOMAIN x : Problem(segment(i), Catalog) = None
  BY DEF ValidateExpression
<1>3. EvaluateExpression(x, ctx).ok <=> \A i \in DOMAIN x : Part(segment(i), ctx, Aggregate) # Failure
  BY DEF EvaluateExpression, Evaluation
<1>4. EngineEvaluate(x, ctx).ok <=> \A i \in DOMAIN x : Part(segment(i), ctx, EngineAggregate) # Failure
  BY DEF EngineEvaluate, Evaluation
<1> HIDE DEF segment
<1>5. \A i \in DOMAIN x : /\ Part(segment(i), ctx, Aggregate) # Failure <=> Problem(segment(i), Catalog) = None
                          /\ Part(segment(i), ctx, EngineAggregate) # Failure <=> Problem(segment(i), Catalog) = None
  BY <1>1, PieceIsPredicted
<1> QED BY <1>2, <1>3, <1>4, <1>5

\* The editor shows a problem of a binding exactly when the preview and the report fall
\* back to the display text, for every expression that can be typed: the validator
\* looks at the catalog, the evaluators at the data.
THEOREM ProblemsArePredictedHolds == DesignSpec => []ProblemsArePredicted
<1>1. ProblemsArePredicted
  BY ContextsOfTheSample, ExpressionIsPredicted DEF ProblemsArePredicted
<1> QED BY <1>1, PTL

-----------------------------------------------------------------------------
(***************************************************************************)
(* Running sums.                                                           *)
(***************************************************************************)

\* Induction over the natural numbers, for a set of them.
LEMMA InductionOnNat ==
  ASSUME NEW S, 0 \in S, \A n \in Nat : n \in S => n + 1 \in S
  PROVE  Nat \subseteq S
<1> SUFFICES ASSUME ~ (Nat \subseteq S) PROVE FALSE
  OBVIOUS
<1> DEFINE T == Nat \ S
           R == OpToRel(<, Nat)
<1>1. T \subseteq Nat /\ T # {}
  OBVIOUS
<1>2. IsWellFoundedOn(R, Nat)
  BY NatLessThanWellFounded
<1>3. \A y, x \in Nat : y < x => <<y, x>> \in R
  BY DEF OpToRel
<1> HIDE DEF T, R
<1>4. PICK x \in T : \A y \in T : ~(<<y, x>> \in R)
  BY <1>1, <1>2, WFMin
<1>5. x \in Nat /\ x \notin S
  BY <1>4 DEF T
<1>6. x # 0
  BY <1>5
<1>7. x - 1 \in Nat /\ x - 1 < x
  BY <1>5, <1>6
<1>8. x - 1 \notin T
  BY <1>3, <1>4, <1>5, <1>7
<1>9. x - 1 \in S
  BY <1>7, <1>8 DEF T
<1> QED BY <1>5, <1>7, <1>9

\* Two functions that start alike and go on alike are alike.
StartAndGoOnAlike(n, f, g) == f[0] = g[0] /\ \A k \in 1 .. n : f[k - 1] = g[k - 1] => f[k] = g[k]
LEMMA GoOnAlike ==
  ASSUME NEW n \in Nat, NEW f, NEW g, StartAndGoOnAlike(n, f, g)
  PROVE  \A k \in 0 .. n : f[k] = g[k]
<1> DEFINE S == {k \in Nat : k <= n => f[k] = g[k]}
<1>1. 0 \in S
  BY DEF StartAndGoOnAlike
<1>2. ASSUME NEW k \in Nat, k \in S PROVE k + 1 \in S
  <2> SUFFICES ASSUME k + 1 <= n PROVE f[k + 1] = g[k + 1]
    OBVIOUS
  <2>1. k + 1 \in 1 .. n /\ (k + 1) - 1 = k /\ f[k] = g[k]
    BY <1>2
  <2>2. f[(k + 1) - 1] = g[(k + 1) - 1] => f[k + 1] = g[k + 1]
    BY <2>1 DEF StartAndGoOnAlike
  <2> QED BY <2>1, <2>2
<1> HIDE DEF S
<1>3. Nat \subseteq S
  BY <1>1, <1>2, InductionOnNat
<1> QED BY <1>3 DEF S

\* There is a running sum, of integers or of natural numbers.
LEMMA RunningSum ==
  ASSUME NEW T \in {Int, Nat}, NEW n \in Nat, NEW w \in [1 .. n -> T]
  PROVE  \E f \in [0 .. n -> T] : f[0] = 0 /\ \A k \in 1 .. n : f[k] = f[k - 1] + w[k]
<1> DEFINE Sums(f, m) == f \in [0 .. m -> T] /\ f[0] = 0 /\ \A k \in 1 .. m : f[k] = f[k - 1] + w[k]
           S == {m \in Nat : m <= n => \E f : Sums(f, m)}
<1>1. 0 \in T /\ \A x, y \in T : x + y \in T
  OBVIOUS
<1>2. 0 \in S
  <2>1. PICK f : f = [k \in 0 .. 0 |-> 0]
    OBVIOUS
  <2>2. Sums(f, 0)
    BY <1>1, <2>1
  <2> HIDE DEF Sums
  <2> QED BY <2>2
<1> HIDE DEF Sums
<1>3. ASSUME NEW m \in Nat, m \in S PROVE m + 1 \in S
  <2> SUFFICES ASSUME m + 1 <= n PROVE \E f : Sums(f, m + 1)
    OBVIOUS
  <2>0. PICK f : Sums(f, m)
    BY <1>3
  <2>1. f \in [0 .. m -> T] /\ f[0] = 0 /\ \A k \in 1 .. m : f[k] = f[k - 1] + w[k]
    BY <2>0 DEF Sums
  <2>2. PICK g : g = [k \in 0 .. m + 1 |-> IF k = m + 1 THEN f[m] + w[m + 1] ELSE f[k]]
    OBVIOUS
  <2>3. f[m] \in T /\ w[m + 1] \in T
    BY <2>1
  <2>4. f[m] + w[m + 1] \in T
    BY <1>1, <2>3
  <2>5. g \in [0 .. m + 1 -> T]
    BY <2>1, <2>2, <2>4
  <2>6. g[0] = 0
    BY <2>1, <2>2
  <2>7. ASSUME NEW k \in 1 .. m + 1 PROVE g[k] = g[k - 1] + w[k]
    <3>1. CASE k = m + 1
      BY <2>2, <3>1
    <3>2. CASE k # m + 1
      <4>1. k \in 1 .. m /\ k - 1 \in 0 .. m + 1 /\ k - 1 # m + 1 /\ k \in 0 .. m + 1
        BY <2>7, <3>2
      <4>2. g[k] = f[k] /\ g[k - 1] = f[k - 1]
        BY <2>2, <3>2, <4>1
      <4> QED BY <2>1, <4>1, <4>2
    <3> QED BY <3>1, <3>2
  <2> QED BY <2>5, <2>6, <2>7 DEF Sums
<1> HIDE DEF S
<1>4. Nat \subseteq S
  BY <1>2, <1>3, InductionOnNat
<1>5. \E f : Sums(f, n)
  BY <1>4 DEF S
<1> QED BY <1>5 DEF Sums

\* The total of a column of natural numbers is one.
LEMMA TotalOfNaturals ==
  ASSUME NEW column, IsSeq(column), \A i \in DOMAIN column : column[i] \in Nat
  PROVE  Total(column) \in Nat
<1> DEFINE n == Len(column)
           IsSum(f) == f = [k \in 0 .. n |-> IF k = 0 THEN 0 ELSE f[k - 1] + column[k]]
<1>1. n \in Nat /\ DOMAIN column = 1 .. n /\ column = [i \in 1 .. n |-> column[i]]
  BY SeqIsFunction
<1>2. column \in [1 .. n -> Nat]
  BY <1>1
<1>3. Total(column) = (CHOOSE f : IsSum(f))[n]
  BY DEF Total
<1> HIDE DEF n
<1>4. PICK g \in [0 .. n -> Nat] : g[0] = 0 /\ \A k \in 1 .. n : g[k] = g[k - 1] + column[k]
  BY <1>1, <1>2, RunningSum
<1>5. \A k \in 0 .. n : g[k] = IF k = 0 THEN 0 ELSE g[k - 1] + column[k]
  BY <1>1, <1>4
<1>6. IsSum(g)
  BY <1>4, <1>5
<1> HIDE DEF IsSum
<1>7. PICK f : f = CHOOSE x : IsSum(x)
  OBVIOUS
<1>8. IsSum(f)
  BY <1>6, <1>7
<1>9. \A k \in 0 .. n : f[k] = IF k = 0 THEN 0 ELSE f[k - 1] + column[k]
  BY <1>8 DEF IsSum
<1>10. StartAndGoOnAlike(n, f, g)
  <2>1. n \in Nat /\ 0 \in 0 .. n
    BY <1>1
  <2>2. f[0] = g[0]
    BY ONLY <1>4, <1>9, <2>1
  <2>3. \A k \in 1 .. n : f[k] = f[k - 1] + column[k]
    BY ONLY <1>9, <2>1
  <2> QED BY <1>4, <2>2, <2>3 DEF StartAndGoOnAlike
<1>11. \A k \in 0 .. n : f[k] = g[k]
  BY <1>1, <1>10, GoOnAlike
<1>12. f[n] = g[n] /\ g[n] \in Nat
  BY <1>1, <1>4, <1>11
<1> QED BY <1>3, <1>7, <1>12

-----------------------------------------------------------------------------
(***************************************************************************)
(* The texts of the preview and of the report.                             *)
(***************************************************************************)

\* The mean is rounded the same, and the other aggregates agree, on a column of amounts
\* and on one of texts.
LEMMA AggregatesAgree ==
  ASSUME NEW column, IsSeq(column), Len(column) > 0, NEW name \in EXPRESSION_FUNCTIONS \ {"COUNT"},
         \/ \A i \in DOMAIN column : column[i] \in Nat
         \/ \A i \in DOMAIN column : column[i] = NaN
  PROVE  Aggregate(name, column) = EngineAggregate(name, column)
<1>1. Len(column) \in Nat /\ DOMAIN column = 1 .. Len(column)
  BY SeqIsFunction
<1>2. column # <<>>
  BY <1>1
<1>3. name \in {"SUM", "AVG", "MIN", "MAX"}
  BY DEF EXPRESSION_FUNCTIONS
<1>4. CASE \A i \in DOMAIN column : column[i] = NaN
  <2>1. Range(column) = {NaN}
    BY <1>1, <1>4 DEF Range
  <2>2. Aggregate(name, column) = NaN
    BY <2>1 DEF Aggregate
  <2>3. Range(column) \ {NaN} = {} /\ NaN \in Range(column)
    BY <2>1
  <2>4. EngineAggregate(name, column) = NaN
    <3>1. CASE name = "MAX"
      BY <1>2, <2>3, <3>1 DEF EngineAggregate
    <3>2. CASE name # "MAX"
      BY <2>3, <3>2 DEF EngineAggregate
    <3> QED BY <3>1, <3>2
  <2> QED BY <2>2, <2>4
<1>5. CASE \A i \in DOMAIN column : column[i] \in Nat
  <2>0. NaN \notin Int
    BY DesignAssumption, Zenon
  <2>1. NaN \notin Range(column)
    BY <1>5, <2>0 DEF Range
  <2>2. Range(column) \ {NaN} = Range(column) /\ Range(column) # {}
    BY <1>1, <2>1 DEF Range
  <2>3. Total(column) \in Nat
    BY <1>5, TotalOfNaturals
  <2>4. RoundAway(Total(column), Len(column)) = RoundUp(Total(column), Len(column))
    BY <2>3 DEF RoundAway
  <2>5. CASE name = "SUM"
    BY <1>2, <2>1, <2>5 DEF Aggregate, EngineAggregate
  <2>6. CASE name = "AVG"
    BY <1>2, <2>1, <2>4, <2>6 DEF Aggregate, EngineAggregate
  <2>7. CASE name = "MIN"
    BY <1>2, <2>1, <2>7 DEF Aggregate, EngineAggregate
  <2>8. CASE name = "MAX"
    BY <1>2, <2>1, <2>2, <2>8 DEF Aggregate, EngineAggregate
  <2> QED BY <1>3, <2>5, <2>6, <2>7, <2>8
<1> QED BY <1>4, <1>5

\* Two contexts with the same rows: those of the preview and of the engine.
SameData(c, d) == IsContext(c) /\ IsContext(d) /\ c.detail = d.detail

\* A column of a context is of amounts or of texts.
LEMMA ColumnsAreUniform ==
  ASSUME NEW ctx, IsContext(ctx), NEW path \in Columns,
         NEW column, column = [i \in DOMAIN ctx.detail |-> ToNumber(ctx.detail[i][path])]
  PROVE  /\ IsSeq(column) /\ Len(column) > 0
         /\ \/ \A i \in DOMAIN column : column[i] \in Nat
            \/ \A i \in DOMAIN column : column[i] = NaN
<1>1. PICK rows : rows = ctx.detail
  OBVIOUS
<1>2. /\ Len(rows) \in Nat \ {0} /\ DOMAIN rows = 1 .. Len(rows)
      /\ \A i \in DOMAIN rows : rows[i] \in Range(Context.detail)
  BY <1>1, ColumnsOfContexts
<1>3. /\ DOMAIN column = 1 .. Len(rows) /\ column = [i \in 1 .. Len(rows) |-> column[i]]
      /\ \A i \in 1 .. Len(rows) : column[i] = ToNumber(rows[i][path])
  BY <1>1, <1>2
<1>4. IsSeq(column) /\ Len(column) = Len(rows)
  BY <1>2, <1>3, FunctionIsSeq
<1>5. Len(column) > 0
  BY <1>2, <1>4
<1>6. \/ \A row \in Range(Context.detail) : row[path] \in Nat
      \/ \A row \in Range(Context.detail) : row[path] \notin Int
  BY SampleAssumption
<1>7. CASE \A row \in Range(Context.detail) : row[path] \in Nat
  <2>1. \A i \in 1 .. Len(rows) : rows[i][path] \in Nat
    BY <1>2, <1>7
  <2>2. \A v \in Nat : ToNumber(v) \in Nat
    BY DEF ToNumber
  <2>3. \A i \in 1 .. Len(rows) : column[i] \in Nat
    BY ONLY <1>3, <2>1, <2>2
  <2> QED BY <1>3, <1>4, <1>5, <2>3
<1>8. CASE \A row \in Range(Context.detail) : row[path] \notin Int
  <2>1. \A i \in 1 .. Len(rows) : column[i] = NaN
    BY <1>2, <1>3, <1>8 DEF ToNumber
  <2> QED BY <1>3, <1>4, <1>5, <2>1
<1> QED BY <1>6, <1>7, <1>8

\* The call of a function.
LEMMA CallsAgree ==
  ASSUME NEW c, NEW d, SameData(c, d), NEW name, NEW path
  PROVE  ApplyFunction(name, path, c, Aggregate) = ApplyFunction(name, path, d, EngineAggregate)
<1> DEFINE column == [i \in DOMAIN c.detail |-> ToNumber(c.detail[i][path])]
<1>1. c.detail = d.detail /\ IsContext(c)
  BY DEF SameData
<1>2. c.detail # <<>> /\ DOMAIN c.detail[1] = Columns
  BY <1>1, ColumnsOfContexts
<1>3. CASE name \notin EXPRESSION_FUNCTIONS \/ path[1] # DetailScope \/ path \notin Columns
  BY <1>1, <1>2, <1>3 DEF ApplyFunction
<1>4. CASE name = "COUNT"
  BY <1>1, <1>2, <1>4 DEF ApplyFunction
<1>5. CASE name \in EXPRESSION_FUNCTIONS \ {"COUNT"} /\ path[1] = DetailScope /\ path \in Columns
  <2>1. PICK col : col = column
    OBVIOUS
  <2>2. /\ IsSeq(col) /\ Len(col) > 0
        /\ (\A i \in DOMAIN col : col[i] \in Nat) \/ (\A i \in DOMAIN col : col[i] = NaN)
    BY <1>1, <1>5, <2>1, ColumnsAreUniform
  <2>3. Aggregate(name, col) = EngineAggregate(name, col)
    BY <1>5, <2>2, AggregatesAgree
  <2>4. ApplyFunction(name, path, c, Aggregate) = <<Aggregate(name, col)>>
    BY <1>2, <1>5, <2>1 DEF ApplyFunction
  <2>5. ApplyFunction(name, path, d, EngineAggregate) = <<EngineAggregate(name, col)>>
    BY <1>1, <1>2, <1>5, <2>1 DEF ApplyFunction
  <2> QED BY <2>3, <2>4, <2>5
<1> QED BY <1>3, <1>4, <1>5

\* A piece that does not name the page.
LEMMA PiecesAgree ==
  ASSUME NEW c, NEW d, SameData(c, d), NEW p, p.kind \notin {"n", "N"}, NEW s, s = Segment(p)
  PROVE  Part(s, c, Aggregate) = Part(s, d, EngineAggregate)
<1>1. c.detail = d.detail /\ c.scopes = d.scopes
  BY DEF SameData, IsContext
<1>2. s.kind \in {"text", "field", "function", "invalid"}
  BY DEF Segment
<1>3. CASE s.kind = "text"
  BY <1>3 DEF Part
<1>4. CASE s.kind = "field"
  <2>1. ResolveField(s.of, c) = ResolveField(s.of, d)
    BY <1>1 DEF ResolveField
  <2>2. Part(s, c, Aggregate) = ResolveField(s.of, c) /\ Part(s, d, EngineAggregate) = ResolveField(s.of, d)
    BY <1>4 DEF Part
  <2> QED BY <2>1, <2>2
<1>5. CASE s.kind = "function"
  <2>1. /\ Part(s, c, Aggregate) = ApplyFunction(s.name, s.of, c, Aggregate)
        /\ Part(s, d, EngineAggregate) = ApplyFunction(s.name, s.of, d, EngineAggregate)
    BY <1>5 DEF Part
  <2> QED BY <2>1, CallsAgree
<1>6. CASE s.kind = "invalid"
  BY <1>6 DEF Part
<1> QED BY <1>2, <1>3, <1>4, <1>5, <1>6

\* An element whose binding does not name the page shows the same text.
LEMMA TextsAgree ==
  ASSUME NEW c, NEW d, SameData(c, d), NEW e, ~ NamesThePage(e)
  PROVE  ResolveElementText(e, c) = EngineText(e, d)
<1>1. CASE e.expression = None
  BY <1>1 DEF ResolveElementText, EngineText
<1>2. CASE e.expression # None
  <2>1. PICK x : x = e.expression
    OBVIOUS
  <2>2. \A i \in DOMAIN x : x[i].kind \notin {"n", "N"}
    BY <1>2, <2>1 DEF NamesThePage
  <2> DEFINE segment(i) == ParseExpression(x)[i]
             shown   == [i \in DOMAIN x |-> Part(segment(i), c, Aggregate)]
             printed == [i \in DOMAIN x |-> Part(segment(i), d, EngineAggregate)]
             Result(parts) == LET ok == \A i \in DOMAIN parts : parts[i] # Failure
                              IN [ok |-> ok, value |-> IF ok THEN [i \in DOMAIN parts |-> parts[i][1]] ELSE Failure]
  <2>3. \A i \in DOMAIN x : segment(i) = Segment(x[i])
    BY DEF ParseExpression
  <2>4. EvaluateExpression(x, c) = Result(shown)
    BY DEF EvaluateExpression, Evaluation
  <2>5. EngineEvaluate(x, d) = Result(printed)
    BY DEF EngineEvaluate, Evaluation
  <2> HIDE DEF segment
  <2>6. \A i \in DOMAIN x : Part(segment(i), c, Aggregate) = Part(segment(i), d, EngineAggregate)
    BY <2>2, <2>3, PiecesAgree
  <2>7. shown = printed
    BY <2>6
  <2> HIDE DEF shown, printed, Result
  <2>8. EvaluateExpression(x, c) = EngineEvaluate(x, d)
    BY <2>4, <2>5, <2>7
  <2> QED BY <1>2, <2>1, <2>8 DEF ResolveElementText, EngineText
<1> QED BY <1>1, <1>2

-----------------------------------------------------------------------------
(***************************************************************************)
(* Where the bands are, in the preview and in the report.                  *)
(***************************************************************************)

\* The rows of the detail band are spaced evenly.
LEMMA RowsAreSpaced ==
  ASSUME NEW b, IsBand(b), NEW ctx, IsContext(ctx), NEW y \in Int
  PROVE  \A k \in 0 .. Len(ctx.detail) : RowOffsets(b, ctx, y)[k] = y + k * b.height
<1> DEFINE n == Len(ctx.detail)
           h == b.height
           IsIt(f) == f = [row \in 0 .. n |-> IF row = 0 THEN y ELSE f[row - 1] + h]
<1>1. n \in Nat /\ h \in Int
  BY ColumnsOfContexts DEF IsBand
<1>2. RowOffsets(b, ctx, y) = CHOOSE f : IsIt(f)
  BY DEF RowOffsets
<1> HIDE DEF n, h
<1>3. PICK g : g = [k \in 0 .. n |-> y + k * h]
  OBVIOUS
<1>4. \A k \in 1 .. n : g[k - 1] + h = y + k * h
  <2> SUFFICES ASSUME NEW k \in 1 .. n PROVE g[k - 1] + h = y + k * h
    OBVIOUS
  <2>1. k \in Int /\ k - 1 \in 0 .. n
    BY <1>1
  <2>2. g[k - 1] = y + (k - 1) * h
    BY <1>3, <2>1
  <2>3. (k - 1) * h = k * h - h /\ k * h \in Int
    BY <1>1, <2>1
  <2> QED BY <1>1, <2>2, <2>3
<1>5. \A k \in 0 .. n : g[k] = IF k = 0 THEN y ELSE g[k - 1] + h
  BY <1>1, <1>3, <1>4
<1>6. IsIt(g)
  BY <1>3, <1>5
<1> HIDE DEF IsIt
<1>7. PICK f : f = CHOOSE x : IsIt(x)
  OBVIOUS
<1>8. IsIt(f)
  BY <1>6, <1>7
<1>9. \A k \in 0 .. n : f[k] = IF k = 0 THEN y ELSE f[k - 1] + h
  BY <1>8 DEF IsIt
<1>10. StartAndGoOnAlike(n, f, g)
  <2>1. n \in Nat /\ 0 \in 0 .. n
    BY <1>1
  <2>2. f[0] = g[0]
    BY ONLY <1>5, <1>9, <2>1
  <2>3. \A k \in 1 .. n : f[k] = f[k - 1] + h /\ g[k] = g[k - 1] + h
    BY ONLY <1>5, <1>9, <2>1
  <2> QED BY <2>2, <2>3 DEF StartAndGoOnAlike
<1>11. \A k \in 0 .. n : f[k] = g[k]
  BY <1>1, <1>10, GoOnAlike
<1>12. \A k \in 0 .. n : f[k] = y + k * h
  BY <1>3, <1>11
<1> QED BY <1>2, <1>7, <1>12 DEF n, h

\* How much a band takes.
LEMMA ExtentOfBands ==
  ASSUME NEW b, IsBand(b), NEW ctx, IsContext(ctx)
  PROVE  BandExtent(b, ctx) \in Int
<1>1. Len(ctx.detail) \in Nat /\ b.height \in Int
  BY ColumnsOfContexts DEF IsBand
<1> QED BY <1>1 DEF BandExtent

\* The report advances by as much.
LEMMA BandsAdvanceAlike ==
  ASSUME NEW t, NEW b, IsBand(b), NEW c, NEW d, SameData(c, d), NEW y \in Int
  PROVE  LaidOutBand(t, b, d, y).y = y + BandExtent(b, c)
<1>1. c.detail = d.detail /\ IsContext(d)
  BY DEF SameData
<1>2. CASE b.kind = "detail"
  <2>1. Len(d.detail) \in 0 .. Len(d.detail)
    BY <1>1, ColumnsOfContexts
  <2>2. RowOffsets(b, d, y)[Len(d.detail)] = y + Len(d.detail) * b.height
    BY <1>1, <2>1, RowsAreSpaced
  <2> QED BY <1>1, <1>2, <2>2 DEF LaidOutBand, BandExtent
<1>3. CASE b.kind # "detail"
  BY <1>3 DEF LaidOutBand, BandExtent
<1> QED BY <1>2, <1>3

\* The tops of the bands are a running sum.
LEMMA TopsAreSums ==
  ASSUME NEW t, IsTemplate(t), NEW ctx, IsContext(ctx), NEW n
  PROVE  /\ \A k \in 0 .. Len(t.bands) : Tops(t, ctx, n)[k] \in Int
         /\ Tops(t, ctx, n)[0] = 0
         /\ \A k \in 1 .. Len(t.bands) :
              Tops(t, ctx, n)[k] = Tops(t, ctx, n)[k - 1]
                + (IF k \in BandsOnPage(t, n) THEN BandExtent(t.bands[k], ctx) ELSE 0)
<1> DEFINE N == Len(t.bands)
           W(k) == IF k \in BandsOnPage(t, n) THEN BandExtent(t.bands[k], ctx) ELSE 0
           IsIt(f) == f = [k \in 0 .. N |-> IF k = 0 THEN 0 ELSE f[k - 1] + W(k)]
<1>1. N \in Nat /\ \A k \in 1 .. N : IsBand(t.bands[k])
  BY BandsOfTemplates
<1>2. Tops(t, ctx, n) = CHOOSE f : IsIt(f)
  BY DEF Tops
<1>3. \A k \in 1 .. N : W(k) \in Int
  BY <1>1, ExtentOfBands
<1> HIDE DEF N, W
<1>4. PICK w : w = [k \in 1 .. N |-> W(k)]
  OBVIOUS
<1>5. w \in [1 .. N -> Int] /\ \A k \in 1 .. N : w[k] = W(k)
  BY <1>3, <1>4
<1>6. PICK g \in [0 .. N -> Int] : g[0] = 0 /\ \A k \in 1 .. N : g[k] = g[k - 1] + w[k]
  BY <1>1, <1>5, RunningSum
<1>7. \A k \in 0 .. N : g[k] = IF k = 0 THEN 0 ELSE g[k - 1] + W(k)
  BY <1>1, <1>5, <1>6
<1>8. IsIt(g)
  BY <1>6, <1>7
<1> HIDE DEF IsIt
<1>9. PICK f : f = CHOOSE x : IsIt(x)
  OBVIOUS
<1>10. IsIt(f)
  BY <1>8, <1>9
<1>11. \A k \in 0 .. N : f[k] = IF k = 0 THEN 0 ELSE f[k - 1] + W(k)
  BY <1>10 DEF IsIt
<1>12. f[0] = 0 /\ \A k \in 1 .. N : f[k] = f[k - 1] + W(k)
  <2>1. N \in Nat /\ 0 \in 0 .. N
    BY <1>1
  <2> QED BY ONLY <1>11, <2>1
<1>13. StartAndGoOnAlike(N, f, g)
  <2>1. f[0] = g[0]
    BY <1>6, <1>12
  <2>2. \A k \in 1 .. N : f[k] = f[k - 1] + W(k) /\ g[k] = g[k - 1] + W(k)
    BY <1>5, <1>6, <1>12
  <2> QED BY <2>1, <2>2 DEF StartAndGoOnAlike
<1>14. \A k \in 0 .. N : f[k] = g[k]
  BY <1>1, <1>13, GoOnAlike
<1>15. \A k \in 0 .. N : f[k] \in Int
  BY <1>6, <1>14
<1> QED BY <1>2, <1>9, <1>12, <1>15 DEF N, W

\* The report has the bands where the preview has them.
LEMMA OffsetsAreTops ==
  ASSUME NEW t, IsTemplate(t), NEW c, NEW d, SameData(c, d), NEW n, d.page.number = n
  PROVE  \A k \in 0 .. Len(t.bands) : Offsets(t, d)[k] = Tops(t, c, n)[k]
<1> DEFINE N == Len(t.bands)
           next(k, y) == IF k \in BandsOnPage(t, n) THEN LaidOutBand(t, t.bands[k], d, y).y ELSE y
           IsIt(f) == f = [k \in 0 .. N |-> IF k = 0 THEN 0 ELSE next(k, f[k - 1])]
<1>1. N \in Nat /\ \A k \in 1 .. N : IsBand(t.bands[k])
  BY BandsOfTemplates
<1>2. IsContext(c)
  BY DEF SameData
<1>3. Offsets(t, d) = CHOOSE f : IsIt(f)
  BY DEF Offsets
<1>4. PICK g : g = [k \in 0 .. N |-> Tops(t, c, n)[k]]
  OBVIOUS
<1>5. /\ \A k \in 0 .. N : g[k] \in Int
      /\ g[0] = 0
      /\ \A k \in 1 .. N :
           g[k] = g[k - 1] + (IF k \in BandsOnPage(t, n) THEN BandExtent(t.bands[k], c) ELSE 0)
  <2>1. \A k \in 1 .. N : k - 1 \in 0 .. N /\ k \in 0 .. N
    BY <1>1
  <2>2. 0 \in 0 .. N
    BY <1>1
  <2> HIDE DEF N
  <2>3. \A k \in 0 .. N : g[k] = Tops(t, c, n)[k]
    BY <1>4
  <2> QED BY <1>2, <2>1, <2>2, <2>3, TopsAreSums DEF N
<1>6. \A k \in 1 .. N : g[k] = next(k, g[k - 1])
  <2> SUFFICES ASSUME NEW k \in 1 .. N PROVE g[k] = next(k, g[k - 1])
    OBVIOUS
  <2>1. PICK y : y = g[k - 1]
    OBVIOUS
  <2>2. y \in Int
    <3>1. k - 1 \in 0 .. N
      BY <1>1
    <3> QED BY <1>5, <2>1, <3>1
  <2>3. g[k] = y + (IF k \in BandsOnPage(t, n) THEN BandExtent(t.bands[k], c) ELSE 0)
    BY <1>5, <2>1
  <2>4. IsBand(t.bands[k])
    BY <1>1
  <2>5. LaidOutBand(t, t.bands[k], d, y).y = y + BandExtent(t.bands[k], c)
    BY <2>2, <2>4, BandsAdvanceAlike
  <2> QED BY <2>1, <2>2, <2>3, <2>5
<1> HIDE DEF N, next
<1>7. \A k \in 0 .. N : g[k] = IF k = 0 THEN 0 ELSE next(k, g[k - 1])
  BY <1>1, <1>5, <1>6
<1>8. IsIt(g)
  BY <1>4, <1>7
<1> HIDE DEF IsIt
<1>9. PICK f : f = CHOOSE x : IsIt(x)
  OBVIOUS
<1>10. IsIt(f)
  BY <1>8, <1>9
<1>11. \A k \in 0 .. N : f[k] = IF k = 0 THEN 0 ELSE next(k, f[k - 1])
  BY <1>10 DEF IsIt
<1>12. StartAndGoOnAlike(N, f, g)
  <2>1. N \in Nat /\ 0 \in 0 .. N
    BY <1>1
  <2>2. f[0] = g[0]
    BY ONLY <1>7, <1>11, <2>1
  <2>3. \A k \in 1 .. N : f[k] = next(k, f[k - 1]) /\ g[k] = next(k, g[k - 1])
    BY ONLY <1>7, <1>11, <2>1
  <2> QED BY <2>2, <2>3 DEF StartAndGoOnAlike
<1>13. \A k \in 0 .. N : f[k] = g[k]
  BY <1>1, <1>12, GoOnAlike
<1>14. \A k \in 0 .. N : f[k] = Tops(t, c, n)[k]
  BY <1>4, <1>13
<1> QED BY <1>3, <1>9, <1>14 DEF N

\* There are finitely many page breaks.
LEMMA PagesAreCounted ==
  ASSUME NEW t, IsTemplate(t)
  PROVE  PageCount(t) \in Nat \ {0}
<1> DEFINE N == Len(t.bands)
           breaks(b) == {b} \X {i \in DOMAIN t.bands[b].elements : t.bands[b].elements[i].type = "pageBreak"}
<1>1. N \in Nat /\ DOMAIN t.bands = 1 .. N /\ \A b \in 1 .. N : IsBand(t.bands[b])
  BY BandsOfTemplates
<1>2. ASSUME NEW b \in 1 .. N PROVE IsFiniteSet(breaks(b))
  <2>1. IsSeq(t.bands[b].elements)
    BY <1>1 DEF IsBand
  <2>2. PICK s : s = t.bands[b].elements
    OBVIOUS
  <2>3. Len(s) \in Nat /\ DOMAIN s = 1 .. Len(s)
    BY <2>1, <2>2, SeqIsFunction
  <2>4. IsFiniteSet(1 .. Len(s))
    BY <2>3, FS_Interval
  <2>5. PICK K : K = {i \in DOMAIN s : s[i].type = "pageBreak"}
    OBVIOUS
  <2>6. IsFiniteSet(K)
    BY <2>3, <2>4, <2>5, FS_Subset
  <2>7. IsFiniteSet({b})
    BY FS_Singleton
  <2>8. IsFiniteSet({b} \X K)
    BY <2>6, <2>7, FS_Product
  <2> QED BY <2>2, <2>5, <2>8
<1>3. PageBreaks(t) = UNION {breaks(b) : b \in 1 .. N}
  BY <1>1 DEF PageBreaks
<1> HIDE DEF N, breaks
<1>4. PICK T : T = {breaks(b) : b \in 1 .. N}
  OBVIOUS
<1>5. PICK f : f = [b \in 1 .. N |-> breaks(b)]
  OBVIOUS
<1>6. f \in Surjection(1 .. N, T)
  BY <1>4, <1>5 DEF Surjection
<1>7. IsFiniteSet(1 .. N)
  BY <1>1, FS_Interval
<1>8. IsFiniteSet(T)
  BY <1>6, <1>7, FS_Surjection
<1>9. \A S \in T : IsFiniteSet(S)
  BY <1>2, <1>4
<1>10. IsFiniteSet(PageBreaks(t))
  BY <1>3, <1>4, <1>8, <1>9, FS_UNION
<1>11. Cardinality(PageBreaks(t)) \in Nat
  BY <1>10, FS_CardinalityType
<1> QED BY <1>11 DEF PageCount

-----------------------------------------------------------------------------
(***************************************************************************)
(* What a page shows.                                                      *)
(***************************************************************************)

\* The boxes of a band are the same.
LEMMA BoxesMatch ==
  ASSUME NEW b, NEW c, NEW d, SameData(c, d), NEW top, NEW number
  PROVE  BlocksMatch(b, Block(RenderElements(b, c, top), number), Block(AddBandElements(b, d, top), number))
<1>1. PICK shown : shown = RenderElements(b, c, top)
  OBVIOUS
<1>2. PICK printed : printed = AddBandElements(b, d, top)
  OBVIOUS
<1>3. DOMAIN shown = Drawn(b) /\ DOMAIN printed = Drawn(b)
  BY <1>1, <1>2 DEF RenderElements, AddBandElements
<1>4. ASSUME NEW i \in Drawn(b)
      PROVE  /\ shown[i].id = printed[i].id /\ shown[i].x = printed[i].x /\ shown[i].y = printed[i].y
             /\ Comparable(b.elements[i]) => shown[i].text = printed[i].text
  <2>1. PICK e : e = b.elements[i]
    OBVIOUS
  <2>2. shown[i] = Box(e, top, ResolveElementText(e, c))
    BY <1>1, <2>1 DEF RenderElements
  <2>3. printed[i] = Box(e, top, IF e.type \in TextTypes THEN EngineText(e, d) ELSE <<>>)
    BY <1>2, <2>1 DEF AddBandElements
  <2>4. Comparable(e) => ResolveElementText(e, c) = EngineText(e, d)
    BY TextsAgree DEF Comparable
  <2> QED BY <2>1, <2>2, <2>3, <2>4 DEF Box, Comparable
<1> QED BY <1>1, <1>2, <1>3, <1>4 DEF BlocksMatch, Block

\* The blocks of a band are the same.
LEMMA BandsMatch ==
  ASSUME NEW t, NEW b, IsBand(b), NEW c, NEW d, SameData(c, d), NEW n, NEW top \in Int,
         d.page.number = n, d.page.total = PageCount(t),
         NEW shown, shown = RenderBand(t, b, c, n, top),
         NEW printed, printed = LaidOutBand(t, b, d, top).blocks
  PROVE  DOMAIN shown = DOMAIN printed /\ \A row \in DOMAIN shown : BlocksMatch(b, shown[row], printed[row])
<1>1. c.detail = d.detail /\ IsContext(c) /\ IsContext(d)
  BY DEF SameData
<1>2. CASE b.kind = "detail"
  <2>1. shown = [row \in DOMAIN c.detail |->
                   Block(RenderElements(b, RowContext(c, row), top + (row - 1) * b.height), None)]
    BY <1>2 DEF RenderBand
  <2>2. printed = [row \in DOMAIN d.detail |->
                     Block(AddBandElements(b, RowContext(d, row), RowOffsets(b, d, top)[row - 1]), None)]
    BY <1>2 DEF LaidOutBand
  <2>3. ASSUME NEW row \in DOMAIN c.detail PROVE BlocksMatch(b, shown[row], printed[row])
    <3>1. row - 1 \in 0 .. Len(d.detail)
      BY <1>1, ColumnsOfContexts
    <3>2. RowOffsets(b, d, top)[row - 1] = top + (row - 1) * b.height
      BY <1>1, <3>1, RowsAreSpaced
    <3>3. SameData(RowContext(c, row), RowContext(d, row))
      BY <1>1, RowIsContext DEF SameData
    <3>4. PICK p : p = top + (row - 1) * b.height
      OBVIOUS
    <3>5. shown[row] = Block(RenderElements(b, RowContext(c, row), p), None)
      BY <2>1, <3>4
    <3>6. printed[row] = Block(AddBandElements(b, RowContext(d, row), p), None)
      BY <1>1, <2>2, <3>2, <3>4
    <3> QED BY <3>3, <3>5, <3>6, BoxesMatch
  <2> QED BY <1>1, <2>1, <2>2, <2>3
<1>3. CASE b.kind # "detail"
  <2>1. PICK number : number = IF b.kind = "pageFooter" /\ t.pageNumbers.show
                               THEN FormatPageNumber(t.pageNumbers, n, PageCount(t)) ELSE None
    OBVIOUS
  <2>2. shown = <<Block(RenderElements(b, c, top), number)>>
    BY <1>3, <2>1 DEF RenderBand
  <2>3. printed = <<Block(AddBandElements(b, d, top), number)>>
    BY <1>3, <2>1 DEF LaidOutBand
  <2>4. BlocksMatch(b, Block(RenderElements(b, c, top), number), Block(AddBandElements(b, d, top), number))
    BY BoxesMatch
  <2>5. \A row \in DOMAIN shown : row = 1
    BY <2>2
  <2>6. BlocksMatch(b, shown[1], printed[1])
    BY <2>2, <2>3, <2>4
  <2> QED BY <2>2, <2>3, <2>5, <2>6
<1> QED BY <1>2, <1>3

\* A page is the same.
LEMMA PagesMatch ==
  ASSUME NEW t, IsTemplate(t), NEW n \in 1 .. PageCount(t),
         NEW shown, shown = PreviewPage(t, Context, n), NEW printed, printed = LaidOutPage(t, Context, n)
  PROVE  /\ DOMAIN shown = DOMAIN printed
         /\ \A b \in DOMAIN shown :
              /\ DOMAIN shown[b] = DOMAIN printed[b]
              /\ \A row \in DOMAIN shown[b] : BlocksMatch(t.bands[b], shown[b][row], printed[b][row])
<1>1. PICK d : d = [Context EXCEPT !.page = [number |-> n, total |-> PageCount(t)]]
  OBVIOUS
<1>2. PICK page : page = [number |-> n, total |-> PageCount(t)]
  OBVIOUS
<1>3. n \in Nat /\ PageCount(t) \in Nat
  BY PagesAreCounted
<1>4. IsContext(Context)
  BY SampleIsContext
<1>5. d = [scopes |-> Context.scopes, detail |-> Context.detail, page |-> page]
  BY <1>1, <1>2, <1>4 DEF IsContext
<1>6. page \in [number : Nat, total : Nat] /\ page.number = n /\ page.total = PageCount(t)
  BY <1>2, <1>3
<1>7. /\ d.scopes = Context.scopes /\ d.detail = Context.detail /\ d.page = page
      /\ d = [scopes |-> d.scopes, detail |-> d.detail, page |-> d.page]
  BY <1>5
<1>8. IsContext(d)
  BY <1>4, <1>6, <1>7 DEF IsContext
<1>9. SameData(Context, d)
  BY <1>4, <1>7, <1>8 DEF SameData
<1>10. shown = [b \in BandsOnPage(t, n) |->
                  RenderBand(t, t.bands[b], Context, n, Tops(t, Context, n)[b - 1])]
  BY DEF PreviewPage
<1>11. printed = [b \in BandsOnPage(t, n) |-> LaidOutBand(t, t.bands[b], d, Offsets(t, d)[b - 1]).blocks]
  BY <1>1 DEF LaidOutPage
<1>12. ASSUME NEW b \in BandsOnPage(t, n)
       PROVE  /\ DOMAIN shown[b] = DOMAIN printed[b]
              /\ \A row \in DOMAIN shown[b] : BlocksMatch(t.bands[b], shown[b][row], printed[b][row])
  <2>1. b \in 1 .. Len(t.bands) /\ Len(t.bands) \in Nat /\ IsBand(t.bands[b])
    BY BandsOfTemplates DEF BandsOnPage
  <2>2. b - 1 \in 0 .. Len(t.bands)
    BY <2>1
  <2>3. PICK top : top = Tops(t, Context, n)[b - 1]
    OBVIOUS
  <2>4. top \in Int
    BY <1>4, <2>2, <2>3, TopsAreSums
  <2>5. Offsets(t, d)[b - 1] = top
    BY <1>6, <1>7, <1>9, <2>2, <2>3, OffsetsAreTops
  <2>6. PICK band : band = t.bands[b]
    OBVIOUS
  <2>7. shown[b] = RenderBand(t, band, Context, n, top)
    BY <1>10, <2>3, <2>6
  <2>8. printed[b] = LaidOutBand(t, band, d, top).blocks
    BY <1>11, <2>5, <2>6
  <2>9. IsBand(band) /\ d.page.number = n /\ d.page.total = PageCount(t)
    BY <1>6, <1>7, <2>1, <2>6
  <2> QED BY <1>9, <2>4, <2>6, <2>7, <2>8, <2>9, BandsMatch
<1> QED BY <1>10, <1>11, <1>12

-----------------------------------------------------------------------------
(***************************************************************************)
(* The report.                                                             *)
(***************************************************************************)

\* The report of a template has the pages of its preview.
LEMMA ReportMatches ==
  ASSUME IsTemplate(template)
  PROVE  PagesMatchPreview
<1>1. PICK t : t = template
  OBVIOUS
<1>2. ReadRdl(ToRdl(t)) = t
  BY <1>1, TemplateRoundTrip, DocumentIsReadTheSame
<1>3. PICK preview : preview = Preview(t, Context)
  OBVIOUS
<1>4. PICK report : report = Layout(t, Context)
  OBVIOUS
<1>5. preview = [n \in 1 .. PageCount(t) |-> PreviewPage(t, Context, n)]
  BY <1>3 DEF Preview
<1>6. report = [n \in 1 .. PageCount(t) |-> LaidOutPage(t, Context, n)]
  BY <1>4 DEF Layout
<1>7. ASSUME NEW n \in 1 .. PageCount(t)
      PROVE  /\ DOMAIN preview[n] = DOMAIN report[n]
             /\ \A b \in DOMAIN preview[n] :
                  /\ DOMAIN preview[n][b] = DOMAIN report[n][b]
                  /\ \A row \in DOMAIN preview[n][b] :
                       BlocksMatch(t.bands[b], preview[n][b][row], report[n][b][row])
  <2>1. preview[n] = PreviewPage(t, Context, n) /\ report[n] = LaidOutPage(t, Context, n)
    BY <1>5, <1>6
  <2>2. IsTemplate(t)
    BY <1>1
  <2> QED BY <2>1, <2>2, PagesMatch
<1> QED BY <1>1, <1>2, <1>3, <1>4, <1>5, <1>6, <1>7 DEF PagesMatchPreview

\* The page numbers count up to the total.
LEMMA NumbersCountUp ==
  ASSUME IsTemplate(template)
  PROVE  PageNumbersCountUp
<1>1. PICK o : o = template.pageNumbers
  OBVIOUS
<1>2. o \in PageNumberOptions
  BY <1>1 DEF IsTemplate
<1>3. o.startAt \in Int /\ o.format \in Seq({"n", "N"})
  BY <1>2 DEF PageNumberOptions
<1>4. PICK pages : pages = PageCount(template)
  OBVIOUS
<1>5. pages \in Nat \ {0}
  BY <1>4, PagesAreCounted
<1>6. PICK format : format = o.format
  OBVIOUS
<1>7. \A i \in DOMAIN format : format[i] \in {"n", "N"}
  BY <1>3, <1>6
<1>8. \A n : \A i \in DOMAIN format :
        /\ format[i] = "n" => FormatPageNumber(o, n, pages)[i] = n + o.startAt - 1
        /\ format[i] = "N" => FormatPageNumber(o, n, pages)[i] = pages + o.startAt - 1
  BY <1>6 DEF FormatPageNumber
<1>9. \A i \in DOMAIN format : format[i] = "n" =>
        \A n \in 1 .. pages - 1 : FormatPageNumber(o, n + 1, pages)[i] = FormatPageNumber(o, n, pages)[i] + 1
  BY <1>3, <1>5, <1>8
<1>10. \A i, j \in DOMAIN format : FormatPageNumber(o, pages, pages)[i] = FormatPageNumber(o, pages, pages)[j]
  BY <1>7, <1>8
<1> QED BY <1>1, <1>4, <1>6, <1>9, <1>10 DEF PageNumbersCountUp

\* The report that is printed has the pages of the preview, each with the same bands,
\* blocks, places, texts and page numbers, and the numbers count up to the total: the
\* engine's running offsets, its aggregates and its reader agree with the builder's.
THEOREM ReportMatchesPreviewHolds == DesignSpec => []ReportMatchesPreview
<1>1. DesignInv => ReportMatchesPreview
  BY ReportMatches, NumbersCountUp DEF DesignInv, ReportMatchesPreview
<1> QED BY <1>1, DesignInvHolds, PTL
=============================================================================
