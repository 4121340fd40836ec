-------------------------------- MODULE AppShell --------------------------------
(***************************************************************************)
(* App.tsx, AppShell.tsx, useHashScreen.ts and nav.ts: who is signed in,   *)
(* and which screen the address shows.  The address is the fragment of the *)
(* URL, a segment and an id; the browser keeps a history of addresses and  *)
(* delivers a hashchange event some time after each change.  The shell     *)
(* exists only while the user is signed in and known, and starts from the  *)
(* address when it is mounted.  Ids that cannot be percent-decoded are     *)
(* left out.                                                               *)
(***************************************************************************)
EXTENDS Integers, Sequences

CONSTANTS
  Details,       \* ids of Facilities and templates
  NoDetail,      \* null
  Addresses,     \* the addresses a user types or follows from outside
  Budgets        \* bounds of a behaviour: its audience, its first address, and how many
                 \* moves, inputs, renewals, failures and changes by others it may have

ASSUME ShellAssumption == \A b \in Budgets : b.audience \in {"orgUser", "siteAdmin"}

VARIABLES
  auth,          \* react-oidc-context: "loading", "out", "in" or "error"
  token,         \* the number of the access token, 0 without one
  audience,      \* what the server says of the user
  me,            \* what the page knows of the user, or "nobody"
  meError,       \* /api/me has failed
  asking,        \* /api/me is under way for the current token
  history, at,   \* the addresses visited, and which one is current
  changes,       \* hashchange events still to come
  screen, detailId,  \* the state of useHashScreen
  left           \* what is left of the budget

browser == <<history, at, changes>>
route == <<screen, detailId>>
session == <<auth, token, audience, me, meError, asking>>
shell == <<session, browser, route, left>>

(***************************************************************************)
(* Screens and addresses.                                                  *)
(***************************************************************************)
NavEntries ==
  << <<"home", {"orgUser"}>>, <<"records", {"orgUser"}>>, <<"facilities", {"orgUser"}>>,
     <<"fieldLimits", {"orgUser"}>>, <<"orgs", {"siteAdmin"}>>, <<"productionFields", {"siteAdmin"}>>,
     <<"reports", {"orgUser", "siteAdmin"}>> >>
AdminScreens == {"report-builder", "report-preview"}
Screens == {NavEntries[i][1] : i \in DOMAIN NavEntries} \cup {"log"} \cup AdminScreens

Address == history[at]
To(segment, id) == [segment |-> segment, id |-> id]

ScreenFromHash(h) == IF h.segment \in Screens THEN h.segment ELSE "home"
DetailIdFromHash(h) == IF h.segment \in AdminScreens \cup {"facilities"} THEN h.id ELSE NoDetail
HashFromScreen(next, id) ==
  To(IF next = "home" THEN "" ELSE next, IF next \in AdminScreens THEN id ELSE NoDetail)

TabForScreen(s) == CASE s = "log" -> "records" [] s \in AdminScreens -> "reports" [] OTHER -> s
\* The entries the user sees, by their place among all of them.
Permitted == {i \in DOMAIN NavEntries : me \in NavEntries[i][2]}
HomeTabOfAll == NavEntries[1][1]
HomeTab == NavEntries[CHOOSE i \in Permitted : \A j \in Permitted : i <= j][1]
Allowed ==
  /\ \E i \in Permitted : NavEntries[i][1] = TabForScreen(screen)
  /\ screen \in AdminScreens => me = "siteAdmin"

Mounted == auth = "in" /\ ~meError /\ me # "nobody"
EffectiveScreen == IF Allowed THEN screen ELSE HomeTab
Shown == IF Mounted THEN EffectiveScreen ELSE "none"

Spend(what) == left[what] > 0 /\ left' = [left EXCEPT ![what] = @ - 1]
Move == Spend("moves")

InitShell ==
  /\ auth = "loading" /\ token = 0
  /\ me = "nobody" /\ meError = FALSE /\ asking = FALSE
  /\ \E b \in Budgets : audience = b.audience /\ history = <<b.address>> /\ left = b.counts
  /\ at = 1 /\ changes = 0
  /\ screen = "home" /\ detailId = NoDetail

(***************************************************************************)
(* Signing in, and /api/me with each token.  The effect of App runs when   *)
(* the token changes and then ignores the answer for the one before.       *)
(***************************************************************************)
MountShell ==
  IF Mounted' /\ ~Mounted
  THEN screen' = ScreenFromHash(Address) /\ detailId' = DetailIdFromHash(Address)
  ELSE UNCHANGED route

SignIn ==
  /\ auth = "loading"
  /\ \/ auth' = "in" /\ token' = token + 1 /\ asking' = TRUE
     \/ auth' \in {"out", "error"} /\ UNCHANGED <<token, asking>>
  /\ UNCHANGED <<audience, me, meError, browser, left>>
  /\ MountShell

RenewToken ==
  /\ auth = "in" \/ (auth = "error" /\ token > 0)
  /\ Spend("renewals")
  /\ auth' = "in" /\ token' = token + 1 /\ asking' = TRUE
  /\ UNCHANGED <<audience, me, meError, browser>>
  /\ MountShell

RenewalFails ==
  /\ auth = "in" /\ Spend("failures")
  /\ auth' = "error"
  /\ UNCHANGED <<token, audience, me, meError, asking, browser, route>>

\* A later answer does not clear meError.
MeArrives ==
  /\ asking
  /\ asking' = FALSE
  /\ \/ me' = audience /\ UNCHANGED <<meError, left>>
     \/ meError' = TRUE /\ Spend("failures") /\ UNCHANGED me
  /\ UNCHANGED <<auth, token, audience, browser>>
  /\ MountShell

(***************************************************************************)
(* The address.                                                            *)
(***************************************************************************)
\* window.location.hash is set when it differs.
GoTo(h) ==
  IF h = Address THEN UNCHANGED browser
  ELSE /\ history' = SubSeq(history, 1, at) \o <<h>>
       /\ at' = at + 1
       /\ changes' = changes + 1

Navigate(next, id) ==
  /\ screen' = next
  /\ detailId' = id
  /\ GoTo(HashFromScreen(next, id))

OpenFacility(id) ==
  /\ screen' = "facilities"
  /\ detailId' = id
  /\ GoTo(To("facilities", id))

SyncOfScreen ==
  /\ changes > 0
  /\ changes' = changes - 1
  /\ IF Mounted THEN screen' = ScreenFromHash(Address) /\ UNCHANGED detailId ELSE UNCHANGED route
  /\ UNCHANGED <<session, history, at, left>>

\* A hashchange event.  Without the shell nobody listens.
Sync ==
  /\ changes > 0
  /\ changes' = changes - 1
  /\ IF Mounted
     THEN screen' = ScreenFromHash(Address) /\ detailId' = DetailIdFromHash(Address)
     ELSE UNCHANGED route
  /\ UNCHANGED <<session, history, at, left>>

Redirect ==
  /\ Mounted /\ ~Allowed
  /\ Navigate(HomeTab, NoDetail)
  /\ UNCHANGED <<session, left>>

\* The tabs, and what the screens offer (callbacks of AppShell.tsx:84-130).
Links ==
  {<<NavEntries[i][1], NoDetail>> : i \in Permitted}
    \cup (CASE Shown = "home" -> {<<"log", NoDetail>>}
            [] Shown \in {"reports", "report-builder"} /\ me = "siteAdmin" -> {<<"report-builder", d>> : d \in Details}
            [] OTHER -> {})

FollowLink ==
  /\ Mounted /\ Move
  /\ \E l \in Links : Navigate(l[1], l[2])
  /\ UNCHANGED session

PickFacility ==
  /\ Shown = "facilities" /\ detailId = NoDetail /\ Move
  /\ \E d \in Details : OpenFacility(d)
  /\ UNCHANGED session

EditAddress ==
  /\ Move
  /\ \E h \in Addresses \ {Address} : GoTo(h)
  /\ UNCHANGED <<session, route>>

BackOrForward ==
  /\ Move
  /\ at' \in {at - 1, at + 1} \cap DOMAIN history
  /\ changes' = changes + 1
  /\ UNCHANGED <<session, history, route>>

ReloadPage ==
  /\ Move
  /\ auth' = "loading" /\ me' = "nobody" /\ meError' = FALSE /\ asking' = FALSE
  /\ token' = 0
  /\ changes' = 0
  /\ screen' = "home" /\ detailId' = NoDetail
  /\ UNCHANGED <<audience, history, at>>

NextShell ==
  \/ SignIn \/ RenewToken \/ RenewalFails \/ MeArrives
  \/ Sync \/ Redirect \/ FollowLink \/ PickFacility \/ EditAddress \/ BackOrForward \/ ReloadPage

(***************************************************************************)
(* Properties.                                                             *)
(***************************************************************************)

\* When no event is under way, the screen and its id are those of the address,
\* so that a reload or a shared link shows the same: for links, redirects, back
\* and forward in any order with the events they cause, and however often the
\* shell was taken away meanwhile (useHashScreen.ts:119-180).
AddressMatchesScreen ==
  Mounted /\ changes = 0 =>
    screen = ScreenFromHash(Address) /\ detailId = DetailIdFromHash(Address)

\* A screen outside the user's navigation is left again, for either audience and
\* from any address (I-D13, AppShell.tsx:66-74).
RedirectSettles == (Mounted /\ ~Allowed) ~> (Allowed \/ ~Mounted)
=================================================================================
