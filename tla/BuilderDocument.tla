---------------------------- MODULE BuilderDocument ----------------------------
(***************************************************************************)
(* The working document of the report builder: ReportBuilderScreen with    *)
(* its undo/redo history (history.ts), the load and the save of a template *)
(* through the HTTP API, and the routes AppShell mounts the screen under.  *)
(*                                                                         *)
(* A document is known by the template it was opened for and the number of *)
(* the edit that produced it; 0 is the content a template had before. The  *)
(* screen is unmounted on every other route, but stays mounted, and keeps  *)
(* its state, when only the template in the route changes (browser Back,   *)
(* an edited URL, or onSaved). Requests are answered in any order; a save  *)
(* may fail before or after the server has stored it.                      *)
(***************************************************************************)
EXTENDS Naturals, Sequences, FiniteSets

CONSTANTS
  Ids,             \* template ids
  Saved,           \* those that exist in the beginning
  Tags,            \* coalesce tags: one per element and kind of gesture
  HistoryLimit,    \* HISTORY_LIMIT
  MaxEdits,        \* bound on the edits
  MaxMoves,        \* bound on the changes of the route and of the access token
  MaxSaves,        \* bound on the saves
  None             \* JavaScript's null

ASSUME DocumentAssumption ==
  /\ Saved \subseteq Ids /\ {"new", "away"} \cap Ids = {}
  /\ {HistoryLimit, MaxEdits, MaxMoves, MaxSaves} \subseteq Nat /\ HistoryLimit > 0
  /\ None \notin Ids \cup Nat \cup Tags \cup {"new", "away"}

VARIABLES
  route,           \* the template in the builder's route, "new", or "away" from it
  past, present, future, tag,    \* the history
  loading, loadError, saving,    \* the flags the screen renders by
  loads,           \* the loads under way; `current` until the effect is cleaned up
  saves,           \* the saves under way; `mine` until the screen is unmounted
  stored,          \* stored[id]: the edit the server has stored for id, or None
  edits, moves, requests,        \* counters behind the bounds
  openings,        \* history: how often a new document has been opened
  unheard          \* history: creations the screen was not told of

history  == <<past, present, future, tag>>
flags    == <<loading, loadError, saving>>
counters == <<edits, moves, requests, openings, unheard>>
vars     == <<route, history, flags, loads, saves, stored, counters>>

Document(of, edit) == [of |-> of, edit |-> edit]
Sample == Document("new", 0)

\* The editor is rendered, rather than the loading or the error shell.
Visible ==
  route = "new" \/ (route \in Ids /\ ~loading /\ ~loadError)

Init ==
  /\ route = "away"
  /\ past = <<>> /\ present = Sample /\ future = <<>> /\ tag = None
  /\ loading = FALSE /\ loadError = FALSE /\ saving = FALSE
  /\ loads = {} /\ saves = {}
  /\ stored = [id \in Ids |-> IF id \in Saved THEN 0 ELSE None]
  /\ edits = 0 /\ moves = 0 /\ requests = 0 /\ openings = 0 /\ unheard = 0

-----------------------------------------------------------------------------
(* history.ts                                                              *)

\* initHistory
Seed(document) ==
  past' = <<>> /\ present' = document /\ future' = <<>> /\ tag' = None

Capped(s) ==
  IF Len(s) > HistoryLimit THEN SubSeq(s, Len(s) - HistoryLimit + 1, Len(s)) ELSE s

\* Faulty variant: an edit made after an undo keeps what can be redone.
RecordKeepsFuture(document, t) ==
  /\ \/ t # None /\ t = tag /\ UNCHANGED <<past, tag>>
     \/ ~(t # None /\ t = tag) /\ past' = Capped(Append(past, present)) /\ tag' = t
  /\ present' = document
  /\ UNCHANGED future

\* Faulty variant: an edit without a tag is taken for more of an edit without one.
RecordCoalescesUntagged(document, t) ==
  /\ \/ t = tag /\ UNCHANGED <<past, tag>>
     \/ t # tag /\ past' = Capped(Append(past, present)) /\ tag' = t
  /\ present' = document
  /\ future'  = <<>>

\* record: a change with the tag of the present one replaces it.
Record(document, t) ==
  /\ \/ t # None /\ t = tag /\ UNCHANGED <<past, tag>>
     \/ ~(t # None /\ t = tag) /\ past' = Capped(Append(past, present)) /\ tag' = t
  /\ present' = document
  /\ future'  = <<>>

Undo ==
  /\ Visible
  /\ past # <<>>
  /\ past'    = SubSeq(past, 1, Len(past) - 1)
  /\ present' = past[Len(past)]
  /\ future'  = <<present>> \o future
  /\ tag'     = None
  /\ UNCHANGED <<route, flags, loads, saves, stored, counters>>

Redo ==
  /\ Visible
  /\ future # <<>>
  /\ past'    = Append(past, present)
  /\ present' = Head(future)
  /\ future'  = Tail(future)
  /\ tag'     = None
  /\ UNCHANGED <<route, flags, loads, saves, stored, counters>>

\* commit: any edit of the document, tagged while a gesture or typing goes on.
Commit(t) ==
  /\ Visible
  /\ edits < MaxEdits
  /\ edits' = edits + 1
  /\ Record(Document(present.of, edits'), t)
  /\ UNCHANGED <<route, flags, loads, saves, stored, moves, requests, openings, unheard>>

-----------------------------------------------------------------------------
(* Routes and loads                                                        *)

Cancelled == {[l EXCEPT !.current = FALSE] : l \in loads}

\* The clean-up of the load effect, and its next run under route r.
LoadEffect(r) ==
  loads' = Cancelled \cup (IF r \in Ids THEN {[id |-> r, current |-> TRUE, read |-> None]} ELSE {})

\* The builder is shown for r: mounted afresh, or re-seeded because its route has
\* changed. A mounted builder keeps its old document, behind the loading shell.
Open(r) ==
  /\ route' = r
  /\ LoadEffect(r)
  /\ loadError' = FALSE
  /\ \/ /\ route = "away"
        /\ Seed(Sample)
        /\ loading' = (r # "new")
     \/ /\ route # "away" /\ r = "new"
        /\ Seed(Sample)
        /\ UNCHANGED loading
     \/ /\ route # "away" /\ r # "new"
        /\ loading' = TRUE
        /\ UNCHANGED history
  /\ openings' = IF r = "new" THEN openings + 1 ELSE openings

\* The user opens a template, or a new one, or goes back or forward to one.
Navigate(r) ==
  /\ moves < MaxMoves
  /\ moves' = moves + 1
  /\ r # route
  /\ Open(r)
  /\ saving' = (saving /\ route # "away")
  /\ UNCHANGED <<saves, stored, edits, requests, unheard>>

\* The user leaves the builder: the screen is unmounted, its requests go on.
Leave ==
  /\ moves < MaxMoves
  /\ moves' = moves + 1
  /\ route # "away"
  /\ route' = "away"
  /\ Seed(Sample)
  /\ loading' = FALSE /\ loadError' = FALSE /\ saving' = FALSE
  /\ LoadEffect("away")
  /\ saves' = {[s EXCEPT !.mine = FALSE] : s \in saves}
  /\ UNCHANGED <<stored, edits, requests, openings, unheard>>

\* The access token is renewed: the load effect runs again.
RefreshToken ==
  /\ moves < MaxMoves
  /\ moves' = moves + 1
  /\ route # "away"
  /\ LoadEffect(route)
  /\ UNCHANGED <<route, history, flags, saves, stored, edits, requests, openings, unheard>>

\* The server reads the template; what it reads may be stale when it arrives.
LoadServed(l) ==
  /\ l.read = None /\ stored[l.id] # None
  /\ loads' = (loads \ {l}) \cup {[l EXCEPT !.read = stored[l.id]]}
  /\ UNCHANGED <<route, history, flags, saves, stored, counters>>

\* Faulty variant: the answer to a load whose effect was cleaned up is taken.
LoadAnsweredLate(l) ==
  /\ l.read # None
  /\ loads' = loads \ {l}
  /\ Seed(Document(l.id, l.read))
  /\ loading' = FALSE
  /\ UNCHANGED <<route, loadError, saving, saves, stored, counters>>

LoadAnswered(l) ==
  /\ l.read # None
  /\ loads' = loads \ {l}
  /\ \/ /\ l.current
        /\ Seed(Document(l.id, l.read))
        /\ loading' = FALSE
     \/ ~l.current /\ UNCHANGED <<history, loading>>
  /\ UNCHANGED <<route, loadError, saving, saves, stored, counters>>

LoadFailed(l) ==
  /\ loads' = loads \ {l}
  /\ \/ l.current /\ loadError' = TRUE /\ loading' = FALSE
     \/ ~l.current /\ UNCHANGED <<loadError, loading>>
  /\ UNCHANGED <<route, history, saving, saves, stored, counters>>

-----------------------------------------------------------------------------
(* Saves                                                                   *)

\* Faulty variant: the Save button stays enabled during a save.
SaveAgain ==
  /\ Visible
  /\ requests < MaxSaves
  /\ requests' = requests + 1
  /\ saving' = TRUE
  /\ saves' = saves \cup {[n |-> requests, to |-> route, doc |-> present,
                           mine |-> TRUE, created |-> None, served |-> FALSE]}
  /\ UNCHANGED <<route, history, loading, loadError, loads, stored, edits, moves,
                 openings, unheard>>

\* handleSave: create a new template, or update the one in the route.
Save ==
  /\ Visible
  /\ ~saving
  /\ requests < MaxSaves
  /\ requests' = requests + 1
  /\ saving' = TRUE
  /\ saves' = saves \cup {[n |-> requests, to |-> route, doc |-> present,
                           mine |-> TRUE, created |-> None, served |-> FALSE]}
  /\ UNCHANGED <<route, history, loading, loadError, loads, stored, edits, moves,
                 openings, unheard>>

\* The server stores the document, under a fresh id if it is a new one.
Served(s) ==
  LET free == {id \in Ids : stored[id] = None} IN
  /\ ~s.served
  /\ \/ /\ s.to = "new"
        /\ free # {}
        /\ \E id \in free :
             /\ stored' = [stored EXCEPT ![id] = s.doc.edit]
             /\ saves'  = (saves \ {s}) \cup {[s EXCEPT !.served = TRUE, !.created = id]}
     \/ /\ s.to # "new"
        /\ stored' = [stored EXCEPT ![s.to] = s.doc.edit]
        /\ saves'  = (saves \ {s}) \cup {[s EXCEPT !.served = TRUE]}
  /\ UNCHANGED <<route, history, flags, loads, counters>>

\* The answer arrives. onSaved switches the route to the created template, even
\* if the user has left the builder in the meantime.
SaveAnswered(s) ==
  /\ s.served
  /\ saves' = saves \ {s}
  /\ saving' = (saving /\ ~s.mine)
  /\ \/ /\ s.to = "new"
        /\ s.created # route
        /\ Open(s.created)
     \/ /\ s.to # "new" \/ s.created = route
        /\ UNCHANGED <<route, history, loading, loadError, loads, openings>>
  /\ UNCHANGED <<stored, edits, moves, requests, unheard>>

\* The save fails: it never reached the server, or its answer is lost.
SaveFailed(s) ==
  /\ saves' = saves \ {s}
  /\ saving' = (saving /\ ~s.mine)
  /\ unheard' = IF s.created # None THEN unheard + 1 ELSE unheard
  /\ UNCHANGED <<route, history, loading, loadError, loads, stored, edits, moves, requests,
                 openings>>

-----------------------------------------------------------------------------
\* The user goes on looking at what is on the screen.
Rest ==
  /\ loads = {} /\ saves = {}
  /\ UNCHANGED vars

Next ==
  \/ \E t \in Tags \cup {None} : Commit(t)
  \/ Undo \/ Redo \/ Save \/ Leave \/ RefreshToken \/ Rest
  \/ \E r \in Ids \cup {"new"} : Navigate(r)
  \/ \E l \in loads : LoadServed(l) \/ LoadAnswered(l) \/ LoadFailed(l)
  \/ \E s \in saves : Served(s) \/ SaveAnswered(s) \/ SaveFailed(s)

Spec == Init /\ [][Next]_vars

-----------------------------------------------------------------------------
(* Properties                                                              *)

Documents == [of : Ids \cup {"new"}, edit : 0 .. MaxEdits]
Timeline  == past \o <<present>> \o future

\* Every variable stays within its type; the past has HISTORY_LIMIT steps at most.
TypeOK ==
  /\ route \in Ids \cup {"new", "away"}
  /\ past \in Seq(Documents) /\ Len(past) <= HistoryLimit
  /\ present \in Documents /\ future \in Seq(Documents)
  /\ tag \in Tags \cup {None}
  /\ {loading, loadError, saving} \subseteq BOOLEAN
  /\ loads \subseteq [id : Ids, current : BOOLEAN, read : 0 .. MaxEdits \cup {None}]
  /\ \A s \in saves : s.doc \in Documents /\ s.to \in Ids \cup {"new"}
  /\ stored \in [Ids -> 0 .. MaxEdits \cup {None}]

\* The document in the editor, and everything undo or redo can bring back, is of
\* the template in the route, so it is never saved under another one's id.
EditorShowsItsTemplate ==
  Visible => \A i \in DOMAIN Timeline : Timeline[i].of = route

\* Undo and redo run through the edits in the order in which they were made.
UndoIsChronological ==
  \A i, j \in DOMAIN Timeline : i < j => Timeline[i].edit < Timeline[j].edit

\* A document becomes one template, unless the screen could not know it already was.
OneTemplatePerDocument ==
  Cardinality({id \in Ids \ Saved : stored[id] # None}) <= openings + unheard

\* The loading shell is never shown for a load that nobody is making.
LoadingIsUnderWay ==
  route \in Ids /\ loading => \E l \in loads : l.id = route /\ l.current

\* As long as the route stays, a document that is not stored can be brought back
\* by undo or redo, the document of a new template included.  It goes only when the
\* gesture or the typing that made it goes on (record, history.ts:51-62), or when
\* the load that a renewed token makes again is answered (ReportBuilderScreen.tsx:
\* 192-212): no other load is under way while the editor is shown.
Unsaved == route = "new" \/ (route \in Ids /\ present.edit # stored[route])
UnsavedEditsSurvive ==
  [][(Visible /\ route' = route /\ Unsaved) =>
       \/ \E i \in DOMAIN Timeline' : Timeline'[i] = present
       \/ edits' > edits /\ tag # None /\ tag' = tag
       \/ \E l \in loads : l.current /\ l \notin loads' /\ present' = Document(route, l.read)]_vars
=============================================================================
