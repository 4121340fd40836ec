--------------------------- MODULE PreviewBroadcast ---------------------------
(***************************************************************************)
(* usePreviewBroadcast: the live-preview channel of the report builder.    *)
(*                                                                         *)
(* One editor pushes its document and its selection, each after a debounce *)
(* timer, and claims a soft-lock on the sole element it has selected. The  *)
(* connection effect owns one hub and replaces it whenever the access      *)
(* token is renewed; the hub reconnects by itself when its connection is   *)
(* lost, with a new connection id, and then replays what the server knew.  *)
(*                                                                         *)
(* The server is PresenceState, with each hub method one atomic step       *)
(* (PreviewHub has their interleavings). Calls of one connection arrive in *)
(* order; the answer reaches the client together with the call's effect.   *)
(* A connection that is gone may still have calls served before its        *)
(* OnDisconnected runs. A hub that was replaced is stopped, and a stopped  *)
(* hub calls nobody back, so only the current hub has a state here.        *)
(***************************************************************************)
EXTENDS Naturals, Sequences

CONSTANTS
  Elements,        \* report element ids
  Session,         \* the id of the template being edited
  MaxEdits,        \* bound on the edits of the document
  MaxSelects,      \* bound on the changes of the selection
  MaxRefreshes,    \* bound on the renewals of the access token
  MaxOutages,      \* bound on the failures of the connection
  None             \* JavaScript's null

\* Connection ids, in the order in which they are handed out.
Connections == 1 .. (1 + MaxRefreshes + MaxOutages)

ASSUME BroadcastAssumption ==
  /\ {MaxEdits, MaxSelects, MaxRefreshes, MaxOutages} \subseteq Nat
  /\ None \notin Elements \cup {Session} \cup Nat
  /\ \A ids \in SUBSET Elements : ids # None

VARIABLES
  rdl,             \* the version of the document
  selectedIds,     \* the elements selected in the builder
  claimedRef,      \* the element the builder's claim effect has claimed, or None
  selects,         \* how often the selection has changed
  refreshes,       \* how often the access token has been renewed
  link,            \* the state of the current hub's connection
  conn,            \* its connection id, or None
  ready,           \* whether the hub's `ready` promise has settled
  waiting,         \* the last push and the last publication to make when it settles
  chain,           \* the call whose answer the start or the replay waits for
  heldRef,         \* the element to claim again after a reconnect, or None
  connectionId,    \* the connection id the builder takes for its own, or None
  pushTimer,       \* whether the debounce timer of the document is running
  selectionTimer,  \* whether the debounce timer of the selection is running
  outages,         \* how often the connection has failed
  wire,            \* wire[c]: the calls of connection c the server has not served
  lost,            \* lost[c]: the server will run, or has run, OnDisconnected
  left,            \* left[c]: it has run
  pushed,          \* history: the last version pushed by the current connection, or None
  granted,         \* history: the last claim of the selected element was granted
  session, selection, holder    \* the state of the presence registry

registry == <<session, selection, holder>>
editor   == <<rdl, selectedIds, claimedRef>>
timers   == <<pushTimer, selectionTimer>>
hub      == <<link, conn, ready, waiting, chain>>
refs     == <<heldRef, connectionId>>
bounds   == <<selects, refreshes, outages>>
server   == <<lost, left, pushed, granted, registry>>
vars     == <<editor, timers, hub, refs, bounds, wire, server>>

presence == INSTANCE PresenceState WITH Sessions <- {Session}

Links  == {"starting", "connected", "reconnecting", "closed"}
Chains == {"none", "start", "join", "select"}

Join         == [kind |-> "join"]
Publish(ids) == [kind |-> "select", ids |-> ids]
Replay(ids)  == [kind |-> "replay", ids |-> ids]
Claim(e)     == [kind |-> "claim", element |-> e]
Release(e)   == [kind |-> "release", element |-> e]

Calls == UNION {{Join},
                {Publish(ids) : ids \in SUBSET Elements},
                {Replay(ids) : ids \in SUBSET Elements},
                {Claim(e) : e \in Elements}, {Release(e) : e \in Elements}}

\* soleId: the selected element if there is exactly one.
Sole(ids) == IF \E e \in Elements : ids = {e} THEN CHOOSE e \in Elements : ids = {e}
             ELSE None

\* The call on x, unless x is None.
Maybe(call(_), x) == IF x = None THEN <<>> ELSE <<call(x)>>

\* Earlier calls of the same kind are overtaken before anybody can tell.
Nothing == [rdl |-> None, ids |-> None]

Init ==
  /\ rdl = 0 /\ selectedIds = {} /\ claimedRef = None
  /\ selects = 0 /\ refreshes = 0 /\ outages = 0
  /\ link = "starting" /\ conn = None /\ ready = FALSE /\ waiting = Nothing
  /\ chain = "none" /\ heldRef = None /\ connectionId = None
  /\ pushTimer = TRUE /\ selectionTimer = TRUE
  /\ wire   = [c \in Connections |-> <<>>]
  /\ lost   = [c \in Connections |-> FALSE]
  /\ left   = [c \in Connections |-> FALSE]
  /\ pushed = None /\ granted = FALSE
  /\ presence!NobodyPresent

-----------------------------------------------------------------------------
(* Calls                                                                   *)

\* hub.<method>: a call on a connection that is not up is rejected and ignored.
Invoke(calls) ==
  wire' = IF link = "connected" THEN [wire EXCEPT ![conn] = @ \o calls] ELSE wire

\* pushRdl takes no part in presence and cannot be overtaken on its connection,
\* so it is served at once.
InvokePush(version) ==
  pushed' = IF link = "connected" /\ version # None THEN version ELSE pushed

-----------------------------------------------------------------------------
(* The editor                                                              *)

\* An edit changes the RDL and restarts the debounce timer of the push.
Edit ==
  /\ rdl < MaxEdits
  /\ rdl' = rdl + 1
  /\ pushTimer' = TRUE
  /\ UNCHANGED <<selectedIds, claimedRef, selectionTimer, hub, refs, bounds, wire, server>>

\* Faulty variant: release forgets to withdraw the intent to hold the lock.
SelectKeepsHeld(ids) ==
  LET soleId == Sole(ids)  moved == soleId # claimedRef IN
  /\ ids # selectedIds
  /\ selects < MaxSelects
  /\ selects' = selects + 1
  /\ selectedIds' = ids
  /\ selectionTimer' = TRUE
  /\ claimedRef' = soleId
  /\ heldRef' = IF moved /\ soleId # None THEN soleId ELSE heldRef
  /\ Invoke(IF moved THEN Maybe(Release, claimedRef) \o Maybe(Claim, soleId) ELSE <<>>)
  /\ granted' = (granted /\ ~moved)
  /\ UNCHANGED <<rdl, pushTimer, hub, connectionId, refreshes, outages, lost, left, pushed,
                 registry>>

\* A new selection restarts the debounce timer of its publication, and the claim
\* effect releases the previous sole selection and claims the new one.
Select(ids) ==
  LET soleId == Sole(ids)  moved == soleId # claimedRef IN
  /\ ids # selectedIds
  /\ selects < MaxSelects
  /\ selects' = selects + 1
  /\ selectedIds' = ids
  /\ selectionTimer' = TRUE
  /\ claimedRef' = soleId
  /\ heldRef' = IF ~moved THEN heldRef
                ELSE IF soleId # None THEN soleId
                ELSE IF heldRef = claimedRef THEN None ELSE heldRef
  /\ Invoke(IF moved THEN Maybe(Release, claimedRef) \o Maybe(Claim, soleId) ELSE <<>>)
  /\ granted' = (granted /\ ~moved)
  /\ UNCHANGED <<rdl, pushTimer, hub, connectionId, refreshes, outages, lost, left, pushed,
                 registry>>

\* The document has settled: push it, once `ready` has settled too.
PushSettled ==
  /\ pushTimer
  /\ pushTimer' = FALSE
  /\ \/ ready /\ InvokePush(rdl) /\ UNCHANGED waiting
     \/ ~ready /\ waiting' = [waiting EXCEPT !.rdl = rdl] /\ UNCHANGED pushed
  /\ UNCHANGED <<editor, selectionTimer, link, conn, ready, chain, refs, bounds, wire,
                 lost, left, granted, registry>>

\* The selection has settled: publish it, once `ready` has settled too.
SelectionSettled ==
  /\ selectionTimer
  /\ selectionTimer' = FALSE
  /\ \/ ready /\ Invoke(<<Publish(selectedIds)>>) /\ UNCHANGED waiting
     \/ ~ready /\ waiting' = [waiting EXCEPT !.ids = selectedIds] /\ UNCHANGED wire
  /\ UNCHANGED <<editor, pushTimer, link, conn, ready, chain, refs, bounds, server>>

-----------------------------------------------------------------------------
(* The connection                                                          *)

Lose ==
  /\ lost' = [c \in Connections |-> lost[c] \/ c = conn]
  /\ pushed' = None

\* Faulty variant: the push effect does not depend on the access token.
RefreshTokenPushesNothing ==
  /\ refreshes < MaxRefreshes
  /\ refreshes' = refreshes + 1
  /\ Lose
  /\ link' = "starting" /\ conn' = None /\ ready' = FALSE /\ waiting' = Nothing
  /\ chain' = "none"
  /\ heldRef' = None /\ connectionId' = None
  /\ selectionTimer' = TRUE
  /\ UNCHANGED <<editor, pushTimer, selects, outages, wire, left, granted, registry>>

\* A new access token: the connection effect stops its hub and starts another,
\* and both debounce timers start again. The claim effect does not run.  A stopped
\* SignalR connection closes its transport and rejects the calls under way, so the
\* old hub reports and answers nothing any more; the guards that compare hubRef
\* with the hub of a callback would catch it if it did.
RefreshToken ==
  /\ refreshes < MaxRefreshes
  /\ refreshes' = refreshes + 1
  /\ Lose
  /\ link' = "starting" /\ conn' = None /\ ready' = FALSE /\ waiting' = Nothing
  /\ chain' = "none"
  /\ heldRef' = None /\ connectionId' = None
  /\ pushTimer' = TRUE /\ selectionTimer' = TRUE
  /\ UNCHANGED <<editor, selects, outages, wire, left, granted, registry>>

\* The connection is up, with the next connection id, and joins the session.
Open(from, awaiting) ==
  /\ link = from
  /\ link' = "connected"
  /\ conn' = 1 + refreshes + outages
  /\ wire' = [wire EXCEPT ![conn'] = <<Join>>]
  /\ chain' = awaiting
  /\ UNCHANGED <<editor, timers, ready, waiting, refs, bounds, server>>

Started     == Open("starting", "start")
Reconnected == Open("reconnecting", "join")

\* start() fails, and is not tried again: `ready` settles, its calls are rejected.
StartFailed ==
  /\ link = "starting"
  /\ outages < MaxOutages
  /\ outages' = outages + 1
  /\ link' = "closed" /\ ready' = TRUE /\ waiting' = Nothing
  /\ UNCHANGED <<editor, timers, conn, chain, refs, selects, refreshes, wire, server>>

\* The connection is lost: the calls under way are rejected, the start settles.
Dropped ==
  /\ link = "connected"
  /\ outages < MaxOutages
  /\ outages' = outages + 1
  /\ Lose
  /\ link' = "reconnecting" /\ ready' = TRUE /\ waiting' = Nothing /\ chain' = "none"
  /\ UNCHANGED <<editor, timers, conn, refs, selects, refreshes, wire, left, granted,
                 registry>>

\* Automatic reconnect gives up after its last attempt.
GaveUp ==
  /\ link = "reconnecting"
  /\ link' = "closed"
  /\ UNCHANGED <<editor, timers, conn, ready, waiting, chain, refs, bounds, wire, server>>

-----------------------------------------------------------------------------
(* The server, and the answers to its caller                               *)

\* The call at the head of c's queue, and the rest of the queue with what the
\* answer makes the client send.
Served(c, follow) ==
  /\ wire' = [wire EXCEPT ![c] = Tail(@) \o follow]
  /\ UNCHANGED <<editor, timers, link, conn, bounds, lost, left>>

\* Joined: after a start the waiting calls follow, after a reconnect the selection.
AnswerJoin(c) ==
  \/ /\ c = conn /\ chain = "start" /\ ~lost[c]
     /\ Served(c, Maybe(Publish, waiting.ids))
     /\ InvokePush(waiting.rdl)
     /\ ready' = TRUE /\ waiting' = Nothing /\ connectionId' = c /\ chain' = "none"
  \/ /\ c = conn /\ chain = "join" /\ ~lost[c]
     /\ Served(c, <<Replay(selectedIds)>>)
     /\ chain' = "select" /\ connectionId' = c
     /\ UNCHANGED <<ready, waiting, pushed>>
  \/ /\ lost[c]
     /\ Served(c, <<>>)
     /\ UNCHANGED <<ready, waiting, chain, connectionId, pushed>>

\* Faulty variant: a reconnect claims the lock again, but not the selection.
AnswerReplayLocksOnly(c, ids) ==
  /\ Served(c, IF lost[c] THEN <<>> ELSE Maybe(Claim, heldRef))
  /\ presence!Select(c, {})
  /\ chain' = IF lost[c] THEN chain ELSE "none"
  /\ UNCHANGED <<ready, waiting, connectionId, pushed>>

\* Faulty variant: a reconnect publishes the selection again, but does not claim.
AnswerReplaySelectionOnly(c, ids) ==
  /\ Served(c, <<>>)
  /\ presence!Select(c, ids)
  /\ chain' = IF lost[c] THEN chain ELSE "none"
  /\ UNCHANGED <<ready, waiting, connectionId, pushed>>

\* The selection is replayed: the held lock, if any, is claimed again.
AnswerReplay(c, ids) ==
  /\ Served(c, IF lost[c] THEN <<>> ELSE Maybe(Claim, heldRef))
  /\ presence!Select(c, ids)
  /\ chain' = IF lost[c] THEN chain ELSE "none"
  /\ UNCHANGED <<ready, waiting, connectionId, pushed>>

\* The server serves the next call of connection c.
Serve(c) ==
  /\ wire[c] # <<>>
  /\ ~left[c]
  /\ LET call == Head(wire[c])  kind == call.kind IN
     /\ \/ kind = "join" /\ presence!Enrol(c, Session) /\ AnswerJoin(c)
        \/ kind = "replay" /\ AnswerReplay(c, call.ids)
        \/ /\ kind \in {"select", "claim", "release"}
           /\ Served(c, <<>>)
           /\ UNCHANGED <<ready, waiting, chain, connectionId, pushed>>
           /\ \/ kind = "select" /\ presence!Select(c, call.ids)
              \/ kind = "claim" /\ presence!Claim(c, call.element)
              \/ kind = "release" /\ presence!Release(c, call.element)
     /\ granted' = IF kind = "claim" /\ call.element = Sole(selectedIds) /\ c = conn
                   THEN holder'[Session][call.element] = conn ELSE granted
     /\ UNCHANGED heldRef

\* OnDisconnected: what the connection had not been served is dropped.
Disconnect(c) ==
  /\ lost[c] /\ ~left[c]
  /\ left' = [left EXCEPT ![c] = TRUE]
  /\ wire' = [wire EXCEPT ![c] = <<>>]
  /\ presence!Drop(c)
  /\ UNCHANGED <<editor, timers, hub, refs, bounds, lost, pushed, granted>>

-----------------------------------------------------------------------------
\* Everything the editor did has settled, and the server has noticed every loss.
AtRest ==
  /\ link = "connected" /\ chain = "none" /\ ~pushTimer /\ ~selectionTimer
  /\ wire[conn] = <<>>
  /\ \A c \in Connections : lost[c] => left[c]

\* The editor stays as it is, or has lost its connection for good.
Rest ==
  /\ AtRest \/ link = "closed"
  /\ UNCHANGED vars

Next ==
  \/ Edit \/ (\E ids \in SUBSET Elements : Select(ids))
  \/ PushSettled \/ SelectionSettled
  \/ RefreshToken \/ Started \/ Reconnected \/ StartFailed \/ Dropped \/ GaveUp
  \/ \E c \in Connections : Serve(c) \/ Disconnect(c)
  \/ Rest

Spec == Init /\ [][Next]_vars

-----------------------------------------------------------------------------
(* Properties                                                              *)

\* Each change of the document is pushed to the watchers as long as the connection
\* never fails: neither an edit made before the hub is ready nor one made while the
\* token is renewed is forgotten (usePreviewBroadcast.ts:38, 217-230).
EditsArePushed == outages = 0 /\ AtRest => pushed = rdl

\* The others see the editor exactly once, with what it has selected, and the editor
\* knows which entry of the roster it is, across reconnects and renewals.
SelectionIsPublished ==
  AtRest => /\ session[conn] = Session /\ selection[conn] = selectedIds
            /\ {c \in Connections : session[c] # None} = {conn}
            /\ connectionId = conn

\* The editor locks nothing but the element it has selected: what is replayed or
\* answered late never leaves a lock behind.
NoStrayLock ==
  AtRest => \A e \in Elements :
    holder[Session][e] # None => holder[Session][e] = conn /\ e = Sole(selectedIds)

\* A granted lock is held as long as its element is the sole selection, also after a
\* reconnect, unless the server refuses the claim that it repeats; only a renewed
\* token loses it (usePreviewBroadcast.ts:171-181, 198).
LockIsKept ==
  AtRest /\ granted /\ refreshes = 0 => holder[Session][Sole(selectedIds)] = conn
=============================================================================
