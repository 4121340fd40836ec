----------------------------- MODULE PreviewHub -----------------------------
(***************************************************************************)
(* ReportPreviewHub: the SignalR hub of the live report preview, over the  *)
(* presence registry (PresenceRegistry, which the concurrent in-memory     *)
(* implementation refines) and the snapshot store.                         *)
(*                                                                         *)
(* A handler is a sequence of steps: each call of a collaborator and each  *)
(* awaited send is one, and the handlers of different connections          *)
(* interleave between them. SignalR runs one invocation of a connection at *)
(* a time; OnDisconnectedAsync may run while that last one is in flight    *)
(* (ReportPreviewHub.cs:144 and :168 rely on it), none starts afterwards.  *)
(*                                                                         *)
(* SignalR itself is external: a connection shows the messages sent to it  *)
(* in the order they were sent, a group send is one step, and what is sent *)
(* to a lost connection is dropped. ReceiveError, and UpdateCursor with    *)
(* its CursorMoved relay, store nothing and are left out.                  *)
(***************************************************************************)
EXTENDS Naturals

CONSTANTS
  Connections,   \* SignalR connection ids
  Sessions,      \* preview session ids
  Elements,      \* report element ids
  Frames,        \* what a pushed template renders to
  Watches,       \* Watches[c]: the session connection c opened
  Methods,       \* bound: the hub methods the clients invoke
  None           \* C#'s null

VARIABLES
  session, selection, holder,   \* the presence registry
  reply,         \* reply[t]: what the registry last returned to thread t
  snapshot,      \* snapshot[s]: the latest frames of session s, or None
  groups,        \* groups[s]: the connections in SignalR's group s
  pc,            \* pc[t]: the handler step thread t executes next
  arg,           \* arg[t]: the session id the handler holds, or None
  frames,        \* frames[t]: the frames the handler holds, or None
  roster,        \* roster[t]: the roster the handler holds, or an empty one
  shown,         \* shown[c]: the last frames, roster and locks sent to client c
  missed         \* history; missed[c]: what changed with no send of it to c since

presence == INSTANCE PresenceRegistry
Threads       == presence!Threads
Call(c)       == presence!Call(c)
Disconnect(c) == presence!Disconnect(c)

ASSUME HubAssumption ==
  /\ Watches \in [Connections -> Sessions]
  /\ Methods \subseteq {"join", "push", "select", "claim", "release"}
  /\ None \notin Connections \cup Sessions \cup Frames

registry == <<session, selection, holder, reply>>
handler  == <<pc, arg, frames, roster>>
vars     == <<registry, snapshot, groups, handler, shown, missed>>

-----------------------------------------------------------------------------
(* What the clients are owed                                               *)

\* "granted" is the part of "locks" that only a new grant makes outdated.
Kinds == {"frames", "roster", "locks", "granted"}

Alive(c) == pc[Disconnect(c)] = "idle"

Changed(s) ==
  {k \in Kinds :
     CASE k = "frames"  -> snapshot[s]' # snapshot[s]
       [] k = "roster"  -> presence!Roster(s)' # presence!Roster(s)
       [] k = "locks"   -> presence!LocksOf(s)' # presence!LocksOf(s)
       [] k = "granted" -> ~(presence!LocksOf(s)' \subseteq presence!LocksOf(s))}

\* A step that sends nothing: the members of a group now miss what it changed.
Silent ==
  /\ missed' = [c \in Connections |->
                  IF Alive(c) /\ c \in groups[Watches[c]]
                  THEN missed[c] \cup Changed(Watches[c]) ELSE missed[c]]
  /\ UNCHANGED <<shown, groups>>

\* Deliver what is sent to the living of `to`, settling the kinds it is current for.
Send(to, field, value, settled) ==
  LET receivers == {c \in to : Alive(c)} IN
  /\ shown'  = [c \in Connections |->
                  IF c \in receivers THEN [shown[c] EXCEPT ![field] = value] ELSE shown[c]]
  /\ missed' = [c \in Connections |->
                  IF c \in receivers THEN missed[c] \ settled ELSE missed[c]]
  /\ UNCHANGED <<groups, snapshot>>

SendFrames(to, s, pages) ==
  Send(to, "frames", pages, IF pages = snapshot[s] THEN {"frames"} ELSE {})

SendRoster(to, s, list) ==
  Send(to, "roster", list, IF list = presence!Roster(s) THEN {"roster"} ELSE {})

SendLocks(to, s, list) ==
  Send(to, "locks", list,
       {k \in {"locks", "granted"} :
          IF k = "locks" THEN list = presence!LocksOf(s)
          ELSE presence!LocksOf(s) \subseteq list})

-----------------------------------------------------------------------------
(* Control flow of a handler                                               *)

At(t, step)   == pc[t] = step
Goto(t, step) == pc' = [pc EXCEPT ![t] = step]
Hold          == UNCHANGED <<arg, frames, roster>>

\* The handler returns; OnDisconnectedAsync never runs again.
End(t) ==
  /\ Goto(t, IF t[2] = "leave" THEN "gone" ELSE "idle")
  /\ arg'    = [arg EXCEPT ![t] = None]
  /\ frames' = [frames EXCEPT ![t] = None]
  /\ roster' = [roster EXCEPT ![t] = presence!NoRoster]

\* The handler goes on, or returns, after an awaited send.
Continue(t, step) == Goto(t, step) /\ Hold /\ UNCHANGED registry
Return(t)         == End(t) /\ presence!Forget(t)

\* presence.SessionOf(Context.ConnectionId); a handler with no session returns.
SessionOf(t, from, to) ==
  /\ At(t, from)
  /\ \/ /\ session[t[1]] # None
        /\ arg' = [arg EXCEPT ![t] = session[t[1]]]
        /\ Goto(t, to)
        /\ UNCHANGED <<frames, roster, registry>>
     \/ session[t[1]] = None /\ Return(t)
  /\ UNCHANGED snapshot
  /\ Silent

\* presence.GetLocks(sessionId), the argument of the send that follows.
ReadLocks(t, from, to, present) ==
  /\ At(t, from)
  /\ presence!GetLocks(t, arg[t], present)
  /\ Goto(t, to)
  /\ Hold
  /\ UNCHANGED snapshot
  /\ Silent

\* Clients.Group(sessionId).SendAsync(LocksChanged, ...), the end of a handler.
BroadcastLocks(t, from) ==
  /\ At(t, from)
  /\ SendLocks(groups[arg[t]], arg[t], reply[t].locks)
  /\ Return(t)

-----------------------------------------------------------------------------
(* The hub methods                                                         *)

\* Groups.AddToGroupAsync: the newcomer misses everything its session has.
AddToGroup(t, s) ==
  /\ groups' = [groups EXCEPT ![s] = @ \cup {t[1]}]
  /\ missed' = [missed EXCEPT ![t[1]] = IF Alive(t[1]) THEN Kinds ELSE {}]
  /\ UNCHANGED <<shown, snapshot>>

\* Faulty variant: the snapshot is read before the caller is in the group.
CatchUpBeforeGroup(t, s) ==
  \/ /\ At(t, "join")
     /\ frames' = [frames EXCEPT ![t] = snapshot[s]]
     /\ Goto(t, "join:snapshot")
     /\ UNCHANGED <<registry, snapshot, arg, roster>>
     /\ Silent
  \/ /\ At(t, "join:snapshot")
     /\ AddToGroup(t, s)
     /\ Continue(t, IF frames[t] # None THEN "join:frames" ELSE "join:presence")
  \/ /\ At(t, "join:frames")
     /\ SendFrames({t[1]}, s, frames[t])
     /\ Continue(t, "join:presence")

\* JoinSession up to the replay of the latest frames.
CatchUp(t, s) ==
  \/ /\ At(t, "join")
     /\ AddToGroup(t, s)
     /\ Continue(t, "join:snapshot")
  \/ /\ At(t, "join:snapshot")
     /\ frames' = [frames EXCEPT ![t] = snapshot[s]]
     /\ Goto(t, IF snapshot[s] # None THEN "join:frames" ELSE "join:presence")
     /\ UNCHANGED <<registry, snapshot, arg, roster>>
     /\ Silent
  \/ /\ At(t, "join:frames")
     /\ SendFrames({t[1]}, s, frames[t])
     /\ Continue(t, "join:presence")

JoinSession(t, s) ==
  LET c == t[1] IN
  \/ CatchUp(t, s)
  \/ /\ At(t, "join:presence")
     /\ presence!Join(c, s)
     /\ roster' = [roster EXCEPT ![t] = reply'[t].roster]
     /\ Goto(t, "join:getlocks")
     /\ UNCHANGED <<snapshot, arg, frames>>
     /\ Silent
  \/ ReadLocks(t, "join:getlocks", "join:locks", {c})
  \/ /\ At(t, "join:locks")
     /\ SendLocks({c}, s, reply[t].locks)
     /\ Continue(t, "join:roster")
  \/ /\ At(t, "join:roster")
     /\ SendRoster(groups[s], s, roster[t])
     /\ Return(t)

PushRdl(t) ==
  LET s == arg[t] IN
  \/ /\ At(t, "push")            \* the RDL cannot be rendered: ReceiveError
     /\ Return(t)
     /\ UNCHANGED snapshot
     /\ Silent
  \/ /\ At(t, "push")
     /\ \E pages \in Frames :
          /\ snapshot' = [snapshot EXCEPT ![s] = pages]
          /\ frames'   = [frames EXCEPT ![t] = pages]
     /\ Goto(t, "push:frames")
     /\ UNCHANGED <<registry, arg, roster>>
     /\ Silent
  \/ /\ At(t, "push:frames")
     /\ SendFrames(groups[s], s, frames[t])
     /\ Return(t)

UpdateSelection(t) ==
  \/ /\ At(t, "select")
     /\ \E elements \in SUBSET Elements : presence!UpdateSelection(t[1], elements)
     /\ Goto(t, "select:session")
     /\ Hold
     /\ UNCHANGED snapshot
     /\ Silent
  \/ SessionOf(t, "select:session", "select:roster")
  \/ /\ At(t, "select:roster")
     /\ SendRoster(groups[arg[t]], arg[t], reply[t].roster)
     /\ Return(t)

ClaimElement(t) ==
  \/ /\ At(t, "claim")
     /\ \E e \in Elements : presence!ClaimElement(t[1], e)
     /\ \/ reply'[t].holder # None /\ Goto(t, "claim:session") /\ Hold
        \/ reply'[t].holder = None /\ End(t)
     /\ UNCHANGED snapshot
     /\ Silent
  \/ SessionOf(t, "claim:session", "claim:getlocks")
  \/ ReadLocks(t, "claim:getlocks", "claim:locks", {t[1]})
  \/ BroadcastLocks(t, "claim:locks")

\* Faulty variant: the others are told of a grant only.
ReleaseElementUnannounced(t) ==
  /\ At(t, "release")
  /\ \E e \in Elements : presence!ReleaseElement(t[1], e)
  /\ End(t)
  /\ UNCHANGED snapshot
  /\ Silent

ReleaseElement(t) ==
  \/ /\ At(t, "release")
     /\ \E e \in Elements : presence!ReleaseElement(t[1], e)
     /\ \/ reply'[t].released /\ Goto(t, "release:session") /\ Hold
        \/ ~reply'[t].released /\ End(t)
     /\ UNCHANGED snapshot
     /\ Silent
  \/ SessionOf(t, "release:session", "release:getlocks")
  \/ ReadLocks(t, "release:getlocks", "release:locks", {t[1]})
  \/ BroadcastLocks(t, "release:locks")

\* Faulty variant: a connection closed without an error is not cleaned up.
OnDisconnectedOnError(t) ==
  \/ /\ At(t, "leave")
     /\ \/ /\ presence!Leave(t[1])
           /\ arg' = [arg EXCEPT ![t] = reply'[t].left]
           /\ roster' = [roster EXCEPT ![t] = reply'[t].survivors]
           /\ Goto(t, IF reply'[t].left # None THEN "leave:roster" ELSE "gone")
           /\ UNCHANGED frames
        \/ Return(t) /\ UNCHANGED <<session, selection, holder>>
     /\ UNCHANGED snapshot
     /\ Silent
  \/ /\ At(t, "leave:roster")
     /\ SendRoster(groups[arg[t]], arg[t], roster[t])
     /\ Return(t)

OnDisconnected(t) ==
  \/ /\ At(t, "leave")
     /\ presence!Leave(t[1])
     /\ \/ /\ reply'[t].left # None
           /\ arg'    = [arg EXCEPT ![t] = reply'[t].left]
           /\ roster' = [roster EXCEPT ![t] = reply'[t].survivors]
           /\ Goto(t, "leave:roster")
           /\ UNCHANGED frames
        \/ reply'[t].left = None /\ End(t)
     /\ UNCHANGED snapshot
     /\ Silent
  \/ /\ At(t, "leave:roster")
     /\ SendRoster(groups[arg[t]], arg[t], roster[t])
     /\ \/ reply[t].freed # {} /\ Continue(t, "leave:getlocks")
        \/ reply[t].freed = {} /\ Return(t)
  \/ ReadLocks(t, "leave:getlocks", "leave:locks", DOMAIN roster[t])
  \/ BroadcastLocks(t, "leave:locks")

-----------------------------------------------------------------------------
Init ==
  /\ presence!Init
  /\ snapshot = [s \in Sessions |-> None]
  /\ groups   = [s \in Sessions |-> {}]
  /\ pc       = [t \in Threads |-> "idle"]
  /\ arg      = [t \in Threads |-> None]
  /\ frames   = [t \in Threads |-> None]
  /\ roster   = [t \in Threads |-> presence!NoRoster]
  /\ shown    = [c \in Connections |->
                   [frames |-> None, roster |-> presence!NoRoster, locks |-> {}]]
  /\ missed   = [c \in Connections |-> {}]

Start(t, method, s) ==
  /\ Goto(t, method)
  /\ arg' = [arg EXCEPT ![t] = s]
  /\ presence!Forget(t)
  /\ UNCHANGED <<snapshot, frames, roster, shown>>

\* A client invokes a hub method; JoinSession and PushRdl name its session. Both
\* React screens join once per connection, and before anything else: the others
\* wait for `ready`, or fail, or are queued behind the JoinSession in flight.
Invoke(c) ==
  /\ At(Call(c), "idle")
  /\ Alive(c)
  /\ \E m \in Methods :
       /\ m = "join" <=> c \notin groups[Watches[c]]
       /\ Start(Call(c), m, IF m \in {"join", "push"} THEN Watches[c] ELSE None)
  /\ UNCHANGED <<groups, missed>>

\* The connection is lost or closed: nothing sent to a group reaches it any more.
LoseConnection(c) ==
  /\ Alive(c)
  /\ Start(Disconnect(c), "leave", None)
  /\ groups' = [s \in Sessions |-> groups[s] \ {c}]
  /\ missed' = [missed EXCEPT ![c] = {}]

Step(t) ==
  \/ \E s \in Sessions : s = arg[t] /\ JoinSession(t, s)
  \/ PushRdl(t) \/ UpdateSelection(t)
  \/ ClaimElement(t) \/ ReleaseElement(t) \/ OnDisconnected(t)

Quiescent == \A t \in Threads : pc[t] \in {"idle", "gone"}

\* Every connection is gone.
Idle ==
  /\ Quiescent
  /\ \A c \in Connections : ~Alive(c)
  /\ UNCHANGED vars

Next ==
  \/ \E c \in Connections : Invoke(c) \/ LoseConnection(c)
  \/ \E t \in Threads : Step(t)
  \/ Idle

Spec == Init /\ [][Next]_vars

-----------------------------------------------------------------------------
(* Properties                                                              *)

\* Every variable stays within its type.
TypeOK ==
  LET Rosters == UNION {[m -> SUBSET Elements] : m \in SUBSET Connections}
      Locks   == SUBSET (Elements \X Connections)
  IN
  /\ session   \in [Connections -> Sessions \cup {None}]
  /\ selection \in [Connections -> SUBSET Elements]
  /\ holder    \in [Sessions -> [Elements -> Connections \cup {None}]]
  /\ snapshot  \in [Sessions -> Frames \cup {None}]
  /\ groups    \in [Sessions -> SUBSET Connections]
  /\ arg       \in [Threads -> Sessions \cup {None}]
  /\ frames    \in [Threads -> Frames \cup {None}]
  /\ roster    \in [Threads -> Rosters]
  /\ shown     \in [Connections ->
                    [frames : Frames \cup {None}, roster : Rosters, locks : Locks]]
  /\ missed    \in [Connections -> SUBSET Kinds]

HasLeft(c) == pc[Disconnect(c)] \notin {"idle", "leave"}

\* Locks live only as long as the connection that owns them: once Leave has run
\* for a connection it holds no lock and gets none, whatever invocation of it
\* was in flight (ReportPreviewHub.cs:18-20).
NoGhostLocks ==
  \A s \in Sessions, e \in Elements, c \in Connections :
    holder[s][e] = c => ~HasLeft(c)

\* The clients in the groups, and what they miss once the hub is at rest.
Missing(kind) ==
  {c \in Connections : /\ Alive(c)
                       /\ c \in groups[Watches[c]]
                       /\ kind \in missed[c]}

\* Nobody is left behind: whoever is in a session when its snapshot is stored, or
\* joins it later, is sent that snapshot, and every change of a roster is announced
\* to everybody in the session (ReportPreviewHub.cs:63-76).
NoMissedUpdates ==
  Quiescent => /\ \A c \in Missing("frames") : snapshot[Watches[c]] = None
               /\ Missing("roster") = {}

\* Every lock that is granted is announced to everybody in the session and, unless a
\* connection is lost, every release as well, in whatever order the lists of several
\* handlers are read and sent (ReportPreviewHub.cs:46, 150-186).
NoMissedLocks ==
  Quiescent => /\ Missing("granted") = {}
               /\ (\A c \in Connections : Alive(c)) => Missing("locks") = {}
=============================================================================
