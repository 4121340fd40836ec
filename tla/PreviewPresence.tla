--------------------------- MODULE PreviewPresence ---------------------------
(***************************************************************************)
(* InMemoryReportPreviewPresence: presence and advisory soft-locks of the  *)
(* live report preview, shared by every hub connection of the process.     *)
(*                                                                         *)
(* Two ConcurrentDictionaries are read and written without a lock:         *)
(*   sessions   _sessions           session id    -> SessionState instance *)
(*   index      _connectionSession  connection id -> session id            *)
(* Each SessionState instance has a gate; participants (with what they     *)
(* have selected) and locks of an instance are only touched under it.      *)
(*                                                                         *)
(* Every access to a concurrent dictionary is a step of its own. What a    *)
(* thread does under a gate between two such accesses is merged into one   *)
(* of them: no other thread can see it. So a gate is seen held only where  *)
(* a critical section has two accesses, in Join and in Leave.              *)
(*                                                                         *)
(* Threads: SignalR runs one hub invocation of a connection at a time, and *)
(* runs OnDisconnected once, possibly while an invocation is in flight;    *)
(* after that it starts no invocation of the connection any more.          *)
(***************************************************************************)
EXTENDS Naturals

CONSTANTS
  Connections,    \* SignalR connection ids
  Sessions,       \* preview session ids
  Elements,       \* report element ids
  JoinTargets,    \* JoinTargets[c]: the sessions connection c may ask to join
  Calls,          \* bound: the operations hub invocations perform
  MaxInstances,   \* bound on the SessionState objects ever created
  None            \* C#'s null

\* Each connection has one invocation at a time and one OnDisconnected.
Threads       == Connections \X {"call", "leave"}
Call(c)       == <<c, "call">>
Disconnect(c) == <<c, "leave">>

ASSUME PresenceAssumption ==
  /\ JoinTargets \in [Connections -> SUBSET Sessions]
  /\ Calls \subseteq {"join", "select", "claim", "release", "locks", "roster"}
  /\ MaxInstances \in Nat
  /\ Elements # {}       \* a claim or a release names an element
  /\ None \notin Connections \cup Sessions \cup Nat \cup Threads

\* What the React clients do: a connection joins one session in its lifetime.
OneSessionEach ==
  \A c \in Connections : \A s1, s2 \in JoinTargets[c] : s1 = s2

VARIABLES
  sessions,       \* sessions[s]: the instance mapped to session s, or None
  index,          \* index[c]: the session c is tracked in, or None
  created,        \* number of SessionState objects created so far
  participants,   \* participants[i]: keys of instance i's Participants
  selected,       \* selected[i][c]: SelectedElementIds of participant c
  locks,          \* locks[i][e]: ConnectionId of the lock on e, or None
  gate,           \* gate[i]: the thread inside instance i's gate, or None
  op,             \* op[t]: the operation thread t is executing
  pc,             \* pc[t]: the access thread t makes next
  sess,           \* sess[t]: the session id t works on
  inst,           \* inst[t]: the instance t has looked up
  reply           \* reply[t]: what t's last operation returned

maps  == <<sessions, index, created>>
state == <<participants, selected, locks>>
local == <<op, pc, sess, inst>>
vars  == <<maps, state, gate, local, reply>>

Instances == 1 .. MaxInstances

Mutations == {"select", "claim", "release"}
Queries   == {"locks", "roster"}
Ops       == {"none", "join", "leave"} \cup Mutations \cup Queries

\* "idle": no operation; "index": about to read index; "session": about to look
\* up the session; "lock": about to enter the gate; "inside": holds the gate.
Steps == {"idle", "index", "session", "lock", "inside", "done"}

Roster(members, selections) == [c \in members |-> selections[c]]
NoRoster   == [c \in {} |-> {}]
LocksIn(i) == {l \in Elements \X Connections : locks[i][l[1]] = l[2]}

Init ==
  /\ sessions     = [s \in Sessions |-> None]
  /\ index        = [c \in Connections |-> None]
  /\ created      = 0
  /\ participants = [i \in Instances |-> {}]
  /\ selected     = [i \in Instances |-> [c \in Connections |-> {}]]
  /\ locks        = [i \in Instances |-> [e \in Elements |-> None]]
  /\ gate         = [i \in Instances |-> None]
  /\ op           = [t \in Threads |-> "none"]
  /\ pc           = [t \in Threads |-> "idle"]
  /\ sess         = [t \in Threads |-> None]
  /\ inst         = [t \in Threads |-> None]
  /\ reply        = [t \in Threads |-> None]

-----------------------------------------------------------------------------
(* Calls and returns                                                       *)

Goto(t, step) == pc' = [pc EXCEPT ![t] = step]

\* The thread is back in the hub, with the value its operation returned.
Return(t, value) ==
  /\ op'    = [op EXCEPT ![t] = "none"]
  /\ pc'    = [pc EXCEPT ![t] = IF op[t] = "leave" THEN "done" ELSE "idle"]
  /\ sess'  = [sess EXCEPT ![t] = None]
  /\ inst'  = [inst EXCEPT ![t] = None]
  /\ reply' = [reply EXCEPT ![t] = value]

Begin(t, o, s, step) ==
  /\ op'    = [op EXCEPT ![t] = o]
  /\ sess'  = [sess EXCEPT ![t] = s]
  /\ reply' = [reply EXCEPT ![t] = None]
  /\ Goto(t, step)
  /\ UNCHANGED <<maps, state, gate, inst>>

\* A connected client invokes a hub method, which calls one of the operations.
\* An element or a selection argument is picked where the operation reads it.
BeginCall(c) ==
  /\ pc[Call(c)] = "idle"
  /\ pc[Disconnect(c)] = "idle"
  /\ \E o \in Calls :
       \/ o \in Mutations /\ Begin(Call(c), o, None, "index")
       \/ /\ o \notin Mutations
          /\ \E s \in JoinTargets[c] : Begin(Call(c), o, s, "session")

\* The connection is lost: SignalR runs OnDisconnected, which calls Leave.
BeginLeave(c) ==
  /\ pc[Disconnect(c)] = "idle"
  /\ Begin(Disconnect(c), "leave", None, "index")

-----------------------------------------------------------------------------
(* TryGetSession and the look-ups Leave and the queries make               *)

\* What an operation returns when its connection or session is not found.
Untracked(o) ==
  CASE o \in {"select", "roster"} -> [roster |-> NoRoster]
    [] o = "claim"   -> [holder |-> None]
    [] o = "release" -> [released |-> FALSE]
    [] o = "locks"   -> [locks |-> {}]
    [] o = "leave"   -> [left |-> None, survivors |-> NoRoster, freed |-> {}]

\* _connectionSession.TryGetValue
ReadIndex(t) ==
  /\ pc[t] = "index"
  /\ \/ /\ index[t[1]] # None
        /\ sess' = [sess EXCEPT ![t] = index[t[1]]]
        /\ Goto(t, "session")
        /\ UNCHANGED <<op, inst, reply>>
     \/ /\ index[t[1]] = None
        /\ Return(t, Untracked(op[t]))
  /\ UNCHANGED <<maps, state, gate>>

\* _sessions.TryGetValue
ReadSession(t) ==
  /\ pc[t] = "session"
  /\ op[t] # "join"
  /\ \/ /\ sessions[sess[t]] # None
        /\ inst' = [inst EXCEPT ![t] = sessions[sess[t]]]
        /\ Goto(t, "lock")
        /\ UNCHANGED <<op, sess, reply>>
     \/ /\ sessions[sess[t]] = None
        /\ Return(t, Untracked(op[t]))
  /\ UNCHANGED <<maps, state, gate>>

-----------------------------------------------------------------------------
(* Join                                                                    *)

\* _sessions.GetOrAdd: another thread may collect the instance before the gate.
JoinGetOrAdd(t) ==
  /\ pc[t] = "session"
  /\ op[t] = "join"
  /\ \/ /\ sessions[sess[t]] # None
        /\ inst' = [inst EXCEPT ![t] = sessions[sess[t]]]
        /\ UNCHANGED <<sessions, created>>
     \/ /\ sessions[sess[t]] = None
        /\ created < MaxInstances
        /\ created'  = created + 1
        /\ sessions' = [sessions EXCEPT ![sess[t]] = created + 1]
        /\ inst'     = [inst EXCEPT ![t] = created + 1]
  /\ Goto(t, "lock")
  /\ UNCHANGED <<index, state, gate, op, sess, reply>>

\* Faulty variant: the instance looked up before the gate is trusted inside it.
JoinCheckTrusts(t) ==
  /\ pc[t] = "lock"
  /\ op[t] = "join"
  /\ gate[inst[t]] = None
  /\ gate' = [gate EXCEPT ![inst[t]] = t]
  /\ Goto(t, "inside")
  /\ UNCHANGED <<maps, state, op, sess, inst, reply>>

\* Faulty variant: the retry takes the gate of the same dead instance again.
JoinCheckSpins(t) ==
  /\ pc[t] = "lock"
  /\ op[t] = "join"
  /\ gate[inst[t]] = None
  /\ \/ /\ sessions[sess[t]] = inst[t]
        /\ gate' = [gate EXCEPT ![inst[t]] = t]
        /\ Goto(t, "inside")
     \/ /\ sessions[sess[t]] # inst[t]
        /\ Goto(t, "lock")
        /\ UNCHANGED gate
  /\ UNCHANGED <<maps, state, op, sess, inst, reply>>

\* Under the gate: is the instance still the mapped one? Otherwise start over.
JoinCheck(t) ==
  /\ pc[t] = "lock"
  /\ op[t] = "join"
  /\ gate[inst[t]] = None
  /\ \/ /\ sessions[sess[t]] = inst[t]
        /\ gate' = [gate EXCEPT ![inst[t]] = t]
        /\ Goto(t, "inside")
        /\ UNCHANGED inst
     \/ /\ sessions[sess[t]] # inst[t]
        /\ Goto(t, "session")
        /\ inst' = [inst EXCEPT ![t] = None]
        /\ UNCHANGED gate
  /\ UNCHANGED <<maps, state, op, sess, reply>>

\* Write the participant and the reverse index, read the roster, leave the gate.
JoinPublish(t) ==
  LET c == t[1]  i == inst[t] IN
  /\ pc[t] = "inside"
  /\ op[t] = "join"
  /\ participants' = [participants EXCEPT ![i] = @ \cup {c}]
  /\ selected'     = [selected EXCEPT ![i][c] = {}]
  /\ index'        = [index EXCEPT ![c] = sess[t]]
  /\ gate'         = [gate EXCEPT ![i] = None]
  /\ Return(t, [roster |-> Roster(participants'[i], selected'[i])])
  /\ UNCHANGED <<sessions, created, locks>>

-----------------------------------------------------------------------------
(* The gated bodies of UpdateSelection, ClaimElement and ReleaseElement    *)

Enter(t, o) ==
  /\ pc[t] = "lock"
  /\ op[t] = o
  /\ gate[inst[t]] = None
  /\ UNCHANGED <<maps, gate>>

UpdateSelection(t) ==
  LET c == t[1]  i == inst[t] IN
  /\ Enter(t, "select")
  /\ \/ /\ c \in participants[i]
        /\ \E elements \in SUBSET Elements :
             selected' = [selected EXCEPT ![i][c] = elements]
     \/ /\ c \notin participants[i]
        /\ UNCHANGED selected
  /\ UNCHANGED <<participants, locks>>
  /\ Return(t, [roster |-> Roster(participants[i], selected'[i])])

\* Faulty variant: a claim does not ask whether the caller is still present.
ClaimElementUnchecked(t) ==
  LET c == t[1]  i == inst[t] IN
  /\ Enter(t, "claim")
  /\ \E e \in Elements :
       \/ /\ locks[i][e] \notin {None, c}
          /\ Return(t, [holder |-> locks[i][e]])
          /\ UNCHANGED locks
       \/ /\ locks[i][e] \in {None, c}
          /\ locks' = [locks EXCEPT ![i][e] = c]
          /\ Return(t, [holder |-> c])
  /\ UNCHANGED <<participants, selected>>

ClaimElement(t) ==
  LET c == t[1]  i == inst[t] IN
  /\ Enter(t, "claim")
  /\ \/ /\ c \notin participants[i]
        /\ Return(t, [holder |-> None])
        /\ UNCHANGED locks
     \/ \E e \in Elements :
          /\ c \in participants[i]
          /\ locks[i][e] \notin {None, c}
          /\ Return(t, [holder |-> locks[i][e]])
          /\ UNCHANGED locks
     \/ \E e \in Elements :
          /\ c \in participants[i]
          /\ locks[i][e] \in {None, c}
          /\ locks' = [locks EXCEPT ![i][e] = c]
          /\ Return(t, [holder |-> c])
  /\ UNCHANGED <<participants, selected>>

\* Faulty variant: anybody's lock is released.
ReleaseElementOfAnyone(t) ==
  LET i == inst[t] IN
  /\ Enter(t, "release")
  /\ \E e \in Elements :
       /\ locks' = [locks EXCEPT ![i][e] = None]
       /\ Return(t, [released |-> locks[i][e] # None])
  /\ UNCHANGED <<participants, selected>>

ReleaseElement(t) ==
  LET c == t[1]  i == inst[t] IN
  /\ Enter(t, "release")
  /\ \E e \in Elements :
       \/ /\ locks[i][e] = c
          /\ locks' = [locks EXCEPT ![i][e] = None]
          /\ Return(t, [released |-> TRUE])
       \/ /\ locks[i][e] # c
          /\ Return(t, [released |-> FALSE])
          /\ UNCHANGED locks
  /\ UNCHANGED <<participants, selected>>

\* GetLocks and GetParticipants
Query(t) ==
  LET i == inst[t] IN
  /\ \/ Enter(t, "locks") /\ Return(t, [locks |-> LocksIn(i)])
     \/ Enter(t, "roster") /\ Return(t, [roster |-> Roster(participants[i], selected[i])])
  /\ UNCHANGED state

-----------------------------------------------------------------------------
(* Leave                                                                   *)

\* What Leave returns for a connection it found.
LeaveReply(t, i) ==
  reply' = [reply EXCEPT ![t] =
              [left |-> sess[t],
               survivors |-> Roster(participants'[i], selected'[i]),
               freed |-> {e \in Elements : locks[i][e] = t[1]}]]

\* Faulty variant: the reverse index keeps the connection.
LeaveDropKeepsIndex(t) ==
  LET c == t[1]  i == inst[t] IN
  /\ pc[t] = "lock"
  /\ op[t] = "leave"
  /\ gate[i] = None
  /\ gate'         = [gate EXCEPT ![i] = t]
  /\ participants' = [participants EXCEPT ![i] = @ \ {c}]
  /\ selected'     = [selected EXCEPT ![i][c] = {}]
  /\ locks'        = [locks EXCEPT ![i] =
                        [e \in Elements |-> IF @[e] = c THEN None ELSE @[e]]]
  /\ LeaveReply(t, i)
  /\ Goto(t, "inside")
  /\ UNCHANGED <<maps, op, sess, inst>>

\* Faulty variant: only the first of the leaver's locks is released.
LeaveDropFreesOne(t) ==
  LET c == t[1]  i == inst[t] IN
  /\ pc[t] = "lock"
  /\ op[t] = "leave"
  /\ gate[i] = None
  /\ gate'         = [gate EXCEPT ![i] = t]
  /\ index'        = [index EXCEPT ![c] = None]
  /\ participants' = [participants EXCEPT ![i] = @ \ {c}]
  /\ selected'     = [selected EXCEPT ![i][c] = {}]
  /\ \/ /\ c \notin {locks[i][e] : e \in Elements}
        /\ UNCHANGED locks
     \/ \E first \in {e \in Elements : locks[i][e] = c} :
          locks' = [locks EXCEPT ![i][first] = None]
  /\ LeaveReply(t, i)
  /\ Goto(t, "inside")
  /\ UNCHANGED <<sessions, created, op, sess, inst>>

\* Under the gate: drop the reverse index, the participant and all its locks.
LeaveDrop(t) ==
  LET c == t[1]  i == inst[t] IN
  /\ pc[t] = "lock"
  /\ op[t] = "leave"
  /\ gate[i] = None
  /\ gate'         = [gate EXCEPT ![i] = t]
  /\ index'        = [index EXCEPT ![c] = None]
  /\ participants' = [participants EXCEPT ![i] = @ \ {c}]
  /\ selected'     = [selected EXCEPT ![i][c] = {}]
  /\ locks'        = [locks EXCEPT ![i] =
                        [e \in Elements |-> IF @[e] = c THEN None ELSE @[e]]]
  /\ LeaveReply(t, i)
  /\ Goto(t, "inside")
  /\ UNCHANGED <<sessions, created, op, sess, inst>>

\* Faulty variant: emptiness is judged before the leaver is removed.
LeaveCollectEarly(t) ==
  LET i == inst[t] IN
  /\ pc[t] = "inside"
  /\ op[t] = "leave"
  /\ sessions' = IF participants[i] \cup {t[1]} = {} /\ sessions[sess[t]] = i
                 THEN [sessions EXCEPT ![sess[t]] = None]
                 ELSE sessions
  /\ gate' = [gate EXCEPT ![i] = None]
  /\ Return(t, reply[t])
  /\ UNCHANGED <<index, created, state>>

\* Garbage-collect the session if it is empty now, and leave the gate.
LeaveCollect(t) ==
  LET i == inst[t] IN
  /\ pc[t] = "inside"
  /\ op[t] = "leave"
  /\ sessions' = IF participants[i] = {} /\ sessions[sess[t]] = i
                 THEN [sessions EXCEPT ![sess[t]] = None]
                 ELSE sessions
  /\ gate' = [gate EXCEPT ![i] = None]
  /\ Return(t, reply[t])
  /\ UNCHANGED <<index, created, state>>

-----------------------------------------------------------------------------
Step(t) ==
  \/ ReadIndex(t) \/ ReadSession(t)
  \/ JoinGetOrAdd(t) \/ JoinCheck(t) \/ JoinPublish(t)
  \/ UpdateSelection(t) \/ ClaimElement(t) \/ ReleaseElement(t) \/ Query(t)
  \/ LeaveDrop(t) \/ LeaveCollect(t)

\* Every connection is gone and every call has returned: the process idles.
Idle ==
  /\ \A c \in Connections : pc[Disconnect(c)] = "done" /\ pc[Call(c)] = "idle"
  /\ UNCHANGED vars

Next ==
  \/ \E c \in Connections : BeginCall(c) \/ BeginLeave(c)
  \/ \E t \in Threads : Step(t)
  \/ Idle

Spec == Init /\ [][Next]_vars

\* Every thread is scheduled, and a thread that waits for a gate that is free again
\* and again gets it: .NET's Monitor does not let a waiter starve.
FairSpec == Spec /\ \A t \in Threads : SF_vars(Step(t))

-----------------------------------------------------------------------------
(* Properties                                                              *)

\* Every variable stays within its type.
TypeOK ==
  /\ sessions     \in [Sessions -> Instances \cup {None}]
  /\ index        \in [Connections -> Sessions \cup {None}]
  /\ created      \in 0 .. MaxInstances
  /\ participants \in [Instances -> SUBSET Connections]
  /\ selected     \in [Instances -> [Connections -> SUBSET Elements]]
  /\ locks        \in [Instances -> [Elements -> Connections \cup {None}]]
  /\ gate         \in [Instances -> Threads \cup {None}]
  /\ op           \in [Threads -> Ops]
  /\ pc           \in [Threads -> Steps]
  /\ sess         \in [Threads -> Sessions \cup {None}]
  /\ inst         \in [Threads -> Instances \cup {None}]
  /\ DOMAIN reply = Threads

Mapped(i) == \E s \in Sessions : sessions[s] = i

\* Nobody writes into an orphaned SessionState: an instance the session map no
\* longer holds has no participants and no locks (the retry loop of Join, the
\* participant checks of the mutations).
NoOrphanWrites ==
  \A i \in Instances :
    ~Mapped(i) => participants[i] = {} /\ \A e \in Elements : locks[i][e] = None

\* A lock never outlives its holder's participation, even when the claim that
\* took it raced the disconnect that released the holder's locks.
LockHolderIsPresent ==
  \A i \in Instances, e \in Elements :
    locks[i][e] # None => locks[i][e] \in participants[i]

\* A mutation never finds a connection in one map but not in the other: the
\* reverse index and the participant lists agree at every step.
IndexAgrees ==
  \A c \in Connections, i \in Instances :
    c \in participants[i] <=> index[c] # None /\ sessions[index[c]] = i

\* Leave drops a session once it is empty: an empty session that stays mapped
\* is being joined or collected right now.
EmptySessionsAreCollected ==
  \A s \in Sessions :
    (sessions[s] # None /\ participants[sessions[s]] = {}) =>
       \E t \in Threads : /\ op[t] \in {"join", "leave"}
                          /\ pc[t] \in {"lock", "inside"}
                          /\ inst[t] = sessions[s]

\* Once Leave has dropped its connection, the connection is in no session.
LeaveIsComplete ==
  [][\A t \in Threads :
       (pc[t] = "lock" /\ op[t] = "leave" /\ pc'[t] = "inside") =>
          \A i \in Instances :
             t[1] \notin participants'[i] /\ \A e \in Elements : locks'[i][e] # t[1]]_vars

\* Every operation returns: nobody waits for a gate for ever, and the retry loop
\* of Join ends.
EveryOperationReturns ==
  \A t \in Threads : pc[t] \notin {"idle", "done"} ~> pc[t] \in {"idle", "done"}

\* The implementation keeps the promises of the registry.
Registry == INSTANCE PresenceRegistry WITH
  session   <- index,
  selection <- [c \in Connections |->
                  IF index[c] = None THEN {} ELSE selected[sessions[index[c]]][c]],
  holder    <- [s \in Sessions |->
                  IF sessions[s] = None THEN [e \in Elements |-> None]
                  ELSE locks[sessions[s]]]

ImplementsRegistry == Registry!Spec
=============================================================================
