----------------------- MODULE PreviewPresence_proofs -----------------------
(***************************************************************************)
(* Proofs about PreviewPresence for any number of connections, sessions,   *)
(* elements and SessionState instances.                                    *)
(***************************************************************************)
EXTENDS PreviewPresence, TLAPS

\* What a thread's program counter says about its local state and the gates.
ThreadShape ==
  \A t \in Threads :
    /\ pc[t] \in {"session", "lock", "inside"} => sess[t] \in Sessions
    /\ pc[t] \in {"lock", "inside"} => inst[t] \in Instances
    /\ pc[t] = "inside" => op[t] \in {"join", "leave"} /\ gate[inst[t]] = t

GateHeldInside ==
  \A i \in Instances :
    gate[i] # None => pc[gate[i]] = "inside" /\ inst[gate[i]] = i

\* Instances are handed out in order: those beyond created are untouched.
FreshIsUnused ==
  /\ \A s \in Sessions : sessions[s] # None => sessions[s] <= created
  /\ \A i \in Instances : i > created => participants[i] = {} /\ gate[i] = None
  /\ \A t \in Threads : inst[t] # None => inst[t] <= created

\* A join that holds the gate writes into the mapped instance.
JoinIsMapped ==
  \A t \in Threads :
    op[t] = "join" /\ pc[t] = "inside" => sessions[sess[t]] = inst[t]

ParticipantsAreMapped ==
  \A i \in Instances : participants[i] # {} => Mapped(i)

IInv ==
  /\ TypeOK
  /\ ThreadShape
  /\ GateHeldInside
  /\ FreshIsUnused
  /\ JoinIsMapped
  /\ ParticipantsAreMapped
  /\ LockHolderIsPresent

-----------------------------------------------------------------------------
(* Type correctness                                                        *)

\* A thread is a connection with the role it plays.
LEMMA ThreadFacts ==
  ASSUME NEW t \in Threads
  PROVE  t[1] \in Connections
  BY DEF Threads

\* null is not a SessionState.
LEMMA NoneIsNoInstance == None \notin Instances
  BY PresenceAssumption DEF Instances

\* null is not a thread either.
LEMMA NoneIsNoThread == None \notin Threads
  BY PresenceAssumption DEF Threads

\* Initially every variable has its type.
LEMMA InitTypeOK == Init => TypeOK
  BY PresenceAssumption DEF Init, TypeOK, Instances, Ops, Steps

\* Starting an operation and returning from one keep the local variables typed.
LEMMA BeginTypeOK ==
  ASSUME TypeOK, NEW t \in Threads, NEW o \in Ops, NEW s \in Sessions \cup {None},
         NEW step \in Steps, Begin(t, o, s, step)
  PROVE  TypeOK'
  BY DEF TypeOK, Begin, Goto, maps, state, Ops, Steps, Threads

\* Returning keeps the local variables typed.
LEMMA ReturnTypes ==
  ASSUME TypeOK, NEW t \in Threads, NEW v, Return(t, v)
  PROVE  /\ op' \in [Threads -> Ops]
         /\ pc' \in [Threads -> Steps]
         /\ sess' \in [Threads -> Sessions \cup {None}]
         /\ inst' \in [Threads -> Instances \cup {None}]
         /\ DOMAIN reply' = Threads
  BY DEF TypeOK, Return, Ops, Steps

\* Every step of a thread keeps the types.
LEMMA StepTypeOK ==
  ASSUME TypeOK, ThreadShape, NEW t \in Threads, Step(t)
  PROVE  TypeOK'
<1> USE ThreadFacts, PresenceAssumption
<1>1. CASE ReadIndex(t)
  <2>1. CASE index[t[1]] = None
    BY <1>1, <2>1, ReturnTypes DEF ReadIndex, TypeOK, maps, state
  <2>2. CASE index[t[1]] # None
    <3>1. /\ sess' = [sess EXCEPT ![t] = index[t[1]]]
          /\ pc' = [pc EXCEPT ![t] = "session"]
          /\ UNCHANGED <<maps, state, gate, op, inst, reply>>
      BY <1>1, <2>2 DEF ReadIndex, Goto
    <3>2. sess' \in [Threads -> Sessions \cup {None}]
      BY <3>1 DEF TypeOK
    <3>3. pc' \in [Threads -> Steps]
      BY <3>1 DEF TypeOK, Steps
    <3> QED BY <3>1, <3>2, <3>3 DEF TypeOK, maps, state
  <2> QED BY <2>1, <2>2
<1>2. CASE ReadSession(t)
  <2>1. CASE sessions[sess[t]] = None
    BY <1>2, <2>1, ReturnTypes DEF ReadSession, TypeOK, maps, state
  <2>2. CASE sessions[sess[t]] # None
    <3>0. sess[t] \in Sessions
      BY <1>2 DEF ReadSession, ThreadShape
    <3>1. inst' \in [Threads -> Instances \cup {None}]
      BY <1>2, <2>2, <3>0 DEF ReadSession, TypeOK, Return
    <3>2. pc' \in [Threads -> Steps]
      BY <1>2, <2>2 DEF ReadSession, TypeOK, Goto, Steps
    <3> QED BY <1>2, <2>2, <3>1, <3>2 DEF ReadSession, TypeOK, maps, state
  <2> QED BY <2>1, <2>2
<1>3. CASE JoinGetOrAdd(t)
  <2>1. sess[t] \in Sessions
    BY <1>3 DEF JoinGetOrAdd, ThreadShape
  <2>2. pc' \in [Threads -> Steps]
    BY <1>3 DEF JoinGetOrAdd, TypeOK, Goto, Steps
  <2>3. CASE sessions[sess[t]] = None
    <3>1. created + 1 \in Instances /\ created' \in 0 .. MaxInstances
      BY <1>3, <2>3 DEF JoinGetOrAdd, TypeOK, Instances
    <3>2. sessions' \in [Sessions -> Instances \cup {None}]
      BY ZenonT(60), <1>3, <2>1, <2>3, <3>1 DEF JoinGetOrAdd, TypeOK
    <3>3. inst' \in [Threads -> Instances \cup {None}]
      BY ZenonT(60), <1>3, <2>3, <3>1 DEF JoinGetOrAdd, TypeOK
    <3> QED BY <1>3, <2>2, <3>1, <3>2, <3>3 DEF JoinGetOrAdd, TypeOK, state
  <2>4. CASE sessions[sess[t]] # None
    <3>1. inst' \in [Threads -> Instances \cup {None}]
      BY <1>3, <2>1, <2>4 DEF JoinGetOrAdd, TypeOK
    <3> QED BY <1>3, <2>2, <2>4, <3>1 DEF JoinGetOrAdd, TypeOK, state
  <2> QED BY <2>3, <2>4
<1>4. CASE JoinCheck(t)
  <2>1. gate' \in [Instances -> Threads \cup {None}]
    BY <1>4 DEF JoinCheck, TypeOK
  <2>2. inst' \in [Threads -> Instances \cup {None}]
    BY <1>4 DEF JoinCheck, TypeOK
  <2>3. pc' \in [Threads -> Steps]
    BY <1>4 DEF JoinCheck, TypeOK, Goto, Steps
  <2> QED BY <1>4, <2>1, <2>2, <2>3 DEF JoinCheck, TypeOK, maps, state
<1>5. CASE JoinPublish(t)
  <2>1. Return(t, [roster |-> Roster(participants'[inst[t]], selected'[inst[t]])])
    BY <1>5 DEF JoinPublish
  <2>2. inst[t] \in Instances /\ sess[t] \in Sessions
    BY <1>5 DEF JoinPublish, ThreadShape
  <2>3. participants' \in [Instances -> SUBSET Connections]
    BY <1>5, <2>2 DEF JoinPublish, TypeOK
  <2>4. selected' \in [Instances -> [Connections -> SUBSET Elements]]
    BY <1>5, <2>2 DEF JoinPublish, TypeOK
  <2>5. index' \in [Connections -> Sessions \cup {None}]
    BY <1>5, <2>2 DEF JoinPublish, TypeOK
  <2> QED BY <1>5, <2>1, <2>2, <2>3, <2>4, <2>5, ReturnTypes DEF JoinPublish, TypeOK
<1>6. CASE UpdateSelection(t)
  <2>1. Return(t, [roster |-> Roster(participants[inst[t]], selected'[inst[t]])])
    BY <1>6 DEF UpdateSelection
  <2>2. inst[t] \in Instances
    BY <1>6 DEF UpdateSelection, Enter, ThreadShape
  <2>3. selected' \in [Instances -> [Connections -> SUBSET Elements]]
    <3>1. CASE t[1] \in participants[inst[t]]
      <4>1. PICK elements \in SUBSET Elements :
              selected' = [selected EXCEPT ![inst[t]][t[1]] = elements]
        BY <1>6, <3>1 DEF UpdateSelection
      <4> QED BY <2>2, <4>1 DEF TypeOK
    <3>2. CASE t[1] \notin participants[inst[t]]
      BY <1>6, <3>2 DEF UpdateSelection, TypeOK
    <3> QED BY <3>1, <3>2
  <2> QED BY <1>6, <2>1, <2>3, ReturnTypes DEF UpdateSelection, Enter, TypeOK, maps
<1>7. CASE ClaimElement(t)
  <2>1. PICK v : Return(t, v)
    BY <1>7 DEF ClaimElement
  <2>2. inst[t] \in Instances
    BY <1>7 DEF ClaimElement, Enter, ThreadShape
  <2>3. locks' \in [Instances -> [Elements -> Connections \cup {None}]]
    <3>1. CASE UNCHANGED locks
      BY <3>1 DEF TypeOK
    <3>2. CASE \E e \in Elements : locks' = [locks EXCEPT ![inst[t]][e] = t[1]]
      BY <2>2, <3>2 DEF TypeOK
    <3> QED BY <1>7, <3>1, <3>2 DEF ClaimElement
  <2> QED BY <1>7, <2>1, <2>3, ReturnTypes DEF ClaimElement, Enter, TypeOK, maps
<1>8. CASE ReleaseElement(t)
  <2>1. PICK v : Return(t, v)
    BY <1>8 DEF ReleaseElement
  <2>2. inst[t] \in Instances
    BY <1>8 DEF ReleaseElement, Enter, ThreadShape
  <2>3. locks' \in [Instances -> [Elements -> Connections \cup {None}]]
    <3>1. CASE UNCHANGED locks
      BY <3>1 DEF TypeOK
    <3>2. CASE \E e \in Elements : locks' = [locks EXCEPT ![inst[t]][e] = None]
      BY <2>2, <3>2 DEF TypeOK
    <3> QED BY <1>8, <3>1, <3>2 DEF ReleaseElement
  <2> QED BY <1>8, <2>1, <2>3, ReturnTypes DEF ReleaseElement, Enter, TypeOK, maps
<1>9. CASE Query(t)
  <2>1. PICK v : Return(t, v)
    BY <1>9 DEF Query
  <2> QED BY <1>9, <2>1, ReturnTypes DEF Query, Enter, TypeOK, maps, state
<1>10. CASE LeaveDrop(t)
  <2>1. inst[t] \in Instances
    BY <1>10 DEF LeaveDrop, LeaveReply, ThreadShape
  <2>2. participants' \in [Instances -> SUBSET Connections]
    BY <1>10, <2>1 DEF LeaveDrop, LeaveReply, TypeOK
  <2>3. selected' \in [Instances -> [Connections -> SUBSET Elements]]
    BY <1>10, <2>1 DEF LeaveDrop, LeaveReply, TypeOK
  <2>4. locks' \in [Instances -> [Elements -> Connections \cup {None}]]
    BY <1>10, <2>1 DEF LeaveDrop, LeaveReply, TypeOK
  <2> QED BY <1>10, <2>1, <2>2, <2>3, <2>4 DEF LeaveDrop, LeaveReply, TypeOK, Goto, Steps
<1>11. CASE LeaveCollect(t)
  <2>1. Return(t, reply[t])
    BY <1>11 DEF LeaveCollect
  <2>2. sessions' \in [Sessions -> Instances \cup {None}]
    BY <1>11 DEF LeaveCollect, TypeOK
  <2> QED BY <1>11, <2>1, <2>2, ReturnTypes DEF LeaveCollect, TypeOK, state
<1> QED
  BY <1>1, <1>2, <1>3, <1>4, <1>5, <1>6, <1>7, <1>8, <1>9, <1>10, <1>11 DEF Step

-----------------------------------------------------------------------------
(* The inductive invariant                                                 *)

\* Everything an initial state satisfies.
LEMMA InitIInv == Init => IInv
<1> SUFFICES ASSUME Init PROVE IInv
  OBVIOUS
<1>1. TypeOK
  BY InitTypeOK
<1>2. ThreadShape
  BY DEF Init, ThreadShape
<1>3. GateHeldInside
  BY DEF Init, GateHeldInside
<1>4. FreshIsUnused
  BY DEF Init, FreshIsUnused
<1>5. JoinIsMapped
  BY DEF Init, JoinIsMapped
<1>6. ParticipantsAreMapped
  BY DEF Init, ParticipantsAreMapped
<1>7. LockHolderIsPresent
  BY DEF Init, LockHolderIsPresent
<1> QED BY <1>1, <1>2, <1>3, <1>4, <1>5, <1>6, <1>7 DEF IInv

\* Starting an operation touches the calling thread's locals only.
LEMMA BeginIInv ==
  ASSUME IInv, NEW t \in Threads, pc[t] = "idle",
         NEW o \in Ops, NEW s \in Sessions \cup {None}, NEW step \in Steps,
         \/ step = "index"
         \/ step = "session" /\ s \in Sessions,
         Begin(t, o, s, step)
  PROVE  IInv'
<1> USE DEF IInv
<1>0. /\ op' = [op EXCEPT ![t] = o] /\ pc' = [pc EXCEPT ![t] = step]
      /\ sess' = [sess EXCEPT ![t] = s]
      /\ UNCHANGED <<sessions, index, created, participants, selected, locks, gate, inst>>
  BY DEF Begin, Goto, maps, state
<1>1. TypeOK'
  BY BeginTypeOK
<1>2. ThreadShape'
  BY <1>0 DEF TypeOK, ThreadShape
<1>3. GateHeldInside'
  BY <1>0 DEF TypeOK, GateHeldInside
<1>4. FreshIsUnused'
  BY <1>0 DEF FreshIsUnused
<1>5. JoinIsMapped'
  BY <1>0 DEF TypeOK, JoinIsMapped
<1>6. ParticipantsAreMapped'
  BY <1>0 DEF ParticipantsAreMapped, Mapped
<1>7. LockHolderIsPresent'
  BY <1>0 DEF LockHolderIsPresent
<1> QED BY <1>1, <1>2, <1>3, <1>4, <1>5, <1>6, <1>7

\* Returning clears the thread's locals; it must not hold a gate any more.
LEMMA ReturnShape ==
  ASSUME IInv, NEW t \in Threads, NEW v, Return(t, v),
         \/ gate' = gate /\ pc[t] # "inside"
         \/ pc[t] = "inside" /\ gate' = [gate EXCEPT ![inst[t]] = None]
  PROVE  ThreadShape' /\ GateHeldInside'
<1>1. /\ op' = [op EXCEPT ![t] = "none"]
      /\ pc' = [pc EXCEPT ![t] = pc'[t]] /\ pc'[t] \in {"idle", "done"}
      /\ sess' = [sess EXCEPT ![t] = None]
      /\ inst' = [inst EXCEPT ![t] = None]
  BY DEF Return, IInv, TypeOK
<1>2. ThreadShape'
  BY <1>1 DEF IInv, TypeOK, ThreadShape
<1>3. GateHeldInside'
  BY <1>1 DEF IInv, TypeOK, ThreadShape, GateHeldInside
<1> QED BY <1>2, <1>3

\* What every case of the step lemma has to show beside the types.
Shape == ThreadShape /\ GateHeldInside
Data  == FreshIsUnused /\ JoinIsMapped /\ ParticipantsAreMapped /\ LockHolderIsPresent

\* A step of thread t that leaves the shared maps and the session data alone.
LocalStep(t) ==
  /\ UNCHANGED <<sessions, created, participants, locks>>
  /\ \A u \in Threads \ {t} : /\ op'[u] = op[u] /\ pc'[u] = pc[u]
                              /\ sess'[u] = sess[u] /\ inst'[u] = inst[u]
  /\ gate' = gate
  /\ pc'[t] # "inside"
  /\ \/ inst'[t] \in {inst[t], None}
     \/ sess[t] \in Sessions /\ inst'[t] = sessions[sess[t]]

\* A step that only moves its own thread preserves what IInv says of the shared data.
LEMMA LocalData ==
  ASSUME IInv, NEW t \in Threads, LocalStep(t)
  PROVE  Data'
<1> USE DEF LocalStep
<1>1. FreshIsUnused'
  <2>1. \A s \in Sessions : sessions'[s] # None => sessions'[s] <= created'
    BY DEF IInv, FreshIsUnused
  <2>2. \A i \in Instances : i > created' => participants'[i] = {} /\ gate'[i] = None
    BY PresenceAssumption DEF IInv, FreshIsUnused, Instances, TypeOK
  <2>3. \A u \in Threads : inst'[u] # None => inst'[u] <= created'
    BY DEF IInv, FreshIsUnused
  <2> QED BY <2>1, <2>2, <2>3 DEF FreshIsUnused
<1>2. JoinIsMapped'
  BY DEF IInv, JoinIsMapped
<1>3. ParticipantsAreMapped'
  BY DEF IInv, ParticipantsAreMapped, Mapped
<1>4. LockHolderIsPresent'
  BY DEF IInv, LockHolderIsPresent
<1> QED BY <1>1, <1>2, <1>3, <1>4 DEF Data

\* Looking the connection up preserves the invariant.
LEMMA ReadIndexIInv ==
  ASSUME IInv, NEW t \in Threads, ReadIndex(t)
  PROVE  Shape' /\ Data'
<1> USE ThreadFacts
<1>1. CASE index[t[1]] = None
  <2>1. PICK v : Return(t, v)
    BY <1>1 DEF ReadIndex
  <2>2. Shape'
    BY <2>1, ReturnShape DEF ReadIndex, Shape
  <2>3. LocalStep(t)
    BY <2>1 DEF LocalStep, ReadIndex, Return, IInv, TypeOK, maps, state
  <2> QED BY <2>2, <2>3, LocalData
<1>2. CASE index[t[1]] # None
  <2>1. /\ index[t[1]] \in Sessions
        /\ sess' = [sess EXCEPT ![t] = index[t[1]]]
        /\ pc' = [pc EXCEPT ![t] = "session"]
        /\ pc[t] = "index"
        /\ UNCHANGED <<maps, state, gate, op, inst>>
    BY <1>2 DEF ReadIndex, Goto, IInv, TypeOK
  <2>2. Shape'
    BY <2>1 DEF Shape, ThreadShape, GateHeldInside, IInv, TypeOK
  <2>3. LocalStep(t)
    BY <2>1 DEF LocalStep, IInv, TypeOK, maps, state
  <2> QED BY <2>2, <2>3, LocalData
<1> QED BY <1>1, <1>2

\* Looking the session up does.
LEMMA ReadSessionIInv ==
  ASSUME IInv, NEW t \in Threads, ReadSession(t)
  PROVE  Shape' /\ Data'
<1>0. sess[t] \in Sessions
  BY DEF ReadSession, IInv, ThreadShape
<1>1. CASE sessions[sess[t]] = None
  <2>1. PICK v : Return(t, v)
    BY <1>1 DEF ReadSession
  <2>2. Shape'
    BY <2>1, ReturnShape DEF ReadSession, Shape
  <2>3. LocalStep(t)
    BY <2>1 DEF LocalStep, ReadSession, Return, IInv, TypeOK, maps, state
  <2> QED BY <2>2, <2>3, LocalData
<1>2. CASE sessions[sess[t]] # None
  <2>1. /\ sessions[sess[t]] \in Instances
        /\ inst' = [inst EXCEPT ![t] = sessions[sess[t]]]
        /\ pc' = [pc EXCEPT ![t] = "lock"]
        /\ pc[t] = "session"
        /\ UNCHANGED <<maps, state, gate, op, sess>>
    BY <1>0, <1>2 DEF ReadSession, Goto, IInv, TypeOK
  <2>2. Shape'
    BY <1>0, <2>1 DEF Shape, ThreadShape, GateHeldInside, IInv, TypeOK
  <2>3. LocalStep(t)
    BY <1>0, <2>1 DEF LocalStep, IInv, TypeOK, maps, state
  <2> QED BY <2>2, <2>3, LocalData
<1> QED BY <1>1, <1>2

\* Join's GetOrAdd does: an instance it creates is fresh.
LEMMA JoinGetOrAddIInv ==
  ASSUME IInv, NEW t \in Threads, JoinGetOrAdd(t)
  PROVE  Shape' /\ Data'
<1> USE PresenceAssumption
<1>0. /\ sess[t] \in Sessions /\ pc[t] = "session" /\ op[t] = "join"
      /\ pc' = [pc EXCEPT ![t] = "lock"]
      /\ UNCHANGED <<index, state, gate, op, sess>>
  BY DEF JoinGetOrAdd, IInv, ThreadShape, Goto
<1>1. CASE sessions[sess[t]] # None
  <2>1. /\ sessions[sess[t]] \in Instances
        /\ inst' = [inst EXCEPT ![t] = sessions[sess[t]]]
        /\ UNCHANGED <<sessions, created>>
    BY <1>0, <1>1 DEF JoinGetOrAdd, IInv, TypeOK
  <2>2. Shape'
    BY <1>0, <2>1 DEF Shape, ThreadShape, GateHeldInside, IInv, TypeOK
  <2>3. LocalStep(t)
    BY <1>0, <2>1 DEF LocalStep, IInv, TypeOK, state
  <2> QED BY <2>2, <2>3, LocalData
<1>2. CASE sessions[sess[t]] = None
  <2>1. /\ created < MaxInstances /\ created' = created + 1
        /\ sessions' = [sessions EXCEPT ![sess[t]] = created + 1]
        /\ inst' = [inst EXCEPT ![t] = created + 1]
        /\ created \in Nat /\ created + 1 \in Instances
    BY <1>0, <1>2 DEF JoinGetOrAdd, IInv, TypeOK, Instances
  <2>2. Shape'
    BY <1>0, <2>1 DEF Shape, ThreadShape, GateHeldInside, IInv, TypeOK
  <2>3. FreshIsUnused'
    <3>1. \A s \in Sessions : sessions'[s] # None => sessions'[s] <= created'
      BY <1>0, <2>1 DEF IInv, TypeOK, FreshIsUnused, Instances
    <3>2. \A i \in Instances : i > created' => participants'[i] = {} /\ gate'[i] = None
      BY <1>0, <2>1 DEF IInv, FreshIsUnused, Instances, state
    <3>3. \A u \in Threads : inst'[u] # None => inst'[u] <= created'
      BY <1>0, <2>1 DEF IInv, TypeOK, FreshIsUnused, Instances
    <3> QED BY <3>1, <3>2, <3>3 DEF FreshIsUnused
  <2>4. JoinIsMapped'
    <3>1. \A u \in Threads : op'[u] = "join" /\ pc'[u] = "inside" =>
            /\ u # t /\ op[u] = "join" /\ pc[u] = "inside"
            /\ sess'[u] = sess[u] /\ inst'[u] = inst[u]
      BY <1>0, <2>1 DEF IInv, TypeOK
    <3>2. \A u \in Threads : pc[u] = "inside" =>
            sess[u] \in Sessions /\ inst[u] \in Instances
      BY DEF IInv, ThreadShape
    <3>3. \A s \in Sessions : sessions[s] # None => sessions'[s] = sessions[s]
      BY <1>0, <1>2, <2>1 DEF IInv, TypeOK
    <3> QED BY <3>1, <3>2, <3>3, NoneIsNoInstance DEF IInv, JoinIsMapped
  <2>5. ParticipantsAreMapped'
    <3>1. \A s \in Sessions : sessions[s] # None => sessions'[s] = sessions[s]
      BY <1>0, <1>2, <2>1 DEF IInv, TypeOK
    <3> QED BY <1>0, <3>1, NoneIsNoInstance DEF IInv, ParticipantsAreMapped, Mapped, state
  <2>6. LockHolderIsPresent'
    BY <1>0 DEF IInv, LockHolderIsPresent, state
  <2> QED BY <2>2, <2>3, <2>4, <2>5, <2>6 DEF Data
<1> QED BY <1>1, <1>2

\* Join's check does: past it the instance is mapped, and stays so under the gate.
LEMMA JoinCheckIInv ==
  ASSUME IInv, NEW t \in Threads, JoinCheck(t)
  PROVE  Shape' /\ Data'
<1>0. /\ sess[t] \in Sessions /\ inst[t] \in Instances
      /\ pc[t] = "lock" /\ op[t] = "join" /\ gate[inst[t]] = None
      /\ UNCHANGED <<sessions, index, created, participants, selected, locks, op, sess>>
  BY DEF JoinCheck, IInv, ThreadShape, maps, state
<1>1. CASE sessions[sess[t]] = inst[t]
  <2>1. /\ gate' = [gate EXCEPT ![inst[t]] = t]
        /\ pc' = [pc EXCEPT ![t] = "inside"]
        /\ UNCHANGED inst
    BY <1>1 DEF JoinCheck, Goto
  <2>2. ThreadShape'
    BY <1>0, <2>1, NoneIsNoThread DEF ThreadShape, IInv, TypeOK
  <2>3. GateHeldInside'
    BY <1>0, <2>1, NoneIsNoThread DEF GateHeldInside, IInv, TypeOK
  <2>4. FreshIsUnused'
    <3>1. inst[t] <= created
      BY <1>0, NoneIsNoInstance DEF IInv, FreshIsUnused
    <3>2. \A i \in Instances : i > created => gate'[i] = None
      BY <1>0, <2>1, <3>1 DEF IInv, FreshIsUnused, TypeOK, Instances
    <3> QED BY <1>0, <2>1, <3>2 DEF IInv, FreshIsUnused
  <2>5. JoinIsMapped'
    BY <1>0, <1>1, <2>1 DEF IInv, JoinIsMapped, TypeOK
  <2>6. ParticipantsAreMapped' /\ LockHolderIsPresent'
    BY <1>0 DEF IInv, ParticipantsAreMapped, Mapped, LockHolderIsPresent
  <2> QED BY <2>2, <2>3, <2>4, <2>5, <2>6 DEF Shape, Data
<1>2. CASE sessions[sess[t]] # inst[t]
  <2>1. /\ inst' = [inst EXCEPT ![t] = None]
        /\ pc' = [pc EXCEPT ![t] = "session"]
        /\ UNCHANGED gate
    BY <1>2 DEF JoinCheck, Goto
  <2>2. Shape'
    BY <1>0, <2>1 DEF Shape, ThreadShape, GateHeldInside, IInv, TypeOK
  <2>3. LocalStep(t)
    BY <1>0, <2>1 DEF LocalStep, IInv, TypeOK
  <2> QED BY <2>2, <2>3, LocalData
<1> QED BY <1>1, <1>2

\* Join writes its participant into an instance that is mapped.
LEMMA JoinPublishIInv ==
  ASSUME IInv, NEW t \in Threads, JoinPublish(t)
  PROVE  Shape' /\ Data'
<1> USE ThreadFacts
<1>0. /\ sess[t] \in Sessions /\ inst[t] \in Instances
      /\ pc[t] = "inside" /\ op[t] = "join" /\ gate[inst[t]] = t
      /\ sessions[sess[t]] = inst[t]
      /\ participants' = [participants EXCEPT ![inst[t]] = @ \cup {t[1]}]
      /\ gate' = [gate EXCEPT ![inst[t]] = None]
      /\ UNCHANGED <<sessions, created, locks>>
  BY DEF JoinPublish, IInv, ThreadShape, JoinIsMapped
<1>1. PICK v : Return(t, v)
  BY DEF JoinPublish
<1>2. Shape'
  BY <1>0, <1>1, ReturnShape DEF Shape
<1>3. /\ op' = [op EXCEPT ![t] = "none"]
      /\ sess' = [sess EXCEPT ![t] = None]
      /\ inst' = [inst EXCEPT ![t] = None]
      /\ pc' = [pc EXCEPT ![t] = pc'[t]]
  BY <1>1 DEF Return, IInv, TypeOK
<1>4. FreshIsUnused'
  <2>1. inst[t] <= created
    BY <1>0, NoneIsNoInstance DEF IInv, FreshIsUnused
  <2>2. \A i \in Instances : i > created => participants'[i] = {} /\ gate'[i] = None
    BY <1>0, <2>1 DEF IInv, FreshIsUnused, TypeOK, Instances
  <2> QED BY <1>0, <1>3, <2>2 DEF IInv, FreshIsUnused, TypeOK
<1>5. JoinIsMapped'
  BY <1>0, <1>3 DEF IInv, JoinIsMapped, TypeOK
<1>6. ParticipantsAreMapped'
  BY <1>0 DEF IInv, ParticipantsAreMapped, Mapped, TypeOK
<1>7. LockHolderIsPresent'
  BY <1>0 DEF IInv, LockHolderIsPresent, TypeOK
<1> QED BY <1>2, <1>4, <1>5, <1>6, <1>7 DEF Data

\* The gated bodies change neither the participants nor the gates.
LEMMA BodyIInv ==
  ASSUME IInv, NEW t \in Threads, NEW o, Enter(t, o), NEW v, Return(t, v),
         participants' = participants, LockHolderIsPresent'
  PROVE  Shape' /\ Data'
<1>0. pc[t] = "lock" /\ UNCHANGED <<sessions, index, created, gate>>
  BY DEF Enter, maps
<1>2. Shape'
  BY <1>0, ReturnShape DEF Shape
<1>3. /\ op' = [op EXCEPT ![t] = "none"]
      /\ sess' = [sess EXCEPT ![t] = None]
      /\ inst' = [inst EXCEPT ![t] = None]
      /\ pc' = [pc EXCEPT ![t] = pc'[t]]
  BY DEF Return, IInv, TypeOK
<1>4. FreshIsUnused'
  BY <1>0, <1>3 DEF IInv, FreshIsUnused, TypeOK
<1>5. JoinIsMapped'
  BY <1>0, <1>3 DEF IInv, JoinIsMapped, TypeOK
<1>6. ParticipantsAreMapped'
  BY <1>0 DEF IInv, ParticipantsAreMapped, Mapped
<1> QED BY <1>2, <1>4, <1>5, <1>6 DEF Data

\* UpdateSelection changes neither participants nor locks.
LEMMA UpdateSelectionIInv ==
  ASSUME IInv, NEW t \in Threads, UpdateSelection(t)
  PROVE  Shape' /\ Data'
<1>1. PICK v : Return(t, v)
  BY DEF UpdateSelection
<1>2. Enter(t, "select") /\ UNCHANGED <<participants, locks>>
  BY DEF UpdateSelection
<1>3. LockHolderIsPresent'
  BY <1>2 DEF IInv, LockHolderIsPresent
<1> QED BY <1>1, <1>2, <1>3, BodyIInv

\* ClaimElement grants a lock to a participant only.
LEMMA ClaimElementIInv ==
  ASSUME IInv, NEW t \in Threads, ClaimElement(t)
  PROVE  Shape' /\ Data'
<1>1. PICK v : Return(t, v)
  BY DEF ClaimElement
<1>2. Enter(t, "claim") /\ UNCHANGED participants
  BY DEF ClaimElement
<1>3. LockHolderIsPresent'
  <2>1. CASE UNCHANGED locks
    BY <1>2, <2>1 DEF IInv, LockHolderIsPresent
  <2>2. CASE /\ t[1] \in participants[inst[t]]
             /\ \E e \in Elements : locks' = [locks EXCEPT ![inst[t]][e] = t[1]]
    <3>1. inst[t] \in Instances
      BY <1>2 DEF Enter, IInv, ThreadShape
    <3> QED BY <1>2, <2>2, <3>1 DEF IInv, TypeOK, LockHolderIsPresent
  <2> QED BY <2>1, <2>2 DEF ClaimElement
<1> QED BY <1>1, <1>2, <1>3, BodyIInv

\* ReleaseElement only removes a lock.
LEMMA ReleaseElementIInv ==
  ASSUME IInv, NEW t \in Threads, ReleaseElement(t)
  PROVE  Shape' /\ Data'
<1>1. PICK v : Return(t, v)
  BY DEF ReleaseElement
<1>2. Enter(t, "release") /\ UNCHANGED participants
  BY DEF ReleaseElement
<1>3. LockHolderIsPresent'
  <2>1. CASE UNCHANGED locks
    BY <1>2, <2>1 DEF IInv, LockHolderIsPresent
  <2>2. CASE \E e \in Elements : locks' = [locks EXCEPT ![inst[t]][e] = None]
    <3>1. inst[t] \in Instances
      BY <1>2 DEF Enter, IInv, ThreadShape
    <3> QED BY <1>2, <2>2, <3>1 DEF IInv, TypeOK, LockHolderIsPresent
  <2> QED BY <2>1, <2>2 DEF ReleaseElement
<1> QED BY <1>1, <1>2, <1>3, BodyIInv

\* The queries change nothing but their answer.
LEMMA QueryIInv ==
  ASSUME IInv, NEW t \in Threads, Query(t)
  PROVE  Shape' /\ Data'
<1>1. PICK o, v : Enter(t, o) /\ Return(t, v)
  BY DEF Query
<1>2. UNCHANGED <<participants, locks>>
  BY DEF Query, state
<1>3. LockHolderIsPresent'
  BY <1>2 DEF IInv, LockHolderIsPresent
<1> QED BY <1>1, <1>2, <1>3, BodyIInv

\* Leave removes its connection and every lock it held at once.
LEMMA LeaveDropIInv ==
  ASSUME IInv, NEW t \in Threads, LeaveDrop(t)
  PROVE  Shape' /\ Data'
<1>0. /\ sess[t] \in Sessions /\ inst[t] \in Instances
      /\ pc[t] = "lock" /\ op[t] = "leave" /\ gate[inst[t]] = None
      /\ pc' = [pc EXCEPT ![t] = "inside"]
      /\ gate' = [gate EXCEPT ![inst[t]] = t]
      /\ participants' = [participants EXCEPT ![inst[t]] = @ \ {t[1]}]
      /\ locks' = [locks EXCEPT ![inst[t]] =
                     [e \in Elements |-> IF @[e] = t[1] THEN None ELSE @[e]]]
      /\ UNCHANGED <<sessions, created, op, sess, inst>>
  BY DEF LeaveDrop, LeaveReply, Goto, IInv, ThreadShape
<1>1. ThreadShape'
  BY <1>0, NoneIsNoThread DEF ThreadShape, IInv, TypeOK
<1>2. GateHeldInside'
  BY <1>0, NoneIsNoThread DEF GateHeldInside, IInv, TypeOK
<1>3. FreshIsUnused'
  <2>1. inst[t] <= created
    BY <1>0, NoneIsNoInstance DEF IInv, FreshIsUnused
  <2>2. \A i \in Instances : i > created => participants'[i] = {} /\ gate'[i] = None
    BY <1>0, <2>1 DEF IInv, FreshIsUnused, TypeOK, Instances
  <2> QED BY <1>0, <2>2 DEF IInv, FreshIsUnused
<1>4. JoinIsMapped'
  BY <1>0 DEF IInv, JoinIsMapped, TypeOK
<1>5. ParticipantsAreMapped'
  BY <1>0 DEF IInv, ParticipantsAreMapped, Mapped, TypeOK
<1>6. LockHolderIsPresent'
  <2> SUFFICES ASSUME NEW i \in Instances, NEW e \in Elements, locks'[i][e] # None
               PROVE  locks'[i][e] \in participants'[i]
    BY DEF LockHolderIsPresent
  <2>1. CASE i = inst[t]
    <3>1. locks'[i][e] = locks[i][e] /\ locks[i][e] # t[1]
      BY <1>0, <2>1 DEF IInv, TypeOK
    <3> QED BY <1>0, <2>1, <3>1 DEF IInv, LockHolderIsPresent, TypeOK
  <2>2. CASE i # inst[t]
    BY <1>0, <2>2 DEF IInv, LockHolderIsPresent, TypeOK
  <2> QED BY <2>1, <2>2
<1> QED BY <1>1, <1>2, <1>3, <1>4, <1>5, <1>6 DEF Shape, Data

\* Leave unmaps an instance only when it has no participants, so no locks either.
LEMMA LeaveCollectIInv ==
  ASSUME IInv, NEW t \in Threads, LeaveCollect(t)
  PROVE  Shape' /\ Data'
<1>0. /\ sess[t] \in Sessions /\ inst[t] \in Instances
      /\ pc[t] = "inside" /\ op[t] = "leave" /\ gate[inst[t]] = t
      /\ gate' = [gate EXCEPT ![inst[t]] = None]
      /\ Return(t, reply[t])
      /\ UNCHANGED <<index, created, participants, selected, locks>>
  BY DEF LeaveCollect, IInv, ThreadShape, state
<1>1. Shape'
  BY <1>0, ReturnShape DEF Shape
<1>2. /\ op' = [op EXCEPT ![t] = "none"]
      /\ sess' = [sess EXCEPT ![t] = None]
      /\ inst' = [inst EXCEPT ![t] = None]
      /\ pc' = [pc EXCEPT ![t] = pc'[t]]
  BY <1>0 DEF Return, IInv, TypeOK
<1>3. \A s \in Sessions : sessions'[s] # sessions[s] =>
        /\ sessions'[s] = None /\ sessions[s] = inst[t] /\ participants[inst[t]] = {}
  BY <1>0 DEF LeaveCollect, IInv, TypeOK
<1>4. FreshIsUnused'
  <2>1. \A s \in Sessions : sessions'[s] # None => sessions'[s] <= created'
    BY <1>0, <1>3 DEF IInv, FreshIsUnused
  <2>2. \A i \in Instances : i > created => participants'[i] = {} /\ gate'[i] = None
    BY <1>0 DEF IInv, FreshIsUnused, TypeOK
  <2>3. \A u \in Threads : inst'[u] # None => inst'[u] <= created'
    BY <1>0, <1>2 DEF IInv, FreshIsUnused, TypeOK
  <2> QED BY <1>0, <2>1, <2>2, <2>3 DEF FreshIsUnused
<1>5. JoinIsMapped'
  <2> SUFFICES ASSUME NEW u \in Threads, op'[u] = "join", pc'[u] = "inside"
               PROVE  sessions'[sess'[u]] = inst'[u]
    BY DEF JoinIsMapped
  <2>1. /\ u # t /\ op[u] = "join" /\ pc[u] = "inside"
        /\ sess'[u] = sess[u] /\ inst'[u] = inst[u]
    BY <1>0, <1>2 DEF IInv, TypeOK
  <2>2. sessions[sess[u]] = inst[u] /\ sess[u] \in Sessions /\ gate[inst[u]] = u
    BY <2>1 DEF IInv, JoinIsMapped, ThreadShape
  <2> QED BY <1>0, <1>3, <2>1, <2>2
<1>6. ParticipantsAreMapped'
  BY <1>0, <1>3 DEF IInv, ParticipantsAreMapped, Mapped
<1>7. LockHolderIsPresent'
  BY <1>0 DEF IInv, LockHolderIsPresent
<1> QED BY <1>1, <1>4, <1>5, <1>6, <1>7 DEF Data

\* Every step of the system keeps the inductive invariant.
LEMMA NextIInv == IInv /\ [Next]_vars => IInv'
<1> SUFFICES ASSUME IInv, [Next]_vars PROVE IInv'
  OBVIOUS
<1>1. CASE \E c \in Connections : BeginCall(c) \/ BeginLeave(c)
  <2>1. PICK c \in Connections : BeginCall(c) \/ BeginLeave(c)
    BY <1>1
  <2>2. CASE BeginCall(c)
    <3>1. Call(c) \in Threads /\ pc[Call(c)] = "idle"
      BY <2>2 DEF Threads, Call, BeginCall
    <3>2. PICK o \in Calls :
            \/ o \in Mutations /\ Begin(Call(c), o, None, "index")
            \/ \E s \in JoinTargets[c] : Begin(Call(c), o, s, "session")
      BY <2>2 DEF BeginCall
    <3>3. o \in Ops /\ "index" \in Steps /\ "session" \in Steps
      BY PresenceAssumption DEF Ops, Steps, Mutations, Queries
    <3>4. CASE Begin(Call(c), o, None, "index")
      BY <3>1, <3>3, <3>4, BeginIInv
    <3>5. CASE \E s \in JoinTargets[c] : Begin(Call(c), o, s, "session")
      <4>1. PICK s \in JoinTargets[c] : Begin(Call(c), o, s, "session")
        BY <3>5
      <4>2. s \in Sessions
        BY PresenceAssumption
      <4> QED BY <3>1, <3>3, <4>1, <4>2, BeginIInv
    <3> QED BY <3>2, <3>4, <3>5
  <2>3. CASE BeginLeave(c)
    <3>1. Disconnect(c) \in Threads /\ pc[Disconnect(c)] = "idle"
      BY <2>3 DEF Threads, Disconnect, BeginLeave
    <3>2. Begin(Disconnect(c), "leave", None, "index")
      BY <2>3 DEF BeginLeave
    <3>3. "leave" \in Ops /\ "index" \in Steps
      BY DEF Ops, Steps
    <3> QED BY <3>1, <3>2, <3>3, BeginIInv
  <2> QED BY <2>1, <2>2, <2>3
<1>2. CASE \E t \in Threads : Step(t)
  <2>1. PICK t \in Threads : Step(t)
    BY <1>2
  <2>2. TypeOK'
    BY <2>1, StepTypeOK DEF IInv
  <2>3. Shape' /\ Data'
    BY <2>1, ReadIndexIInv, ReadSessionIInv, JoinGetOrAddIInv, JoinCheckIInv,
       JoinPublishIInv, UpdateSelectionIInv, ClaimElementIInv, ReleaseElementIInv,
       QueryIInv, LeaveDropIInv, LeaveCollectIInv DEF Step
  <2> QED BY <2>2, <2>3 DEF IInv, Shape, Data
<1>3. CASE UNCHANGED vars
  BY <1>3 DEF vars, maps, state, local, IInv, TypeOK, ThreadShape, GateHeldInside,
     FreshIsUnused, JoinIsMapped, ParticipantsAreMapped, Mapped, LockHolderIsPresent
<1> QED BY <1>1, <1>2, <1>3 DEF Next, Idle

\* The inductive invariant holds in every reachable state.
THEOREM Invariance == Spec => []IInv
  BY InitIInv, NextIInv, PTL DEF Spec

\* Every variable stays within its type (PreviewPresence!TypeOK).
THEOREM TypeCorrect == Spec => []TypeOK
<1>1. IInv => TypeOK
  BY DEF IInv
<1> QED BY <1>1, Invariance, PTL

\* Nothing is ever written into a SessionState that the map has dropped.
THEOREM NoOrphanWritesHolds == Spec => []NoOrphanWrites
<1>1. IInv => NoOrphanWrites
  BY DEF IInv, NoOrphanWrites, ParticipantsAreMapped, LockHolderIsPresent
<1> QED BY <1>1, Invariance, PTL

\* A lock never outlives its holder's participation in the session.
THEOREM LockHolderIsPresentHolds == Spec => []LockHolderIsPresent
<1>1. IInv => LockHolderIsPresent
  BY DEF IInv
<1> QED BY <1>1, Invariance, PTL
-----------------------------------------------------------------------------
(* Which session an instance serves, and who looks after an empty one      *)

\* An instance serves one session only.
OneSessionPerInstance ==
  \A s1, s2 \in Sessions :
    sessions[s1] # None /\ sessions[s1] = sessions[s2] => s1 = s2

\* The instance a thread has looked up serves the session it works on, or none
\* any more.
LookedUpForSession ==
  \A t \in Threads, s \in Sessions :
    pc[t] \in {"lock", "inside"} /\ sessions[s] = inst[t] => s = sess[t]

SessionInv ==
  IInv /\ OneSessionPerInstance /\ LookedUpForSession /\ EmptySessionsAreCollected

\* A step of thread t leaves the locals of the others alone.
OthersAlone(t) ==
  \A u \in Threads \ {t} : /\ op'[u] = op[u] /\ pc'[u] = pc[u]
                           /\ sess'[u] = sess[u] /\ inst'[u] = inst[u]

\* Initially no session is mapped.
LEMMA InitSessionInv == Init => SessionInv
<1> SUFFICES ASSUME Init PROVE SessionInv
  OBVIOUS
<1>1. IInv
  BY InitIInv
<1>2. OneSessionPerInstance /\ LookedUpForSession /\ EmptySessionsAreCollected
  BY DEF Init, OneSessionPerInstance, LookedUpForSession, EmptySessionsAreCollected
<1> QED BY <1>1, <1>2 DEF SessionInv

\* No step touches the locals of another thread.
LEMMA StepIsOfOneThread ==
  ASSUME IInv, NEW t \in Threads, Step(t)
  PROVE  OthersAlone(t)
<1>1. CASE \E v : Return(t, v)
  BY <1>1 DEF Return, OthersAlone, IInv, TypeOK
<1>2. CASE ~\E v : Return(t, v)
  <2>1. CASE ReadIndex(t) \/ ReadSession(t)
    BY <1>2, <2>1 DEF ReadIndex, ReadSession, Goto, OthersAlone, IInv, TypeOK
  <2>2. CASE JoinGetOrAdd(t) \/ JoinCheck(t)
    BY <2>2 DEF JoinGetOrAdd, JoinCheck, Goto, OthersAlone, IInv, TypeOK
  <2>3. CASE LeaveDrop(t)
    BY <2>3 DEF LeaveDrop, Goto, OthersAlone, IInv, TypeOK
  <2> QED
    BY <1>2, <2>1, <2>2, <2>3 DEF Step, JoinPublish, UpdateSelection, ClaimElement,
       ReleaseElement, Query, LeaveCollect
<1> QED BY <1>1, <1>2

\* What thread t holds after a step that maps no instance to another session.
LEMMA SessionStep ==
  ASSUME SessionInv, NEW t \in Threads, OthersAlone(t),
         \A s \in Sessions : sessions'[s] \in {sessions[s], None},
         pc'[t] \in {"lock", "inside"} =>
           /\ sess'[t] = sess[t] /\ sess[t] \in Sessions
           /\ \/ inst'[t] = inst[t] /\ pc[t] \in {"lock", "inside"}
              \/ inst'[t] = sessions[sess[t]] /\ sessions[sess[t]] # None
  PROVE  OneSessionPerInstance' /\ LookedUpForSession'
<1> USE NoneIsNoInstance
<1>1. OneSessionPerInstance'
  BY DEF SessionInv, OneSessionPerInstance
<1>2. LookedUpForSession'
  <2> SUFFICES ASSUME NEW u \in Threads, NEW s \in Sessions,
                      pc'[u] \in {"lock", "inside"}, sessions'[s] = inst'[u]
               PROVE  s = sess'[u]
    BY DEF LookedUpForSession
  <2>1. CASE u # t
    <3>1. /\ pc[u] \in {"lock", "inside"} /\ sess'[u] = sess[u] /\ inst'[u] = inst[u]
      BY <2>1 DEF OthersAlone
    <3>2. inst[u] # None
      BY <3>1 DEF SessionInv, IInv, ThreadShape
    <3> QED BY <3>1, <3>2 DEF SessionInv, LookedUpForSession
  <2>2. CASE u = t
    <3>1. CASE inst'[t] = inst[t] /\ pc[t] \in {"lock", "inside"}
      <4>1. inst[t] # None
        BY <3>1 DEF SessionInv, IInv, ThreadShape
      <4> QED BY <2>2, <3>1, <4>1 DEF SessionInv, LookedUpForSession
    <3>2. CASE inst'[t] = sessions[sess[t]] /\ sessions[sess[t]] # None
      BY <2>2, <3>2 DEF SessionInv, OneSessionPerInstance
    <3> QED BY <2>2, <3>1, <3>2
  <2> QED BY <2>1, <2>2
<1> QED BY <1>1, <1>2

\* Thread t is joining the instance of session s, or about to collect it.
Witness(t, s) ==
  /\ op[t] \in {"join", "leave"}
  /\ pc[t] \in {"lock", "inside"}
  /\ inst[t] = sessions[s]

\* An empty session keeps whoever looks after it, unless that is the thread itself.
LEMMA EmptyStep ==
  ASSUME SessionInv, NEW t \in Threads, OthersAlone(t),
         \A s \in Sessions : sessions'[s] # None /\ participants'[sessions'[s]] = {} =>
           \/ Witness(t, s)'
           \/ /\ sessions'[s] = sessions[s] /\ participants[sessions[s]] = {}
              /\ ~Witness(t, s)
  PROVE  EmptySessionsAreCollected'
<1> SUFFICES ASSUME NEW s \in Sessions, sessions'[s] # None, participants'[sessions'[s]] = {}
             PROVE  \E u \in Threads : Witness(u, s)'
  BY DEF EmptySessionsAreCollected, Witness
<1>1. CASE Witness(t, s)'
  BY <1>1
<1>2. CASE /\ sessions'[s] = sessions[s] /\ participants[sessions[s]] = {}
           /\ ~Witness(t, s)
  <2>1. PICK u \in Threads : Witness(u, s)
    BY <1>2 DEF SessionInv, EmptySessionsAreCollected, Witness
  <2>2. Witness(u, s)'
    BY <1>2, <2>1 DEF OthersAlone, Witness
  <2> QED BY <2>2
<1> QED BY <1>1, <1>2

\* Looking a connection or a session up, and the gated bodies.
LEMMA QuietSession ==
  ASSUME SessionInv, NEW t \in Threads,
         \/ ReadIndex(t) \/ ReadSession(t)
         \/ UpdateSelection(t) \/ ClaimElement(t) \/ ReleaseElement(t) \/ Query(t)
  PROVE  OneSessionPerInstance' /\ LookedUpForSession' /\ EmptySessionsAreCollected'
<1>1. OthersAlone(t)
  BY StepIsOfOneThread DEF Step, SessionInv
<1>2. UNCHANGED <<sessions, participants>>
  BY DEF ReadIndex, ReadSession, UpdateSelection, ClaimElement, ReleaseElement, Query,
     Enter, maps, state
<1>3. pc'[t] \in {"lock", "inside"} =>
           /\ sess'[t] = sess[t] /\ sess[t] \in Sessions
           /\ inst'[t] = sessions[sess[t]] /\ sessions[sess[t]] # None
  <2>1. CASE \E v : Return(t, v)
    BY <2>1 DEF Return, SessionInv, IInv, TypeOK
  <2>2. CASE ReadIndex(t) /\ ~\E v : Return(t, v)
    BY <2>2 DEF ReadIndex, Goto, SessionInv, IInv, TypeOK
  <2>3. CASE ReadSession(t) /\ ~\E v : Return(t, v)
    BY <2>3 DEF ReadSession, Goto, SessionInv, IInv, TypeOK, ThreadShape
  <2> QED BY <2>1, <2>2, <2>3 DEF UpdateSelection, ClaimElement, ReleaseElement, Query
<1>4. OneSessionPerInstance' /\ LookedUpForSession'
  BY <1>1, <1>2, <1>3, SessionStep
<1>5. op[t] \in {"join", "leave"} => pc[t] \notin {"lock", "inside"}
  BY DEF ReadIndex, ReadSession, UpdateSelection, ClaimElement, ReleaseElement, Query, Enter
<1>6. EmptySessionsAreCollected'
  BY <1>1, <1>2, <1>5, EmptyStep DEF Witness
<1> QED BY <1>4, <1>6

\* GetOrAdd maps a fresh instance, which it is about to join.
LEMMA JoinGetOrAddSession ==
  ASSUME SessionInv, NEW t \in Threads, JoinGetOrAdd(t)
  PROVE  OneSessionPerInstance' /\ LookedUpForSession' /\ EmptySessionsAreCollected'
<1> USE PresenceAssumption, NoneIsNoInstance
<1>0. /\ sess[t] \in Sessions /\ op[t] = "join" /\ pc[t] = "session"
      /\ pc' = [pc EXCEPT ![t] = "lock"]
      /\ UNCHANGED <<participants, op, sess>>
  BY DEF JoinGetOrAdd, SessionInv, IInv, ThreadShape, Goto, state
<1>1. OthersAlone(t)
  BY StepIsOfOneThread DEF Step, SessionInv
<1>2. CASE sessions[sess[t]] # None
  <2>1. inst' = [inst EXCEPT ![t] = sessions[sess[t]]] /\ UNCHANGED sessions
    BY <1>2 DEF JoinGetOrAdd
  <2>2. inst'[t] = sessions[sess[t]]
    BY <2>1 DEF SessionInv, IInv, TypeOK
  <2>3. OneSessionPerInstance' /\ LookedUpForSession'
    BY <1>0, <1>1, <1>2, <2>1, <2>2, SessionStep
  <2>4. EmptySessionsAreCollected'
    BY <1>0, <1>1, <2>1, EmptyStep DEF Witness
  <2> QED BY <2>3, <2>4
<1>3. CASE sessions[sess[t]] = None
  <2>1. /\ sessions' = [sessions EXCEPT ![sess[t]] = created + 1]
        /\ inst' = [inst EXCEPT ![t] = created + 1]
        /\ created \in Nat /\ created + 1 \in Instances
    BY <1>0, <1>3 DEF JoinGetOrAdd, SessionInv, IInv, TypeOK, Instances
  <2>2. \A s \in Sessions : s # sess[t] => sessions'[s] = sessions[s] /\ sessions[s] # created + 1
    BY <2>1 DEF SessionInv, IInv, TypeOK, FreshIsUnused, Instances
  <2>3. sessions'[sess[t]] = created + 1 /\ inst'[t] = created + 1
    BY <1>0, <2>1 DEF SessionInv, IInv, TypeOK
  <2>4. OneSessionPerInstance'
    BY <2>2, <2>3 DEF SessionInv, OneSessionPerInstance
  <2>5. LookedUpForSession'
    <3> SUFFICES ASSUME NEW u \in Threads, NEW s \in Sessions,
                        pc'[u] \in {"lock", "inside"}, sessions'[s] = inst'[u]
                 PROVE  s = sess[u]
      BY <1>0 DEF LookedUpForSession
    <3>1. CASE u = t
      BY <2>2, <2>3, <3>1
    <3>2. CASE u # t
      <4>1. pc[u] \in {"lock", "inside"} /\ inst'[u] = inst[u]
        BY <1>1, <3>2 DEF OthersAlone
      <4>2. inst[u] # created + 1
        BY <2>1, <4>1 DEF SessionInv, IInv, TypeOK, ThreadShape, FreshIsUnused, Instances
      <4> QED BY <2>2, <2>3, <4>1, <4>2 DEF SessionInv, LookedUpForSession
    <3> QED BY <3>1, <3>2
  <2>6. EmptySessionsAreCollected'
    <3>1. Witness(t, sess[t])'
      BY <1>0, <2>3 DEF Witness, SessionInv, IInv, TypeOK
    <3>2. \A s \in Sessions : ~Witness(t, s)
      BY <1>0 DEF Witness
    <3>3. \A s \in Sessions : s # sess[t] => sessions'[s] = sessions[s]
      BY <2>2
    <3> QED BY <1>0, <1>1, <3>1, <3>2, <3>3, EmptyStep
  <2> QED BY <2>4, <2>5, <2>6
<1> QED BY <1>2, <1>3

\* The check lets go only of an instance that is not the mapped one.
LEMMA JoinCheckSession ==
  ASSUME SessionInv, NEW t \in Threads, JoinCheck(t)
  PROVE  OneSessionPerInstance' /\ LookedUpForSession' /\ EmptySessionsAreCollected'
<1>0. /\ sess[t] \in Sessions /\ op[t] = "join" /\ pc[t] = "lock"
      /\ UNCHANGED <<sessions, participants, op, sess>>
  BY DEF JoinCheck, SessionInv, IInv, ThreadShape, maps, state
<1>1. OthersAlone(t)
  BY StepIsOfOneThread DEF Step, SessionInv
<1>2. CASE sessions[sess[t]] = inst[t]
  <2>1. inst'[t] = inst[t] /\ pc'[t] = "inside"
    BY <1>2 DEF JoinCheck, Goto, SessionInv, IInv, TypeOK
  <2>2. OneSessionPerInstance' /\ LookedUpForSession'
    BY <1>0, <1>1, <2>1, SessionStep
  <2>3. \A s \in Sessions : Witness(t, s) => Witness(t, s)'
    BY <1>0, <2>1 DEF Witness
  <2>4. EmptySessionsAreCollected'
    BY <1>0, <1>1, <2>3, EmptyStep
  <2> QED BY <2>2, <2>4
<1>3. CASE sessions[sess[t]] # inst[t]
  <2>1. pc'[t] = "session"
    BY <1>3 DEF JoinCheck, Goto, SessionInv, IInv, TypeOK
  <2>2. OneSessionPerInstance' /\ LookedUpForSession'
    BY <1>0, <1>1, <2>1, SessionStep
  <2>3. \A s \in Sessions : ~Witness(t, s)
    BY <1>0, <1>3 DEF Witness, SessionInv, LookedUpForSession
  <2>4. EmptySessionsAreCollected'
    BY <1>0, <1>1, <2>3, EmptyStep
  <2> QED BY <2>2, <2>4
<1> QED BY <1>2, <1>3

\* A session that has been joined is not empty.
LEMMA JoinPublishSession ==
  ASSUME SessionInv, NEW t \in Threads, JoinPublish(t)
  PROVE  OneSessionPerInstance' /\ LookedUpForSession' /\ EmptySessionsAreCollected'
<1>0. /\ inst[t] \in Instances /\ pc'[t] \notin {"lock", "inside"}
      /\ participants' = [participants EXCEPT ![inst[t]] = @ \cup {t[1]}]
      /\ UNCHANGED sessions
  BY DEF JoinPublish, Return, SessionInv, IInv, TypeOK, ThreadShape
<1>1. OthersAlone(t)
  BY StepIsOfOneThread DEF Step, SessionInv
<1>2. OneSessionPerInstance' /\ LookedUpForSession'
  BY <1>0, <1>1, SessionStep
<1>3. \A s \in Sessions : sessions'[s] # None /\ participants'[sessions'[s]] = {} =>
        sessions'[s] = sessions[s] /\ participants[sessions[s]] = {} /\ ~Witness(t, s)
  BY <1>0 DEF Witness, SessionInv, IInv, TypeOK
<1>4. EmptySessionsAreCollected'
  BY <1>1, <1>3, EmptyStep
<1> QED BY <1>2, <1>4

\* A leaver that empties its session is about to collect it.
LEMMA LeaveDropSession ==
  ASSUME SessionInv, NEW t \in Threads, LeaveDrop(t)
  PROVE  OneSessionPerInstance' /\ LookedUpForSession' /\ EmptySessionsAreCollected'
<1>0. /\ sess[t] \in Sessions /\ inst[t] \in Instances /\ op[t] = "leave" /\ pc[t] = "lock"
      /\ pc'[t] = "inside" /\ sess'[t] = sess[t] /\ inst'[t] = inst[t] /\ op'[t] = op[t]
      /\ participants' = [participants EXCEPT ![inst[t]] = @ \ {t[1]}]
      /\ UNCHANGED sessions
  BY DEF LeaveDrop, Goto, SessionInv, IInv, TypeOK, ThreadShape
<1>1. OthersAlone(t)
  BY StepIsOfOneThread DEF Step, SessionInv
<1>2. OneSessionPerInstance' /\ LookedUpForSession'
  BY <1>0, <1>1, SessionStep
<1>3. \A s \in Sessions : sessions'[s] # None /\ participants'[sessions'[s]] = {} =>
        \/ Witness(t, s)'
        \/ sessions'[s] = sessions[s] /\ participants[sessions[s]] = {} /\ ~Witness(t, s)
  BY <1>0 DEF Witness, SessionInv, IInv, TypeOK
<1>4. EmptySessionsAreCollected'
  BY <1>1, <1>3, EmptyStep
<1> QED BY <1>2, <1>4

\* Collecting unmaps an empty instance wherever it is mapped.
LEMMA LeaveCollectSession ==
  ASSUME SessionInv, NEW t \in Threads, LeaveCollect(t)
  PROVE  OneSessionPerInstance' /\ LookedUpForSession' /\ EmptySessionsAreCollected'
<1>0. /\ sess[t] \in Sessions /\ inst[t] \in Instances /\ pc[t] = "inside"
      /\ pc'[t] \notin {"lock", "inside"}
      /\ UNCHANGED participants
  BY DEF LeaveCollect, Return, SessionInv, IInv, TypeOK, ThreadShape, state
<1>1. OthersAlone(t)
  BY StepIsOfOneThread DEF Step, SessionInv
<1>2. \A s \in Sessions : sessions'[s] \in {sessions[s], None}
  BY DEF LeaveCollect, SessionInv, IInv, TypeOK
<1>3. OneSessionPerInstance' /\ LookedUpForSession'
  BY <1>0, <1>1, <1>2, SessionStep
<1>4. \A s \in Sessions : sessions'[s] # None /\ participants'[sessions'[s]] = {} =>
        sessions'[s] = sessions[s] /\ participants[sessions[s]] = {} /\ ~Witness(t, s)
  <2> SUFFICES ASSUME NEW s \in Sessions, sessions'[s] # None, participants'[sessions'[s]] = {}
               PROVE  sessions'[s] = sessions[s] /\ participants[sessions[s]] = {} /\ ~Witness(t, s)
    OBVIOUS
  <2>1. sessions'[s] = sessions[s] /\ participants[sessions[s]] = {}
    BY <1>0, <1>2
  <2>2. ASSUME Witness(t, s) PROVE FALSE
    <3>1. s = sess[t] /\ inst[t] = sessions[s]
      BY <1>0, <2>2 DEF Witness, SessionInv, LookedUpForSession
    <3>2. sessions' = [sessions EXCEPT ![sess[t]] = None]
      BY <2>1, <3>1 DEF LeaveCollect
    <3> QED BY <3>1, <3>2 DEF SessionInv, IInv, TypeOK
  <2> QED BY <2>1, <2>2
<1>5. EmptySessionsAreCollected'
  BY <1>1, <1>4, EmptyStep
<1> QED BY <1>3, <1>5

\* Starting an operation changes neither the maps nor who is at an instance.
LEMMA BeginSession ==
  ASSUME SessionInv, NEW t \in Threads, pc[t] = "idle", NEW o, NEW s, NEW step, Begin(t, o, s, step),
         step \in {"index", "session"}
  PROVE  OneSessionPerInstance' /\ LookedUpForSession' /\ EmptySessionsAreCollected'
<1>1. OthersAlone(t) /\ pc'[t] \notin {"lock", "inside"} /\ UNCHANGED <<sessions, participants>>
  BY DEF Begin, Goto, OthersAlone, SessionInv, IInv, TypeOK, maps, state
<1>2. OneSessionPerInstance' /\ LookedUpForSession'
  BY <1>1, SessionStep
<1>3. EmptySessionsAreCollected'
  BY <1>1, EmptyStep DEF Witness
<1> QED BY <1>2, <1>3

\* Every step of the system keeps them.
LEMMA NextSessionInv == SessionInv /\ [Next]_vars => SessionInv'
<1> SUFFICES ASSUME SessionInv, [Next]_vars PROVE SessionInv'
  OBVIOUS
<1>0. IInv'
  BY NextIInv DEF SessionInv
<1>1. ASSUME NEW c \in Connections, BeginCall(c) \/ BeginLeave(c)
      PROVE  OneSessionPerInstance' /\ LookedUpForSession' /\ EmptySessionsAreCollected'
  <2>1. Call(c) \in Threads /\ Disconnect(c) \in Threads
    BY DEF Threads, Call, Disconnect
  <2>2. PICK t \in Threads :
          \E o, s, step : pc[t] = "idle" /\ Begin(t, o, s, step) /\ step \in {"index", "session"}
    BY <1>1, <2>1 DEF BeginCall, BeginLeave
  <2> QED BY <2>2, BeginSession
<1>2. ASSUME NEW t \in Threads, Step(t)
      PROVE  OneSessionPerInstance' /\ LookedUpForSession' /\ EmptySessionsAreCollected'
  BY <1>2, QuietSession, JoinGetOrAddSession, JoinCheckSession, JoinPublishSession,
     LeaveDropSession, LeaveCollectSession DEF Step
<1>3. ASSUME UNCHANGED vars
      PROVE  OneSessionPerInstance' /\ LookedUpForSession' /\ EmptySessionsAreCollected'
  BY <1>3 DEF vars, maps, state, local, SessionInv, OneSessionPerInstance, LookedUpForSession,
     EmptySessionsAreCollected
<1> QED BY <1>0, <1>1, <1>2, <1>3 DEF Next, Idle, SessionInv

\* An empty session never stays in the map without somebody at work on it.
THEOREM EmptySessionsAreCollectedHolds == Spec => []EmptySessionsAreCollected
<1>1. SessionInv => EmptySessionsAreCollected
  BY DEF SessionInv
<1> QED BY <1>1, InitSessionInv, NextSessionInv, PTL DEF Spec

(***************************************************************************)
(* What PreviewPresence promises its callers, whatever the number of       *)
(* connections, as long as every connection joins one session in its       *)
(* lifetime: OneSessionEach, what both React screens do.                   *)
(*                                                                         *)
(* First, the reverse index agrees with the participant lists and a leave  *)
(* is complete. From that, every operation is one atomic step of           *)
(* PresenceRegistry: the implementation refines it.                        *)
(***************************************************************************)

\* The session a thread of connection c works on is one c may join.
OwnSession ==
  /\ \A c \in Connections : index[c] # None =>
       /\ index[c] \in JoinTargets[c]
       /\ sessions[index[c]] # None
  /\ \A t \in Threads : sess[t] # None => sess[t] \in JoinTargets[t[1]]

\* Until its Leave drops it, a connection stays where Leave found it.
LeaveIsCurrent ==
  \A t \in Threads : op[t] = "leave" =>
    /\ t = Disconnect(t[1])
    /\ pc[t] \in {"session", "lock"} => index[t[1]] = sess[t]
    /\ pc[t] = "lock" => sessions[sess[t]] = inst[t]

IndexInv ==
  SessionInv /\ OwnSession /\ LeaveIsCurrent /\ IndexAgrees

\* Initially nobody is tracked and no thread is running.
LEMMA InitIndexInv == Init => IndexInv
<1> SUFFICES ASSUME Init PROVE IndexInv
  OBVIOUS
<1>1. SessionInv
  BY InitSessionInv
<1>2. OwnSession
  BY ThreadFacts DEF Init, OwnSession
<1>3. LeaveIsCurrent
  BY DEF Init, LeaveIsCurrent
<1>4. IndexAgrees
  BY DEF Init, IndexAgrees
<1> QED BY <1>1, <1>2, <1>3, <1>4 DEF IndexInv

\* The facts about the index, next to SessionInv.
Agreement == OwnSession /\ LeaveIsCurrent /\ IndexAgrees

\* What thread t's own locals have to satisfy.
ThreadIndex(t) ==
  /\ sess[t] # None => sess[t] \in JoinTargets[t[1]]
  /\ op[t] = "leave" =>
       /\ t = Disconnect(t[1])
       /\ pc[t] \in {"session", "lock"} => index[t[1]] = sess[t]
       /\ pc[t] = "lock" => sessions[sess[t]] = inst[t]

\* A step that leaves both maps and the participants alone.
LEMMA QuietAgreement ==
  ASSUME IndexInv, NEW t \in Threads, OthersAlone(t), ThreadIndex(t)',
         UNCHANGED <<sessions, index, participants>>
  PROVE  Agreement'
<1>1. OwnSession'
  BY DEF IndexInv, OwnSession, OthersAlone, ThreadIndex
<1>2. LeaveIsCurrent'
  BY DEF IndexInv, LeaveIsCurrent, OthersAlone, ThreadIndex
<1>3. IndexAgrees'
  BY DEF IndexInv, IndexAgrees
<1> QED BY <1>1, <1>2, <1>3 DEF Agreement

\* Returning clears the locals of the thread.
LEMMA ReturnIndex ==
  ASSUME IndexInv, NEW t \in Threads, NEW v, Return(t, v)
  PROVE  OthersAlone(t) /\ ThreadIndex(t)'
  BY DEF Return, OthersAlone, ThreadIndex, IndexInv, SessionInv, IInv, TypeOK

\* Starting an operation: a join names one of the connection's sessions.
LEMMA BeginAgreement ==
  ASSUME IndexInv, NEW t \in Threads, NEW o, NEW s, NEW step, Begin(t, o, s, step),
         s # None => s \in JoinTargets[t[1]],
         o = "leave" => t = Disconnect(t[1]) /\ s = None /\ step = "index"
  PROVE  Agreement'
<1>1. OthersAlone(t) /\ ThreadIndex(t)'
  BY DEF Begin, Goto, OthersAlone, ThreadIndex, IndexInv, SessionInv, IInv, TypeOK
<1> QED BY <1>1, QuietAgreement DEF Begin, maps, state

\* Looking the connection up keeps the maps in agreement: Leave takes what it found.
LEMMA ReadIndexAgreement ==
  ASSUME IndexInv, NEW t \in Threads, ReadIndex(t)
  PROVE  Agreement'
<1> USE ThreadFacts
<1>0. UNCHANGED <<sessions, index, participants>>
  BY DEF ReadIndex, maps, state
<1>1. CASE index[t[1]] = None
  BY <1>0, <1>1, ReturnIndex, QuietAgreement DEF ReadIndex
<1>2. CASE index[t[1]] # None
  <2>1. /\ sess' = [sess EXCEPT ![t] = index[t[1]]]
        /\ pc' = [pc EXCEPT ![t] = "session"]
        /\ UNCHANGED <<op, inst>>
    BY <1>2 DEF ReadIndex, Goto
  <2>2. OthersAlone(t)
    BY <2>1 DEF OthersAlone, IndexInv, SessionInv, IInv, TypeOK
  <2>3. ThreadIndex(t)'
    BY <1>0, <1>2, <2>1 DEF ThreadIndex, IndexInv, SessionInv, IInv, TypeOK, OwnSession, LeaveIsCurrent
  <2> QED BY <1>0, <2>2, <2>3, QuietAgreement
<1> QED BY <1>1, <1>2

\* Looking the session up does: Leave finds the instance its participant is in.
LEMMA ReadSessionAgreement ==
  ASSUME IndexInv, NEW t \in Threads, ReadSession(t)
  PROVE  Agreement'
<1>0. UNCHANGED <<sessions, index, participants>>
  BY DEF ReadSession, maps, state
<1>1. CASE sessions[sess[t]] = None
  BY <1>0, <1>1, ReturnIndex, QuietAgreement DEF ReadSession
<1>2. CASE sessions[sess[t]] # None
  <2>1. /\ inst' = [inst EXCEPT ![t] = sessions[sess[t]]]
        /\ pc[t] = "session" /\ pc' = [pc EXCEPT ![t] = "lock"]
        /\ UNCHANGED <<op, sess>>
    BY <1>2 DEF ReadSession, Goto
  <2>2. OthersAlone(t)
    BY <2>1 DEF OthersAlone, IndexInv, SessionInv, IInv, TypeOK
  <2>3. ThreadIndex(t)'
    BY <1>0, <2>1 DEF ThreadIndex, IndexInv, SessionInv, IInv, TypeOK, OwnSession, LeaveIsCurrent
  <2> QED BY <1>0, <2>2, <2>3, QuietAgreement
<1> QED BY <1>1, <1>2

\* GetOrAdd does: a fresh instance has no participants and serves one session.
LEMMA JoinGetOrAddAgreement ==
  ASSUME IndexInv, NEW t \in Threads, JoinGetOrAdd(t)
  PROVE  Agreement'
<1> USE PresenceAssumption, NoneIsNoInstance
<1>0. /\ sess[t] \in Sessions /\ op[t] = "join"
      /\ pc' = [pc EXCEPT ![t] = "lock"]
      /\ UNCHANGED <<index, participants, op, sess>>
  BY DEF JoinGetOrAdd, IndexInv, SessionInv, IInv, ThreadShape, Goto, state
<1>1. CASE sessions[sess[t]] # None
  <2>1. inst' = [inst EXCEPT ![t] = sessions[sess[t]]] /\ UNCHANGED sessions
    BY <1>1 DEF JoinGetOrAdd
  <2>2. OthersAlone(t)
    BY <1>0, <2>1 DEF OthersAlone, IndexInv, SessionInv, IInv, TypeOK
  <2>3. ThreadIndex(t)'
    BY <1>0 DEF ThreadIndex, IndexInv, OwnSession
  <2> QED BY <1>0, <2>1, <2>2, <2>3, QuietAgreement
<1>2. CASE sessions[sess[t]] = None
  <2>1. /\ sessions' = [sessions EXCEPT ![sess[t]] = created + 1]
        /\ inst' = [inst EXCEPT ![t] = created + 1]
        /\ created \in Nat /\ created + 1 \in Instances
    BY <1>0, <1>2 DEF JoinGetOrAdd, IndexInv, SessionInv, IInv, TypeOK, Instances
  <2>2. OthersAlone(t)
    BY <1>0, <2>1 DEF OthersAlone, IndexInv, SessionInv, IInv, TypeOK
  <2>3. \A s \in Sessions : sessions[s] # None => sessions'[s] = sessions[s]
    BY <1>0, <1>2, <2>1 DEF IndexInv, SessionInv, IInv, TypeOK
  <2>4. participants[created + 1] = {}
    BY <2>1 DEF IndexInv, SessionInv, IInv, FreshIsUnused
  <2>5. OwnSession'
    <3>1. \A c \in Connections : index[c] # None => index[c] \in Sessions
      BY DEF IndexInv, SessionInv, IInv, TypeOK
    <3>2. \A c \in Connections : index'[c] # None =>
            index'[c] \in JoinTargets[c] /\ sessions'[index'[c]] # None
      BY <1>0, <2>3, <3>1 DEF IndexInv, OwnSession
    <3> QED BY <1>0, <3>2 DEF IndexInv, OwnSession
  <2>6. LeaveIsCurrent'
    <3> SUFFICES ASSUME NEW u \in Threads, op[u] = "leave"
                 PROVE  /\ u = Disconnect(u[1])
                        /\ pc'[u] \in {"session", "lock"} => index[u[1]] = sess[u]
                        /\ pc'[u] = "lock" => sessions'[sess[u]] = inst'[u]
      BY <1>0 DEF LeaveIsCurrent
    <3>1. u # t /\ pc'[u] = pc[u] /\ inst'[u] = inst[u]
      BY <1>0, <2>2 DEF OthersAlone
    <3>2. pc[u] = "lock" => sess[u] \in Sessions /\ inst[u] \in Instances
      BY DEF IndexInv, SessionInv, IInv, ThreadShape
    <3> QED BY <2>3, <3>1, <3>2 DEF IndexInv, LeaveIsCurrent
  <2>8. IndexAgrees'
    <3> SUFFICES ASSUME NEW c \in Connections, NEW i \in Instances
                 PROVE  c \in participants[i] <=> index[c] # None /\ sessions'[index[c]] = i
      BY <1>0 DEF IndexAgrees
    <3>1. index[c] # None => index[c] \in Sessions /\ sessions[index[c]] # None
      BY DEF IndexInv, SessionInv, IInv, TypeOK, OwnSession
    <3> QED BY <2>3, <3>1 DEF IndexInv, IndexAgrees
  <2> QED BY <2>5, <2>6, <2>8 DEF Agreement
<1> QED BY <1>1, <1>2

\* The check under the gate does: it writes to neither map.
LEMMA JoinCheckAgreement ==
  ASSUME IndexInv, NEW t \in Threads, JoinCheck(t)
  PROVE  Agreement'
<1>0. /\ op[t] = "join" /\ pc[t] = "lock"
      /\ pc' \in {[pc EXCEPT ![t] = "inside"], [pc EXCEPT ![t] = "session"]}
      /\ inst' \in {inst, [inst EXCEPT ![t] = None]}
      /\ UNCHANGED <<sessions, index, participants, op, sess>>
  BY DEF JoinCheck, Goto, maps, state
<1>1. OthersAlone(t)
  BY <1>0 DEF OthersAlone, IndexInv, SessionInv, IInv, TypeOK
<1>2. ThreadIndex(t)'
  BY <1>0 DEF ThreadIndex, IndexInv, OwnSession
<1> QED BY <1>0, <1>1, <1>2, QuietAgreement

\* The gated bodies and the queries.
LEMMA BodyAgreement ==
  ASSUME IndexInv, NEW t \in Threads,
         UpdateSelection(t) \/ ClaimElement(t) \/ ReleaseElement(t) \/ Query(t)
  PROVE  Agreement'
<1>1. PICK v : Return(t, v)
  BY DEF UpdateSelection, ClaimElement, ReleaseElement, Query
<1>2. UNCHANGED <<sessions, index, participants>>
  BY DEF UpdateSelection, ClaimElement, ReleaseElement, Query, Enter, maps, state
<1> QED BY <1>1, <1>2, ReturnIndex, QuietAgreement

\* Join writes both maps; a rejoin finds them as it leaves them.
LEMMA JoinPublishAgreement ==
  ASSUME OneSessionEach, IndexInv, NEW t \in Threads, JoinPublish(t)
  PROVE  Agreement'
<1> USE ThreadFacts, NoneIsNoInstance, PresenceAssumption
<1> DEFINE c == t[1]  i == inst[t]  s == sess[t]
<1>0. /\ s \in Sessions /\ i \in Instances /\ sessions[s] = i /\ c \in Connections
      /\ s # None /\ s \in JoinTargets[c]
      /\ participants' = [participants EXCEPT ![i] = @ \cup {c}]
      /\ index' = [index EXCEPT ![c] = s]
      /\ UNCHANGED sessions
  BY DEF JoinPublish, IndexInv, SessionInv, IInv, ThreadShape, JoinIsMapped, OwnSession
<1>1. PICK v : Return(t, v)
  BY DEF JoinPublish
<1>2. OthersAlone(t) /\ ThreadIndex(t)'
  BY <1>1, ReturnIndex
<1>3. index[c] # None => index[c] = s
  BY <1>0 DEF OneSessionEach, IndexInv, OwnSession
<1>4. \A d \in Connections : index'[d] # None =>
        index'[d] \in JoinTargets[d] /\ sessions'[index'[d]] # None
  BY <1>0 DEF IndexInv, SessionInv, IInv, TypeOK, OwnSession
<1>5. OwnSession'
  BY <1>2, <1>4 DEF IndexInv, OwnSession, OthersAlone, ThreadIndex
<1>6. LeaveIsCurrent'
  <2> SUFFICES ASSUME NEW u \in Threads, u # t, op[u] = "leave"
               PROVE  /\ u = Disconnect(u[1])
                      /\ pc[u] \in {"session", "lock"} => index'[u[1]] = sess[u]
                      /\ pc[u] = "lock" => sessions[sess[u]] = inst[u]
    BY <1>0, <1>2 DEF LeaveIsCurrent, OthersAlone, ThreadIndex
  <2>1. pc[u] \in {"session", "lock"} => sess[u] # None
    BY DEF IndexInv, SessionInv, IInv, ThreadShape
  <2>2. pc[u] \in {"session", "lock"} => index'[u[1]] = sess[u]
    BY <1>0, <1>3, <2>1 DEF IndexInv, SessionInv, IInv, TypeOK, LeaveIsCurrent
  <2> QED BY <2>2 DEF IndexInv, LeaveIsCurrent
<1>8. IndexAgrees'
  <2> SUFFICES ASSUME NEW d \in Connections, NEW j \in Instances
               PROVE  d \in participants'[j] <=> index'[d] # None /\ sessions[index'[d]] = j
    BY <1>0 DEF IndexAgrees
  <2>1. CASE d = c
    BY <1>0, <1>3, <2>1 DEF IndexInv, SessionInv, IInv, TypeOK, IndexAgrees
  <2>2. CASE d # c
    BY <1>0, <2>2 DEF IndexInv, SessionInv, IInv, TypeOK, IndexAgrees
  <2> QED BY <2>1, <2>2
<1> QED BY <1>5, <1>6, <1>8 DEF Agreement

\* Leave removes both entries of its connection, and no other.
LEMMA LeaveDropAgreement ==
  ASSUME IndexInv, NEW t \in Threads, LeaveDrop(t)
  PROVE  Agreement'
<1> USE ThreadFacts
<1> DEFINE c == t[1]  i == inst[t]
<1>0. /\ i \in Instances /\ c \in Connections /\ op[t] = "leave"
      /\ t = Disconnect(c) /\ index[c] = sess[t] /\ sessions[sess[t]] = i
      /\ participants' = [participants EXCEPT ![i] = @ \ {c}]
      /\ index' = [index EXCEPT ![c] = None]
      /\ pc' = [pc EXCEPT ![t] = "inside"]
      /\ UNCHANGED <<sessions, op, sess, inst>>
  BY DEF LeaveDrop, LeaveReply, IndexInv, SessionInv, IInv, ThreadShape, LeaveIsCurrent, Goto
<1>1. OthersAlone(t)
  BY <1>0 DEF OthersAlone, IndexInv, SessionInv, IInv, TypeOK
<1>2. OwnSession'
  BY <1>0 DEF IndexInv, SessionInv, IInv, TypeOK, OwnSession
<1>3. LeaveIsCurrent'
  <2> SUFFICES ASSUME NEW u \in Threads, op[u] = "leave"
               PROVE  /\ u = Disconnect(u[1])
                      /\ pc'[u] \in {"session", "lock"} => index'[u[1]] = sess[u]
                      /\ pc'[u] = "lock" => sessions[sess[u]] = inst[u]
    BY <1>0 DEF LeaveIsCurrent
  <2>1. CASE u = t
    BY <1>0, <2>1 DEF IndexInv, SessionInv, IInv, TypeOK
  <2>2. CASE u # t
    <3>1. u[1] # c
      BY <1>0, <2>2 DEF IndexInv, LeaveIsCurrent
    <3> QED BY <1>0, <1>1, <2>2, <3>1 DEF IndexInv, SessionInv, IInv, TypeOK, LeaveIsCurrent, OthersAlone
  <2> QED BY <2>1, <2>2
<1>5. IndexAgrees'
  <2> SUFFICES ASSUME NEW d \in Connections, NEW j \in Instances
               PROVE  d \in participants'[j] <=> index'[d] # None /\ sessions[index'[d]] = j
    BY <1>0 DEF IndexAgrees
  <2>1. CASE d = c
    BY <1>0, <2>1 DEF IndexInv, SessionInv, IInv, TypeOK, IndexAgrees
  <2>2. CASE d # c
    BY <1>0, <2>2 DEF IndexInv, SessionInv, IInv, TypeOK, IndexAgrees
  <2> QED BY <2>1, <2>2
<1> QED BY <1>2, <1>3, <1>5 DEF Agreement

\* Only a session without participants is collected, so nobody is tracked in it.
LEMMA LeaveCollectAgreement ==
  ASSUME IndexInv, NEW t \in Threads, LeaveCollect(t)
  PROVE  Agreement'
<1> USE ThreadFacts, NoneIsNoInstance
<1>0. inst[t] \in Instances /\ UNCHANGED <<index, participants>>
  BY DEF LeaveCollect, IndexInv, SessionInv, IInv, ThreadShape, state
<1>1. OthersAlone(t) /\ ThreadIndex(t)'
  BY ReturnIndex DEF LeaveCollect
<1>2. \A s \in Sessions : sessions'[s] # sessions[s] =>
        sessions'[s] = None /\ sessions[s] = inst[t] /\ participants[inst[t]] = {}
  BY DEF LeaveCollect, IndexInv, SessionInv, IInv, TypeOK
<1>3. \A c \in Connections : index[c] # None =>
        index[c] \in Sessions /\ sessions'[index[c]] = sessions[index[c]]
  <2> SUFFICES ASSUME NEW c \in Connections, index[c] # None
               PROVE  index[c] \in Sessions /\ sessions'[index[c]] = sessions[index[c]]
    OBVIOUS
  <2>1. index[c] \in Sessions /\ sessions[index[c]] \in Instances
    BY DEF IndexInv, SessionInv, IInv, TypeOK, OwnSession
  <2>2. c \in participants[sessions[index[c]]]
    BY <2>1 DEF IndexInv, IndexAgrees
  <2> QED BY <1>2, <2>1, <2>2
<1>4. OwnSession'
  <2>1. \A c \in Connections : index'[c] # None =>
          index'[c] \in JoinTargets[c] /\ sessions'[index'[c]] # None
    BY <1>0, <1>3 DEF IndexInv, OwnSession
  <2> QED BY <1>1, <2>1 DEF IndexInv, OwnSession, OthersAlone, ThreadIndex
<1>5. LeaveIsCurrent'
  <2> SUFFICES ASSUME NEW u \in Threads, u # t, op[u] = "leave"
               PROVE  /\ u = Disconnect(u[1])
                      /\ pc[u] \in {"session", "lock"} => index[u[1]] = sess[u]
                      /\ pc[u] = "lock" => sessions'[sess[u]] = inst[u]
    BY <1>0, <1>1 DEF LeaveIsCurrent, OthersAlone, ThreadIndex
  <2>1. pc[u] = "lock" => index[u[1]] # None /\ index[u[1]] = sess[u]
    BY PresenceAssumption DEF IndexInv, SessionInv, IInv, ThreadShape, LeaveIsCurrent
  <2> QED BY <1>3, <2>1 DEF IndexInv, LeaveIsCurrent
<1>7. IndexAgrees'
  BY <1>0, <1>3 DEF IndexInv, IndexAgrees
<1> QED BY <1>4, <1>5, <1>7 DEF Agreement

\* Every step keeps the agreement, when a connection joins one session only.
LEMMA NextIndexInv ==
  ASSUME OneSessionEach
  PROVE  IndexInv /\ [Next]_vars => IndexInv'
<1> SUFFICES ASSUME IndexInv, [Next]_vars PROVE IndexInv'
  OBVIOUS
<1>0. SessionInv'
  BY NextSessionInv DEF IndexInv
<1>1. ASSUME NEW c \in Connections, BeginCall(c)
      PROVE  Agreement'
  <2>1. Call(c) \in Threads /\ Call(c)[1] = c
    BY DEF Threads, Call
  <2>2. PICK o \in Calls :
          \/ o \in Mutations /\ Begin(Call(c), o, None, "index")
          \/ \E s \in JoinTargets[c] : Begin(Call(c), o, s, "session")
    BY <1>1 DEF BeginCall
  <2>3. o # "leave" /\ (o \in Mutations => o # "join")
    BY PresenceAssumption DEF Mutations
  <2>4. CASE o \in Mutations /\ Begin(Call(c), o, None, "index")
    BY <2>1, <2>3, <2>4, BeginAgreement
  <2>5. CASE \E s \in JoinTargets[c] : Begin(Call(c), o, s, "session")
    <3>1. PICK s \in JoinTargets[c] : Begin(Call(c), o, s, "session")
      BY <2>5
    <3> QED BY <2>1, <2>3, <3>1, BeginAgreement
  <2> QED BY <2>2, <2>4, <2>5
<1>2. ASSUME NEW c \in Connections, BeginLeave(c)
      PROVE  Agreement'
  <2>1. Disconnect(c) \in Threads /\ Disconnect(c) = Disconnect(Disconnect(c)[1])
    BY DEF Threads, Disconnect
  <2>2. Begin(Disconnect(c), "leave", None, "index")
    BY <1>2 DEF BeginLeave
  <2> QED BY <2>1, <2>2, BeginAgreement
<1>3. ASSUME NEW t \in Threads, Step(t)
      PROVE  Agreement'
  <2>1. CASE ReadIndex(t) \/ ReadSession(t)
    BY <2>1, ReadIndexAgreement, ReadSessionAgreement
  <2>2. CASE JoinGetOrAdd(t) \/ JoinCheck(t)
    BY <2>2, JoinGetOrAddAgreement, JoinCheckAgreement
  <2>3. CASE JoinPublish(t)
    BY <2>3, JoinPublishAgreement
  <2>4. CASE UpdateSelection(t) \/ ClaimElement(t) \/ ReleaseElement(t) \/ Query(t)
    BY <2>4, BodyAgreement
  <2>5. CASE LeaveDrop(t) \/ LeaveCollect(t)
    BY <2>5, LeaveDropAgreement, LeaveCollectAgreement
  <2> QED BY <1>3, <2>1, <2>2, <2>3, <2>4, <2>5 DEF Step
<1>4. ASSUME UNCHANGED vars
      PROVE  Agreement'
  <2>1. UNCHANGED <<sessions, index, participants, op, pc, sess, inst>>
    BY <1>4 DEF vars, maps, state, local
  <2>2. OwnSession' /\ IndexAgrees'
    BY <2>1 DEF IndexInv, OwnSession, IndexAgrees
  <2>3. LeaveIsCurrent'
    BY <2>1 DEF IndexInv, LeaveIsCurrent
  <2> QED BY <2>2, <2>3 DEF Agreement
<1>5. Agreement'
  BY <1>1, <1>2, <1>3, <1>4 DEF Next, Idle
<1> QED BY <1>0, <1>5 DEF IndexInv, Agreement

\* The reverse index and the participant lists agree in every reachable state of
\* a system whose clients join one session per connection.
THEOREM IndexAgreesHolds ==
  ASSUME OneSessionEach
  PROVE  Spec => []IndexAgrees
<1>1. IndexInv => IndexAgrees
  BY DEF IndexInv
<1>2. IndexInv /\ [Next]_vars => IndexInv'
  BY NextIndexInv
<1> QED BY <1>1, <1>2, InitIndexInv, PTL DEF Spec

\* Once Leave has dropped its connection, the connection is in no session.
THEOREM LeaveIsCompleteHolds ==
  ASSUME OneSessionEach
  PROVE  Spec => LeaveIsComplete
<1> DEFINE Complete ==
      \A t \in Threads :
        (pc[t] = "lock" /\ op[t] = "leave" /\ pc'[t] = "inside") =>
          \A i \in Instances :
             t[1] \notin participants'[i] /\ \A e \in Elements : locks'[i][e] # t[1]
<1>1. IndexInv /\ [Next]_vars => IndexInv'
  BY NextIndexInv
<1>2. IndexInv /\ IndexInv' /\ [Next]_vars => Complete
  <2> SUFFICES ASSUME IndexInv, IndexInv', [Next]_vars, NEW t \in Threads,
                      pc[t] = "lock", op[t] = "leave", pc'[t] = "inside",
                      NEW i \in Instances
               PROVE  /\ t[1] \notin participants'[i]
                      /\ \A e \in Elements : locks'[i][e] # t[1]
    OBVIOUS
  <2> USE ThreadFacts, PresenceAssumption
  <2>1. LeaveDrop(t)
    <3>1. PICK u \in Threads : Step(u) \/ \E o, s, step : Begin(u, o, s, step) /\ step # "inside"
      <4>1. ~UNCHANGED vars
        BY DEF vars, local
      <4>2. \A c \in Connections : Call(c) \in Threads /\ Disconnect(c) \in Threads
        BY DEF Threads, Call, Disconnect
      <4> QED BY <4>1, <4>2 DEF Next, Idle, BeginCall, BeginLeave
    <3>2. u = t
      <4>1. CASE Step(u)
        BY <4>1, StepIsOfOneThread DEF OthersAlone, IndexInv, SessionInv
      <4>2. CASE \E o, s, step : Begin(u, o, s, step)
        BY <4>2 DEF Begin, Goto, IndexInv, SessionInv, IInv, TypeOK
      <4> QED BY <3>1, <4>1, <4>2
    <3>3. Step(t)
      BY <3>1, <3>2 DEF Begin, Goto, IndexInv, SessionInv, IInv, TypeOK
    <3> QED
      BY <3>3 DEF Step, ReadIndex, ReadSession, JoinGetOrAdd, JoinCheck, JoinPublish,
         UpdateSelection, ClaimElement, ReleaseElement, Query, Enter, LeaveCollect
  <2>2. index'[t[1]] = None
    BY <2>1 DEF LeaveDrop, IndexInv, SessionInv, IInv, TypeOK
  <2>3. t[1] \notin participants'[i]
    BY <2>2 DEF IndexInv, IndexAgrees
  <2> QED BY <2>3 DEF IndexInv, SessionInv, IInv, LockHolderIsPresent
<1>3. IndexInv /\ IndexInv' /\ [Next]_vars => [Complete]_vars
  BY <1>2
<1>4. Spec => [][Complete]_vars
  BY <1>1, <1>3, InitIndexInv, PTL DEF Spec
<1> QED BY <1>4 DEF LeaveIsComplete

-----------------------------------------------------------------------------
(* What an operation in flight knows, when it comes to answer              *)

\* OnDisconnected only leaves, and only lookups by connection start at the index.
Roles ==
  \A t \in Threads :
    /\ op[t] \notin {"none", "leave"} => t = Call(t[1])
    /\ pc[t] = "index" => op[t] \in Mutations \cup {"leave"}
    /\ pc[t] = "session" => op[t] # "none"

\* While the caller is still tracked, the instance its operation has looked up is
\* the one of its session.
CallIsCurrent ==
  \A t \in Threads :
    (op[t] \in Mutations \cup Queries /\ pc[t] = "lock" /\ index[t[1]] # None)
      => sessions[index[t[1]]] = inst[t]

RepliesPerThread == reply = [t \in Threads |-> reply[t]]

RefinementInv == IndexInv /\ Roles /\ CallIsCurrent /\ RepliesPerThread

\* Initially no operation is running.
LEMMA InitRefinementInv == Init => RefinementInv
<1> SUFFICES ASSUME Init PROVE RefinementInv
  OBVIOUS
<1>1. IndexInv
  BY InitIndexInv
<1>2. Roles /\ CallIsCurrent
  BY DEF Init, Roles, CallIsCurrent
<1>3. RepliesPerThread
  BY DEF Init, RepliesPerThread
<1> QED BY <1>1, <1>2, <1>3 DEF RefinementInv

\* Roles are kept by whatever does to a thread what the operations do.
LEMMA KeepRoles ==
  ASSUME Roles, NEW t \in Threads, OthersAlone(t),
         op'[t] \notin {"none", "leave"} => t = Call(t[1]),
         pc'[t] = "index" => op'[t] \in Mutations \cup {"leave"},
         pc'[t] = "session" => op'[t] # "none"
  PROVE  Roles'
  BY DEF Roles, OthersAlone

\* Every step of a thread keeps the roles.
LEMMA StepRoles ==
  ASSUME RefinementInv, NEW t \in Threads, Step(t)
  PROVE  Roles'
<1>1. OthersAlone(t)
  BY StepIsOfOneThread DEF RefinementInv, IndexInv, SessionInv
<1>2. CASE \E v : Return(t, v)
  <2>1. op'[t] = "none" /\ pc'[t] \in {"idle", "done"}
    BY <1>2 DEF Return, RefinementInv, IndexInv, SessionInv, IInv, TypeOK
  <2> QED BY <1>1, <2>1, KeepRoles DEF RefinementInv
<1>3. CASE ~\E v : Return(t, v)
  <2>1. op' = op
    BY <1>3 DEF Step, ReadIndex, ReadSession, JoinGetOrAdd, JoinCheck, JoinPublish,
       UpdateSelection, ClaimElement, ReleaseElement, Query, LeaveDrop, LeaveCollect
  <2>2. pc'[t] # "index" /\ (pc'[t] = "session" => op[t] # "none")
    <3>1. CASE ReadIndex(t)
      BY <1>3, <3>1, PresenceAssumption
      DEF ReadIndex, Goto, RefinementInv, Roles, IndexInv, SessionInv, IInv, TypeOK, Mutations
    <3>2. CASE ReadSession(t) \/ JoinGetOrAdd(t) \/ JoinCheck(t) \/ LeaveDrop(t)
      BY <1>3, <3>2
      DEF ReadSession, JoinGetOrAdd, JoinCheck, LeaveDrop, Goto, RefinementInv, IndexInv,
          SessionInv, IInv, TypeOK
    <3> QED
      BY <1>3, <3>1, <3>2 DEF Step, JoinPublish, UpdateSelection, ClaimElement,
         ReleaseElement, Query, LeaveCollect
  <2> QED BY <1>1, <2>1, <2>2, KeepRoles DEF RefinementInv, Roles
<1> QED BY <1>2, <1>3

\* No step moves a tracked connection to another instance, its own Join excepted.
LEMMA StepKeepsInstance ==
  ASSUME RefinementInv, NEW t \in Threads, Step(t), NEW c \in Connections,
         ~(JoinPublish(t) /\ c = t[1]), index'[c] # None
  PROVE  index[c] = index'[c] /\ sessions'[index[c]] = sessions[index[c]]
<1> USE ThreadFacts, NoneIsNoInstance
<1>0. index[c] # None =>
        index[c] \in Sessions /\ sessions[index[c]] \in Instances
        /\ c \in participants[sessions[index[c]]]
  BY DEF RefinementInv, IndexInv, SessionInv, IInv, TypeOK, OwnSession, IndexAgrees
<1>1. CASE JoinGetOrAdd(t)
  <2>1. sess[t] \in Sessions
    BY <1>1 DEF JoinGetOrAdd, RefinementInv, IndexInv, SessionInv, IInv, ThreadShape
  <2> QED
    BY <1>0, <1>1, <2>1
    DEF JoinGetOrAdd, RefinementInv, IndexInv, SessionInv, IInv, TypeOK
<1>2. CASE JoinPublish(t)
  BY <1>2 DEF JoinPublish, RefinementInv, IndexInv, SessionInv, IInv, TypeOK
<1>3. CASE LeaveDrop(t)
  BY <1>3 DEF LeaveDrop, RefinementInv, IndexInv, SessionInv, IInv, TypeOK
<1>4. CASE LeaveCollect(t)
  <2>1. index[c] # None
    BY <1>4 DEF LeaveCollect
  <2>2. CASE sessions' = sessions
    BY <1>4, <2>2 DEF LeaveCollect
  <2>3. CASE /\ participants[inst[t]] = {} /\ sessions[sess[t]] = inst[t]
             /\ sessions' = [sessions EXCEPT ![sess[t]] = None]
    BY <1>0, <1>4, <2>1, <2>3
    DEF LeaveCollect, RefinementInv, IndexInv, SessionInv, IInv, TypeOK
  <2> QED BY <1>4, <2>2, <2>3 DEF LeaveCollect
<1>5. CASE UNCHANGED <<sessions, index>>
  BY <1>5
<1> QED
  BY <1>1, <1>2, <1>3, <1>4, <1>5
  DEF Step, ReadIndex, ReadSession, JoinCheck, UpdateSelection, ClaimElement,
      ReleaseElement, Query, Enter, maps

\* Every step of a thread keeps the calls current.
LEMMA StepCallIsCurrent ==
  ASSUME OneSessionEach, RefinementInv, NEW t \in Threads, Step(t)
  PROVE  CallIsCurrent'
<1> USE ThreadFacts, PresenceAssumption
<1> SUFFICES ASSUME NEW u \in Threads, op'[u] \in Mutations \cup Queries,
                    pc'[u] = "lock", index'[u[1]] # None
             PROVE  sessions'[index'[u[1]]] = inst'[u]
  BY DEF CallIsCurrent
<1>1. OthersAlone(t)
  BY StepIsOfOneThread DEF RefinementInv, IndexInv, SessionInv
<1>2. CASE u = t
  <2>1. ReadSession(t) /\ sessions[sess[t]] # None /\ inst'[t] = sessions[sess[t]]
    <3>1. op'[t] = op[t] /\ pc'[t] = "lock" /\ op[t] \notin {"join", "leave", "none"}
      BY <1>2 DEF Step, ReadIndex, ReadSession, JoinGetOrAdd, JoinCheck, JoinPublish,
         UpdateSelection, ClaimElement, ReleaseElement, Query, LeaveDrop, LeaveCollect,
         Return, Mutations, Queries, RefinementInv, IndexInv, SessionInv, IInv, TypeOK
    <3>2. ~\E v : Return(t, v)
      BY <3>1 DEF Return, RefinementInv, IndexInv, SessionInv, IInv, TypeOK
    <3>3. ReadSession(t)
      BY <3>1, <3>2
      DEF Step, ReadIndex, JoinGetOrAdd, JoinCheck, JoinPublish, UpdateSelection,
          ClaimElement, ReleaseElement, Query, LeaveDrop, LeaveCollect, Goto,
          RefinementInv, IndexInv, SessionInv, IInv, TypeOK
    <3> QED
      BY <3>2, <3>3 DEF ReadSession, RefinementInv, IndexInv, SessionInv, IInv, TypeOK
  <2>2. sess[t] # None /\ UNCHANGED <<sessions, index>>
    BY <2>1 DEF ReadSession, maps, RefinementInv, IndexInv, SessionInv, IInv, ThreadShape
  <2>3. index[t[1]] = sess[t]
    BY <1>2, <2>2 DEF OneSessionEach, RefinementInv, IndexInv, OwnSession
  <2> QED BY <1>2, <2>1, <2>2, <2>3
<1>3. CASE u # t
  <2>1. /\ op[u] \in Mutations \cup Queries /\ pc[u] = "lock" /\ inst'[u] = inst[u]
    BY <1>1, <1>3 DEF OthersAlone
  <2>2. u = Call(u[1])
    BY <2>1 DEF RefinementInv, Roles, Mutations, Queries
  <2>3. ~(JoinPublish(t) /\ u[1] = t[1])
    BY <1>3, <2>2 DEF JoinPublish, RefinementInv, Roles
  <2>4. index[u[1]] = index'[u[1]] /\ sessions'[index[u[1]]] = sessions[index[u[1]]]
    BY <2>3, StepKeepsInstance
  <2> QED BY <2>1, <2>4 DEF RefinementInv, CallIsCurrent
<1> QED BY <1>2, <1>3

\* An answer is given to one thread.
LEMMA KeepReplies ==
  ASSUME RepliesPerThread, NEW t, NEW v,
         reply' = reply \/ reply' = [reply EXCEPT ![t] = v]
  PROVE  RepliesPerThread'
  BY DEF RepliesPerThread

\* The invariant behind the refinement is inductive.
LEMMA NextRefinementInv ==
  ASSUME OneSessionEach
  PROVE  RefinementInv /\ [Next]_vars => RefinementInv'
<1> SUFFICES ASSUME RefinementInv, [Next]_vars PROVE RefinementInv'
  OBVIOUS
<1>0. IndexInv'
  BY NextIndexInv DEF RefinementInv
<1>1. ASSUME NEW t \in Threads, NEW o, NEW s, NEW step, Begin(t, o, s, step),
             o \notin {"none", "leave"} => t = Call(t[1]), o # "none",
             \/ step = "index" /\ o \in Mutations \cup {"leave"}
             \/ step = "session"
      PROVE  Roles' /\ CallIsCurrent' /\ RepliesPerThread'
  <2>1. OthersAlone(t) /\ op'[t] = o /\ pc'[t] = step
    BY <1>1 DEF Begin, Goto, OthersAlone, RefinementInv, IndexInv, SessionInv, IInv, TypeOK
  <2>2. Roles'
    BY <1>1, <2>1, KeepRoles DEF RefinementInv
  <2>3. CallIsCurrent'
    BY <1>1, <2>1 DEF Begin, maps, OthersAlone, RefinementInv, CallIsCurrent
  <2>4. RepliesPerThread'
    BY <1>1, KeepReplies DEF Begin, RefinementInv
  <2> QED BY <2>2, <2>3, <2>4
<1>2. ASSUME NEW c \in Connections, BeginCall(c)
      PROVE  Roles' /\ CallIsCurrent' /\ RepliesPerThread'
  <2>1. Call(c) \in Threads /\ Call(c) = Call(Call(c)[1])
    BY DEF Threads, Call
  <2>2. PICK o \in Calls :
          \/ o \in Mutations /\ Begin(Call(c), o, None, "index")
          \/ \E s \in JoinTargets[c] : Begin(Call(c), o, s, "session")
    BY <1>2 DEF BeginCall
  <2>3. o # "none"
    BY PresenceAssumption
  <2> QED BY <1>1, <2>1, <2>2, <2>3
<1>3. ASSUME NEW c \in Connections, BeginLeave(c)
      PROVE  Roles' /\ CallIsCurrent' /\ RepliesPerThread'
  <2>1. Disconnect(c) \in Threads
    BY DEF Threads, Disconnect
  <2> QED BY <1>1, <1>3, <2>1 DEF BeginLeave
<1>4. ASSUME NEW t \in Threads, Step(t)
      PROVE  Roles' /\ CallIsCurrent' /\ RepliesPerThread'
  <2>1. Roles' /\ CallIsCurrent'
    BY <1>4, StepRoles, StepCallIsCurrent
  <2>2. reply' = reply \/ \E v : reply' = [reply EXCEPT ![t] = v]
    BY <1>4 DEF Step, ReadIndex, ReadSession, JoinGetOrAdd, JoinCheck, JoinPublish,
       UpdateSelection, ClaimElement, ReleaseElement, Query, LeaveDrop, LeaveReply,
       LeaveCollect, Return
  <2>3. RepliesPerThread'
    BY <2>2, KeepReplies DEF RefinementInv
  <2> QED BY <2>1, <2>3
<1>5. ASSUME UNCHANGED vars
      PROVE  Roles' /\ CallIsCurrent' /\ RepliesPerThread'
  <2>1. UNCHANGED <<sessions, index, op, pc, inst, reply>>
    BY <1>5 DEF vars, maps, local
  <2> QED BY <2>1 DEF RefinementInv, Roles, CallIsCurrent, RepliesPerThread
<1> QED BY <1>0, <1>1, <1>2, <1>3, <1>4, <1>5 DEF Next, Idle, RefinementInv

-----------------------------------------------------------------------------
(* Refinement of PresenceRegistry                                          *)

\* The registry's selections and locks, as the two maps and the instances hold them.
Selections ==
  [c \in Connections |->
     IF index[c] = None THEN {} ELSE selected[sessions[index[c]]][c]]
Holders ==
  [s \in Sessions |->
     IF sessions[s] = None THEN [e \in Elements |-> None] ELSE locks[sessions[s]]]

\* Initially nobody is present.
LEMMA InitRegistry == Init => Registry!Init
  BY DEF Init, Registry!Init, Registry!NobodyPresent, Registry!Threads, Threads

\* The roster of a mapped instance is the roster of the session it serves.
LEMMA RosterOfMapped ==
  ASSUME IndexInv, NEW s \in Sessions, NEW i \in Instances, sessions[s] = i
  PROVE  Registry!Roster(s) = Roster(participants[i], selected[i])
<1> USE PresenceAssumption, NoneIsNoInstance
<1>1. \A d \in Connections : d \in participants[i] <=> index[d] = s
  BY DEF IndexInv, SessionInv, IInv, TypeOK, IndexAgrees, OneSessionPerInstance
<1>2. \A d \in participants[i] : Selections[d] = selected[i][d]
  BY <1>1 DEF Selections, IndexInv, SessionInv, IInv, TypeOK
<1>3. participants[i] \in SUBSET Connections
  BY DEF IndexInv, SessionInv, IInv, TypeOK
<1>4. {d \in Connections : index[d] = s} = participants[i]
  BY <1>1, <1>3
<1> QED BY <1>2, <1>4 DEF Registry!Roster, Selections, Roster

\* The locks of a mapped instance are the locks of the session it serves.
LEMMA LocksOfMapped ==
  ASSUME IndexInv, NEW s \in Sessions, NEW i \in Instances, sessions[s] = i
  PROVE  Registry!LocksOf(s) = LocksIn(i)
  BY NoneIsNoInstance DEF Registry!LocksOf, LocksIn

\* Nobody is in an instance the session map no longer holds, and nothing is locked.
LEMMA StaleIsEmpty ==
  ASSUME IndexInv, NEW i \in Instances, \A s \in Sessions : sessions[s] # i
  PROVE  Roster(participants[i], selected[i]) = NoRoster /\ LocksIn(i) = {}
<1> USE PresenceAssumption
<1>1. participants[i] = {}
  BY DEF IndexInv, SessionInv, IInv, ParticipantsAreMapped, Mapped
<1>2. \A e \in Elements : locks[i][e] = None
  BY <1>1 DEF IndexInv, SessionInv, IInv, LockHolderIsPresent
<1> QED BY <1>1, <1>2 DEF Roster, NoRoster, LocksIn

\* The instance a thread looked up is the one of its session, or stale.
LEMMA LookedUp ==
  ASSUME IndexInv, NEW t \in Threads, pc[t] \in {"lock", "inside"}
  PROVE  /\ sess[t] \in Sessions /\ inst[t] \in Instances
         /\ sessions[sess[t]] = inst[t] \/ \A s \in Sessions : sessions[s] # inst[t]
  BY DEF IndexInv, SessionInv, IInv, ThreadShape, LookedUpForSession

Stuttering == UNCHANGED <<index, Selections, Holders, reply>>

\* A caller that is looked up in vain is in no session.
LEMMA VainIsUntracked ==
  ASSUME OneSessionEach, RefinementInv, NEW t \in Threads,
         \/ pc[t] = "index" /\ index[t[1]] = None
         \/ pc[t] = "session" /\ sessions[sess[t]] = None
  PROVE  op[t] \in Mutations \cup {"leave"} => index[t[1]] = None
<1> USE ThreadFacts, PresenceAssumption
<1> SUFFICES ASSUME pc[t] = "session", sessions[sess[t]] = None, index[t[1]] # None
             PROVE  FALSE
  OBVIOUS
<1>1. sess[t] \in Sessions /\ sess[t] # None
  BY DEF RefinementInv, IndexInv, SessionInv, IInv, ThreadShape
<1>2. index[t[1]] = sess[t]
  BY <1>1 DEF OneSessionEach, RefinementInv, IndexInv, OwnSession
<1> QED BY <1>2 DEF RefinementInv, IndexInv, OwnSession

\* Looking an instance up or giving up is a stutter or an untracked answer.
LEMMA LookupRefines ==
  ASSUME OneSessionEach, RefinementInv, NEW t \in Threads, ReadIndex(t) \/ ReadSession(t)
  PROVE  Registry!Next \/ Stuttering
<1> USE ThreadFacts, PresenceAssumption
<1> DEFINE c == t[1]
<1>0. UNCHANGED <<sessions, index, selected, locks>>
  BY DEF ReadIndex, ReadSession, maps, state
<1>1. UNCHANGED <<index, Selections, Holders>>
  BY <1>0 DEF Selections, Holders
<1>2. CASE UNCHANGED reply
  BY <1>1, <1>2 DEF Stuttering
<1>3. CASE ~UNCHANGED reply
  <2>1. /\ reply' = [reply EXCEPT ![t] = Untracked(op[t])]
        /\ \/ pc[t] = "index" /\ index[c] = None
           \/ pc[t] = "session" /\ sessions[sess[t]] = None
    BY <1>3 DEF ReadIndex, ReadSession, Return
  <2>2. op[t] \in Mutations \cup Queries \cup {"leave"}
    BY <2>1 DEF ReadIndex, ReadSession, RefinementInv, Roles, IndexInv, SessionInv, IInv,
       TypeOK, Ops
  <2>3. op[t] \in Mutations \cup {"leave"} => index[c] = None
    BY <2>1, VainIsUntracked
  <2>4. CASE op[t] = "leave"
    <3>1. t = Disconnect(c) /\ index[c] = None
      BY <2>3, <2>4 DEF RefinementInv, IndexInv, LeaveIsCurrent
    <3>2. reply' = [reply EXCEPT ![Disconnect(c)] =
                      [left |-> None, survivors |-> NoRoster, freed |-> {}]]
      BY <2>1, <2>4, <3>1 DEF Untracked
    <3>3. Registry!Leave(c)
      BY <1>1, <3>1, <3>2
      DEF Registry!Leave, Registry!Reply, Registry!Disconnect, Disconnect,
          Registry!NoRoster, NoRoster, Registry!registry, Selections, Holders
    <3> QED BY <3>3 DEF Registry!Next
  <2>5. CASE op[t] = "select"
    <3>1. t = Call(c) /\ index[c] = None
      BY <2>3, <2>5 DEF RefinementInv, Roles, Mutations
    <3>2. reply' = [reply EXCEPT ![Call(c)] = [roster |-> NoRoster]]
      BY <2>1, <2>5, <3>1 DEF Untracked
    <3>3. Registry!UpdateSelection(c, {})
      BY <1>1, <3>1, <3>2
      DEF Registry!UpdateSelection, Registry!Select, Registry!Reply, Registry!Call, Call,
          Registry!NoRoster, NoRoster, Selections, Holders
    <3> QED BY <3>3 DEF Registry!Next
  <2>6. CASE op[t] = "claim"
    <3>1. t = Call(c) /\ index[c] = None
      BY <2>3, <2>6 DEF RefinementInv, Roles, Mutations
    <3>2. reply' = [reply EXCEPT ![Call(c)] = [holder |-> None]]
      BY <2>1, <2>6, <3>1 DEF Untracked
    <3>3. PICK e : e \in Elements
      OBVIOUS
    <3>4. Registry!ClaimElement(c, e)
      BY <1>1, <3>1, <3>2
      DEF Registry!ClaimElement, Registry!Claim, Registry!Free, Registry!Reply, Registry!Call,
          Call, Selections, Holders
    <3> QED BY <3>3, <3>4 DEF Registry!Next
  <2>7. CASE op[t] = "release"
    <3>1. t = Call(c) /\ index[c] = None
      BY <2>3, <2>7 DEF RefinementInv, Roles, Mutations
    <3>2. reply' = [reply EXCEPT ![Call(c)] = [released |-> FALSE]]
      BY <2>1, <2>7, <3>1 DEF Untracked
    <3>3. PICK e : e \in Elements
      OBVIOUS
    <3>4. ~Registry!Holds(c, e) /\ Registry!Holds(c, e) = FALSE
      BY <3>1 DEF Registry!Holds
    <3>5. Registry!ReleaseElement(c, e)
      BY <1>1, <3>2, <3>4
      DEF Registry!ReleaseElement, Registry!Release, Registry!Reply, Registry!Call,
          Call, Selections, Holders
    <3> QED BY <3>3, <3>5 DEF Registry!Next
  <2>8. CASE op[t] \in Queries
    <3>1. /\ pc[t] = "session" /\ sessions[sess[t]] = None /\ sess[t] \in Sessions
          /\ index[c] # sess[t]
      <4>1. pc[t] # "index"
        BY <2>8 DEF RefinementInv, Roles, Mutations, Queries
      <4>2. pc[t] = "session" /\ sessions[sess[t]] = None /\ sess[t] \in Sessions
        BY <2>1, <4>1 DEF RefinementInv, IndexInv, SessionInv, IInv, ThreadShape
      <4> QED BY <4>2 DEF RefinementInv, IndexInv, OwnSession
    <3>2. t \in Registry!Threads
      BY DEF Registry!Threads, Threads
    <3>3. CASE op[t] = "locks"
      <4>1. reply' = [reply EXCEPT ![t] = [locks |-> {}]]
        BY <2>1, <3>3 DEF Untracked
      <4>2. Registry!GetLocks(t, sess[t], {c})
        BY <1>1, <3>1, <4>1
        DEF Registry!GetLocks, Registry!Reply, Registry!registry, Selections, Holders
      <4> QED BY <3>1, <3>2, <4>2 DEF Registry!Next
    <3>4. CASE op[t] = "roster"
      <4>1. reply' = [reply EXCEPT ![t] = [roster |-> NoRoster]]
        BY <2>1, <3>4 DEF Untracked
      <4>2. Registry!GetParticipants(t, sess[t], {c})
        BY <1>1, <3>1, <4>1
        DEF Registry!GetParticipants, Registry!Reply, Registry!registry, Selections, Holders,
            Registry!NoRoster, NoRoster
      <4> QED BY <3>1, <3>2, <4>2 DEF Registry!Next
    <3> QED BY <2>8, <3>3, <3>4 DEF Queries
  <2> QED BY <2>2, <2>4, <2>5, <2>6, <2>7, <2>8 DEF Mutations
<1> QED BY <1>2, <1>3

\* The roster of a mapped instance is the roster of its session after a step, too.
LEMMA RosterAfter ==
  ASSUME IndexInv', NEW s \in Sessions, NEW i \in Instances, sessions'[s] = i
  PROVE  Registry!Roster(s)' = Roster(participants'[i], selected'[i])
<1> USE PresenceAssumption, NoneIsNoInstance
<1>1. \A d \in Connections : d \in participants'[i] <=> index'[d] = s
  BY DEF IndexInv, SessionInv, IInv, TypeOK, IndexAgrees, OneSessionPerInstance
<1>2. \A d \in participants'[i] : Selections'[d] = selected'[i][d]
  BY <1>1 DEF Selections, IndexInv, SessionInv, IInv, TypeOK
<1>3. participants'[i] \in SUBSET Connections
  BY DEF IndexInv, SessionInv, IInv, TypeOK
<1>4. {d \in Connections : index'[d] = s} = participants'[i]
  BY <1>1, <1>3
<1> QED BY <1>2, <1>4 DEF Registry!Roster, Selections, Roster

\* The session a caller is in is the one its operation works on.
LEMMA CallerOfInstance ==
  ASSUME RefinementInv, NEW t \in Threads, pc[t] = "lock",
         op[t] \in Mutations \cup Queries
  PROVE  /\ t = Call(t[1])
         /\ t[1] \in participants[inst[t]] <=> index[t[1]] # None
         /\ index[t[1]] # None => /\ index[t[1]] \in Sessions
                                  /\ sessions[index[t[1]]] = inst[t]
<1> USE ThreadFacts
<1>1. inst[t] \in Instances
  BY LookedUp DEF RefinementInv
<1>2. t = Call(t[1])
  BY DEF RefinementInv, Roles, Mutations, Queries
<1>3. index[t[1]] # None => index[t[1]] \in Sessions /\ sessions[index[t[1]]] = inst[t]
  BY DEF RefinementInv, CallIsCurrent, IndexInv, SessionInv, IInv, TypeOK
<1>4. t[1] \in participants[inst[t]]
        <=> index[t[1]] # None /\ sessions[index[t[1]]] = inst[t]
  BY <1>1 DEF RefinementInv, IndexInv, IndexAgrees
<1> QED BY <1>2, <1>3, <1>4

\* What the registry's Select, Claim and Release need, in terms of the mapping.
LEMMA RegistrySelect ==
  ASSUME NEW c \in Connections, NEW s, NEW elements \in SUBSET Elements,
         index[c] = s, s # None, UNCHANGED <<index, Holders>>,
         Selections' = [Selections EXCEPT ![c] = elements],
         reply' = [reply EXCEPT ![Call(c)] = [roster |-> Registry!Roster(s)']]
  PROVE  Registry!Next
<1>1. Registry!Select(c, elements)
  BY DEF Registry!Select, Selections, Holders
<1>2. Registry!Roster(index[c])' = Registry!Roster(s)'
  BY DEF Registry!Roster
<1>3. Registry!UpdateSelection(c, elements)
  BY <1>1, <1>2 DEF Registry!UpdateSelection, Registry!Reply, Registry!Call, Call
<1> QED BY <1>3 DEF Registry!Next

\* A free element is granted, a held one reported.
LEMMA RegistryClaim ==
  ASSUME NEW c \in Connections, NEW e \in Elements, NEW s, index[c] = s, s # None,
         \/ Holders[s][e] = None /\ Holders' = [Holders EXCEPT ![s][e] = c]
         \/ Holders[s][e] # None /\ Holders' = Holders,
         UNCHANGED <<index, Selections>>,
         reply' = [reply EXCEPT ![Call(c)] = [holder |-> Holders'[s][e]]]
  PROVE  Registry!Next
<1>1. Registry!Free(c, e) <=> Holders[s][e] = None
  BY DEF Registry!Free, Holders
<1>2. Registry!Claim(c, e)
  BY <1>1 DEF Registry!Claim, Holders, Selections
<1>3. Registry!ClaimElement(c, e)
  BY <1>2 DEF Registry!ClaimElement, Registry!Reply, Registry!Call, Call, Holders
<1> QED BY <1>3 DEF Registry!Next

\* A lock is only taken from its holder.
LEMMA RegistryRelease ==
  ASSUME NEW c \in Connections, NEW e \in Elements, NEW s, index[c] = s, s # None,
         \/ /\ Holders[s][e] = c /\ Holders' = [Holders EXCEPT ![s][e] = None]
            /\ reply' = [reply EXCEPT ![Call(c)] = [released |-> TRUE]]
         \/ /\ Holders[s][e] # c /\ Holders' = Holders
            /\ reply' = [reply EXCEPT ![Call(c)] = [released |-> FALSE]],
         UNCHANGED <<index, Selections>>
  PROVE  Registry!Next
<1>1. Registry!Holds(c, e) = (Holders[s][e] = c)
  BY DEF Registry!Holds, Holders
<1>2. Registry!Release(c, e)
  BY <1>1 DEF Registry!Release, Holders, Selections
<1>3. reply' = [reply EXCEPT ![Call(c)] = [released |-> Registry!Holds(c, e)]]
  BY <1>1
<1>4. Registry!ReleaseElement(c, e)
  BY <1>2, <1>3 DEF Registry!ReleaseElement, Registry!Reply, Registry!Call, Call
<1> QED BY <1>4 DEF Registry!Next

\* UpdateSelection under the gate is the registry's.
LEMMA UpdateSelectionRefines ==
  ASSUME RefinementInv, IndexInv', NEW t \in Threads, UpdateSelection(t)
  PROVE  Registry!Next
<1> USE ThreadFacts, NoneIsNoInstance
<1> DEFINE c == t[1]  i == inst[t]
<1>1. /\ pc[t] = "lock" /\ op[t] = "select"
      /\ reply' = [reply EXCEPT ![t] = [roster |-> Roster(participants[i], selected'[i])]]
      /\ UNCHANGED <<sessions, index, participants, locks>>
  BY DEF UpdateSelection, Enter, Return, maps
<1>2. /\ t = Call(c) /\ (c \in participants[i] <=> index[c] # None)
      /\ index[c] # None => index[c] \in Sessions /\ sessions[index[c]] = i
  BY <1>1, CallerOfInstance DEF Mutations
<1>3. i \in Instances
  BY <1>1, LookedUp DEF RefinementInv
<1>4. UNCHANGED <<index, Holders>>
  BY <1>1 DEF Holders
<1>5. CASE c \in participants[i]
  <2>0. PICK s \in Sessions : s = index[c] /\ s # None /\ sessions[s] = i
    BY <1>2, <1>5
  <2>1. PICK elements \in SUBSET Elements :
          selected' = [selected EXCEPT ![i][c] = elements]
    BY <1>5 DEF UpdateSelection
  <2>2. Selections' = [Selections EXCEPT ![c] = elements]
    <3>1. \A j \in Instances, d \in Connections :
            selected'[j][d] = IF j = i /\ d = c THEN elements ELSE selected[j][d]
      BY <1>3, <2>1 DEF RefinementInv, IndexInv, SessionInv, IInv, TypeOK
    <3>2. \A d \in Connections : index[d] # None => sessions[index[d]] \in Instances
      BY DEF RefinementInv, IndexInv, SessionInv, IInv, TypeOK, OwnSession
    <3>3. \A d \in Connections : Selections'[d] = IF d = c THEN elements ELSE Selections[d]
      BY <1>1, <2>0, <3>1, <3>2 DEF Selections
    <3> QED BY <3>3 DEF Selections
  <2>3. Registry!Roster(s)' = Roster(participants'[i], selected'[i])
    BY <1>1, <1>3, <2>0, RosterAfter
  <2>4. reply' = [reply EXCEPT ![Call(c)] = [roster |-> Registry!Roster(s)']]
    BY <1>1, <1>2, <2>3
  <2> QED BY <1>4, <2>0, <2>2, <2>4, RegistrySelect
<1>6. CASE c \notin participants[i]
  <2>1. selected' = selected /\ index[c] = None
    BY <1>2, <1>6 DEF UpdateSelection
  <2>2. Roster(participants[i], selected[i])
          \in {NoRoster} \cup {Registry!Roster(s) : s \in Sessions}
    BY <1>1, LookedUp, RosterOfMapped, StaleIsEmpty DEF RefinementInv
  <2>3. UNCHANGED Selections
    BY <1>1, <2>1 DEF Selections
  <2>4. \E r \in {NoRoster} \cup {Registry!Roster(s) : s \in Sessions} :
          reply' = [reply EXCEPT ![Call(c)] = [roster |-> r]]
    BY <1>1, <1>2, <2>1, <2>2
  <2>5. Registry!UpdateSelection(c, {})
    BY <1>4, <2>1, <2>3, <2>4
    DEF Registry!UpdateSelection, Registry!Select, Registry!Reply, Registry!Call, Call,
        Registry!NoRoster, NoRoster, Selections, Holders
  <2> QED BY <2>5 DEF Registry!Next
<1> QED BY <1>5, <1>6

\* ClaimElement under the gate is the registry's.
LEMMA ClaimElementRefines ==
  ASSUME RefinementInv, NEW t \in Threads, ClaimElement(t)
  PROVE  Registry!Next
<1> USE ThreadFacts, NoneIsNoInstance, PresenceAssumption
<1> DEFINE c == t[1]  i == inst[t]
<1>1. /\ pc[t] = "lock" /\ op[t] = "claim"
      /\ UNCHANGED <<sessions, index, participants, selected>>
  BY DEF ClaimElement, Enter, maps
<1>2. /\ t = Call(c) /\ (c \in participants[i] <=> index[c] # None)
      /\ index[c] # None => index[c] \in Sessions /\ sessions[index[c]] = i
  BY <1>1, CallerOfInstance DEF Mutations
<1>3. i \in Instances /\ IndexInv
  BY <1>1, LookedUp DEF RefinementInv
<1>4. UNCHANGED <<index, Selections>>
  BY <1>1 DEF Selections
<1>6. CASE c \notin participants[i]
  <2>1. reply' = [reply EXCEPT ![Call(c)] = [holder |-> None]] /\ UNCHANGED Holders
    BY <1>1, <1>2, <1>6 DEF ClaimElement, Return, Holders
  <2>2. PICK e : e \in Elements
    OBVIOUS
  <2>3. Registry!ClaimElement(c, e)
    BY <1>2, <1>4, <1>6, <2>1
    DEF Registry!ClaimElement, Registry!Claim, Registry!Free, Registry!Reply, Registry!Call,
        Call, Selections, Holders
  <2> QED BY <2>2, <2>3 DEF Registry!Next
<1>7. CASE c \in participants[i]
  <2>0. PICK s \in Sessions : s = index[c] /\ s # None /\ sessions[s] = i
    BY <1>2, <1>7
  <2>1. Holders[s] = locks[i] /\ locks[i] \in [Elements -> Connections \cup {None}]
    BY <1>3, <2>0 DEF Holders, IndexInv, SessionInv, IInv, TypeOK
  <2>2. PICK e \in Elements :
          \/ /\ locks[i][e] \notin {None, c} /\ Return(t, [holder |-> locks[i][e]])
             /\ UNCHANGED locks
          \/ /\ locks[i][e] \in {None, c} /\ Return(t, [holder |-> c])
             /\ locks' = [locks EXCEPT ![i][e] = c]
    BY <1>7 DEF ClaimElement
  <2>3. CASE locks[i][e] \notin {None, c}
    <3>1. UNCHANGED Holders /\ Holders[s][e] # None
      BY <1>1, <2>1, <2>2, <2>3 DEF Holders
    <3>2. reply' = [reply EXCEPT ![Call(c)] = [holder |-> Holders'[s][e]]]
      BY <1>2, <2>1, <2>2, <2>3, <3>1 DEF Return
    <3> QED BY <1>4, <2>0, <3>1, <3>2, RegistryClaim
  <2>4. CASE locks[i][e] \in {None, c}
    <3>1. Holders' = [Holders EXCEPT ![s][e] = c] /\ Holders'[s][e] = c
      <4>1. \A j \in Instances :
              locks'[j] = IF j = i THEN [locks[i] EXCEPT ![e] = c] ELSE locks[j]
        BY <1>3, <2>2, <2>4 DEF IndexInv, SessionInv, IInv, TypeOK
      <4>2. \A x \in Sessions : x # s /\ sessions[x] # None =>
              sessions[x] \in Instances /\ sessions[x] # i
        BY <1>3, <2>0 DEF IndexInv, SessionInv, IInv, TypeOK, OneSessionPerInstance
      <4>3. \A x \in Sessions :
              Holders'[x] = IF x = s THEN [Holders[s] EXCEPT ![e] = c] ELSE Holders[x]
        BY <1>1, <1>3, <2>0, <2>1, <4>1, <4>2 DEF Holders
      <4> QED BY ZenonT(60), <1>3, <2>0, <2>1, <4>3 DEF Holders, IndexInv, SessionInv, IInv, TypeOK
    <3>2. reply' = [reply EXCEPT ![Call(c)] = [holder |-> Holders'[s][e]]]
      BY <1>2, <2>2, <2>4, <3>1 DEF Return
    <3>3. Holders[s][e] = c => Holders' = Holders
      BY SMTT(60), <2>0, <2>1, <3>1 DEF Holders
    <3> QED BY <1>4, <2>0, <2>1, <2>4, <3>1, <3>2, <3>3, RegistryClaim
  <2> QED BY <2>3, <2>4
<1> QED BY <1>6, <1>7

\* ReleaseElement under the gate is the registry's.
LEMMA ReleaseElementRefines ==
  ASSUME RefinementInv, NEW t \in Threads, ReleaseElement(t)
  PROVE  Registry!Next
<1> USE ThreadFacts, NoneIsNoInstance, PresenceAssumption
<1> DEFINE c == t[1]  i == inst[t]
<1>1. /\ pc[t] = "lock" /\ op[t] = "release"
      /\ UNCHANGED <<sessions, index, participants, selected>>
  BY DEF ReleaseElement, Enter, maps
<1>2. /\ t = Call(c) /\ (c \in participants[i] <=> index[c] # None)
      /\ index[c] # None => index[c] \in Sessions /\ sessions[index[c]] = i
  BY <1>1, CallerOfInstance DEF Mutations
<1>3. i \in Instances /\ IndexInv
  BY <1>1, LookedUp DEF RefinementInv
<1>4. UNCHANGED <<index, Selections>>
  BY <1>1 DEF Selections
<1>5. PICK e \in Elements :
        \/ /\ locks[i][e] = c /\ Return(t, [released |-> TRUE])
           /\ locks' = [locks EXCEPT ![i][e] = None]
        \/ locks[i][e] # c /\ Return(t, [released |-> FALSE]) /\ UNCHANGED locks
  BY DEF ReleaseElement
<1>6. CASE c \notin participants[i]
  <2>1. locks[i][e] # c
    BY <1>3, <1>6 DEF IndexInv, SessionInv, IInv, LockHolderIsPresent
  <2>2. reply' = [reply EXCEPT ![Call(c)] = [released |-> FALSE]] /\ UNCHANGED Holders
    BY <1>1, <1>2, <1>5, <2>1 DEF Return, Holders
  <2>3. Registry!Holds(c, e) = FALSE
    BY <1>2, <1>6 DEF Registry!Holds
  <2>4. Registry!ReleaseElement(c, e)
    BY <1>4, <2>2, <2>3
    DEF Registry!ReleaseElement, Registry!Release, Registry!Reply, Registry!Call, Call,
        Selections, Holders
  <2> QED BY <2>4 DEF Registry!Next
<1>7. CASE c \in participants[i]
  <2>0. PICK s \in Sessions : s = index[c] /\ s # None /\ sessions[s] = i
    BY <1>2, <1>7
  <2>1. Holders[s] = locks[i]
    BY <1>3, <2>0 DEF Holders
  <2>3. CASE locks[i][e] # c
    <3>1. UNCHANGED Holders
      BY <1>1, <1>5, <2>3 DEF Holders
    <3>2. reply' = [reply EXCEPT ![Call(c)] = [released |-> FALSE]]
      BY <1>2, <1>5, <2>3 DEF Return
    <3>3. Holders[s][e] # c
      BY <2>1, <2>3
    <3> QED BY <1>4, <2>0, <3>1, <3>2, <3>3, RegistryRelease
  <2>4. CASE locks[i][e] = c
    <3>1. Holders' = [Holders EXCEPT ![s][e] = None]
      <4>1. \A j \in Instances :
              locks'[j] = IF j = i THEN [locks[i] EXCEPT ![e] = None] ELSE locks[j]
        BY <1>3, <1>5, <2>4 DEF IndexInv, SessionInv, IInv, TypeOK
      <4>2. \A x \in Sessions : x # s /\ sessions[x] # None =>
              sessions[x] \in Instances /\ sessions[x] # i
        BY <1>3, <2>0 DEF IndexInv, SessionInv, IInv, TypeOK, OneSessionPerInstance
      <4>3. \A x \in Sessions :
              Holders'[x] = IF x = s THEN [Holders[s] EXCEPT ![e] = None] ELSE Holders[x]
        BY <1>1, <1>3, <2>0, <2>1, <4>1, <4>2 DEF Holders
      <4> QED BY <1>3, <2>0, <2>1, <4>3 DEF Holders, IndexInv, SessionInv, IInv, TypeOK
    <3>2. reply' = [reply EXCEPT ![Call(c)] = [released |-> TRUE]]
      BY <1>2, <1>5, <2>4 DEF Return
    <3> QED BY <1>4, <2>0, <2>1, <2>4, <3>1, <3>2, RegistryRelease
  <2> QED BY <2>3, <2>4
<1> QED BY <1>6, <1>7

\* GetLocks and GetParticipants answer as the registry would: a stale instance is
\* empty, and the caller is not in the session any more.
LEMMA QueryRefines ==
  ASSUME RefinementInv, NEW t \in Threads, Query(t)
  PROVE  Registry!Next
<1> USE ThreadFacts, PresenceAssumption
<1> DEFINE c == t[1]  i == inst[t]  s == sess[t]
<1>1. /\ pc[t] = "lock" /\ op[t] \in Queries
      /\ UNCHANGED <<sessions, index, participants, selected, locks>>
  BY DEF Query, Enter, maps, state, Queries
<1>2. /\ s \in Sessions /\ i \in Instances /\ t \in Registry!Threads
      /\ sessions[s] = i \/ \A x \in Sessions : sessions[x] # i
  BY <1>1, LookedUp DEF RefinementInv, Threads, Registry!Threads
<1>3. UNCHANGED <<index, Selections, Holders>>
  BY <1>1 DEF Selections, Holders
<1>4. sessions[s] # i => index[c] # s
  BY <1>1, <1>2, CallerOfInstance
<1>5. CASE op[t] = "locks"
  <2>1. reply' = [reply EXCEPT ![t] = [locks |-> LocksIn(i)]]
    BY <1>5 DEF Query, Enter, Return
  <2>2. \/ reply' = [reply EXCEPT ![t] = [locks |-> Registry!LocksOf(s)]]
        \/ index[c] # s /\ reply' = [reply EXCEPT ![t] = [locks |-> {}]]
    BY <1>2, <1>4, <2>1, LocksOfMapped, StaleIsEmpty DEF RefinementInv
  <2>3. Registry!GetLocks(t, s, {c})
    BY <1>3, <2>2
    DEF Registry!GetLocks, Registry!Reply, Registry!registry, Selections, Holders
  <2> QED BY <1>2, <2>3 DEF Registry!Next
<1>6. CASE op[t] = "roster"
  <2>1. reply' = [reply EXCEPT ![t] = [roster |-> Roster(participants[i], selected[i])]]
    BY <1>6 DEF Query, Enter, Return
  <2>2. \/ reply' = [reply EXCEPT ![t] = [roster |-> Registry!Roster(s)]]
        \/ index[c] # s /\ reply' = [reply EXCEPT ![t] = [roster |-> NoRoster]]
    BY <1>2, <1>4, <2>1, RosterOfMapped, StaleIsEmpty DEF RefinementInv
  <2>3. Registry!GetParticipants(t, s, {c})
    BY <1>3, <2>2
    DEF Registry!GetParticipants, Registry!Reply, Registry!registry, Registry!NoRoster,
        NoRoster, Selections, Holders
  <2> QED BY <1>2, <2>3 DEF Registry!Next
<1> QED BY <1>1, <1>5, <1>6 DEF Queries

\* The look-ups of Join change nothing a caller could see.
LEMMA JoinLookupRefines ==
  ASSUME RefinementInv, NEW t \in Threads, JoinGetOrAdd(t) \/ JoinCheck(t)
  PROVE  Stuttering
<1> USE NoneIsNoInstance, PresenceAssumption
<1>1. CASE UNCHANGED sessions
  BY <1>1 DEF JoinGetOrAdd, JoinCheck, maps, state, Stuttering, Selections, Holders
<1>2. CASE ~UNCHANGED sessions
  <2>1. /\ sess[t] \in Sessions /\ sessions[sess[t]] = None
        /\ sessions' = [sessions EXCEPT ![sess[t]] = created + 1]
        /\ created + 1 \in Instances /\ created + 1 > created
        /\ UNCHANGED <<index, participants, selected, locks, reply>>
    BY <1>2 DEF JoinGetOrAdd, JoinCheck, maps, state, RefinementInv, IndexInv, SessionInv,
       IInv, TypeOK, ThreadShape, Instances
  <2>2. locks[created + 1] = [e \in Elements |-> None]
    <3>1. participants[created + 1] = {}
      BY <2>1 DEF RefinementInv, IndexInv, SessionInv, IInv, FreshIsUnused
    <3>2. \A e \in Elements : locks[created + 1][e] = None
      BY <2>1, <3>1 DEF RefinementInv, IndexInv, SessionInv, IInv, LockHolderIsPresent
    <3> QED BY <2>1, <3>2 DEF RefinementInv, IndexInv, SessionInv, IInv, TypeOK
  <2>3. \A x \in Sessions :
          sessions'[x] = IF x = sess[t] THEN created + 1 ELSE sessions[x]
    BY <2>1 DEF RefinementInv, IndexInv, SessionInv, IInv, TypeOK
  <2>4. UNCHANGED Holders
    BY <2>1, <2>2, <2>3 DEF Holders
  <2>5. \A d \in Connections : index[d] # None =>
          index[d] \in Sessions /\ index[d] # sess[t]
    BY <2>1 DEF RefinementInv, IndexInv, SessionInv, IInv, TypeOK, OwnSession
  <2>6. UNCHANGED Selections
    BY <2>1, <2>3, <2>5 DEF Selections
  <2> QED BY <2>1, <2>4, <2>6 DEF Stuttering
<1> QED BY <1>1, <1>2

\* Publishing the participant is the registry's Join.
LEMMA JoinPublishRefines ==
  ASSUME OneSessionEach, RefinementInv, IndexInv', NEW t \in Threads, JoinPublish(t)
  PROVE  Registry!Next
<1> USE ThreadFacts, NoneIsNoInstance, PresenceAssumption
<1> DEFINE c == t[1]  i == inst[t]
<1>1. PICK s \in Sessions : s = sess[t] /\ sessions[s] = i /\ s # None
  BY DEF JoinPublish, RefinementInv, IndexInv, SessionInv, IInv, ThreadShape, JoinIsMapped
<1>2. /\ i \in Instances /\ c \in Connections /\ t = Call(c)
      /\ index' = [index EXCEPT ![c] = s]
      /\ selected' = [selected EXCEPT ![i][c] = {}]
      /\ UNCHANGED <<sessions, locks>>
      /\ reply' = [reply EXCEPT ![t] = [roster |-> Roster(participants'[i], selected'[i])]]
  BY <1>1 DEF JoinPublish, Return, RefinementInv, Roles, IndexInv, SessionInv, IInv, ThreadShape
<1>3. index[c] \in {s, None}
  BY <1>1, <1>2 DEF OneSessionEach, RefinementInv, IndexInv, OwnSession
<1>4. UNCHANGED Holders
  BY <1>2 DEF Holders
<1>5. Selections' = [Selections EXCEPT ![c] = {}]
  <2>1. \A j \in Instances, d \in Connections :
          selected'[j][d] = IF j = i /\ d = c THEN {} ELSE selected[j][d]
    BY <1>2 DEF RefinementInv, IndexInv, SessionInv, IInv, TypeOK
  <2>2. \A d \in Connections : index[d] # None => sessions[index[d]] \in Instances
    BY DEF RefinementInv, IndexInv, SessionInv, IInv, TypeOK, OwnSession
  <2>3. \A d \in Connections : index'[d] = IF d = c THEN s ELSE index[d]
    BY <1>2 DEF RefinementInv, IndexInv, SessionInv, IInv, TypeOK
  <2>4. \A d \in Connections : Selections'[d] = IF d = c THEN {} ELSE Selections[d]
    BY <1>1, <1>2, <2>1, <2>2, <2>3 DEF Selections
  <2> QED BY <2>4 DEF Selections
<1>6. Registry!Roster(s)' = Roster(participants'[i], selected'[i])
  BY <1>1, <1>2, RosterAfter
<1>7. reply' = [reply EXCEPT ![Call(c)] = [roster |-> Registry!Roster(s)']]
  BY <1>2, <1>6
<1>8. Registry!Join(c, s)
  BY <1>2, <1>3, <1>4, <1>5, <1>7
  DEF Registry!Join, Registry!Enrol, Registry!Reply, Registry!Call, Call, Selections, Holders
<1> QED BY <1>1, <1>2, <1>8 DEF Registry!Next

\* Dropping the connection under the gate is the registry's Leave.
LEMMA LeaveDropRefines ==
  ASSUME RefinementInv, IndexInv', NEW t \in Threads, LeaveDrop(t)
  PROVE  Registry!Next
<1> USE ThreadFacts, NoneIsNoInstance, PresenceAssumption
<1> DEFINE c == t[1]  i == inst[t]
<1>1. PICK s \in Sessions : s = sess[t] /\ sessions[s] = i /\ index[c] = s /\ s # None
  BY DEF LeaveDrop, RefinementInv, IndexInv, SessionInv, IInv, ThreadShape, LeaveIsCurrent
<1>2. /\ i \in Instances /\ c \in Connections /\ t = Disconnect(c)
      /\ index' = [index EXCEPT ![c] = None]
      /\ selected' = [selected EXCEPT ![i][c] = {}]
      /\ locks' = [locks EXCEPT ![i] =
                     [e \in Elements |-> IF @[e] = c THEN None ELSE @[e]]]
      /\ UNCHANGED sessions
      /\ reply' = [reply EXCEPT ![t] =
                     [left |-> s, survivors |-> Roster(participants'[i], selected'[i]),
                      freed |-> {e \in Elements : locks[i][e] = c}]]
  BY <1>1 DEF LeaveDrop, LeaveReply, RefinementInv, IndexInv, SessionInv, IInv, ThreadShape,
     LeaveIsCurrent
<1>3. Holders[s] = locks[i]
  BY <1>1, <1>2 DEF Holders
<1>4. Holders' = [x \in Sessions |->
                    [e \in Elements |->
                       IF x = s /\ Holders[x][e] = c THEN None ELSE Holders[x][e]]]
  <2>1. \A j \in Instances :
          locks'[j] = IF j = i THEN [e \in Elements |-> IF locks[i][e] = c THEN None
                                                        ELSE locks[i][e]]
                      ELSE locks[j]
    BY <1>2 DEF RefinementInv, IndexInv, SessionInv, IInv, TypeOK
  <2>2. \A x \in Sessions : x # s /\ sessions[x] # None =>
          sessions[x] \in Instances /\ sessions[x] # i
    BY <1>1, <1>2 DEF RefinementInv, IndexInv, SessionInv, IInv, TypeOK, OneSessionPerInstance
  <2>3. \A x \in Sessions : Holders[x] = [e \in Elements |-> Holders[x][e]]
    BY DEF Holders, RefinementInv, IndexInv, SessionInv, IInv, TypeOK
  <2>4. \A x \in Sessions : x # s => Holders'[x] = Holders[x]
    BY <1>2, <2>1, <2>2 DEF Holders
  <2>5. Holders'[s] = [e \in Elements |-> IF Holders[s][e] = c THEN None ELSE Holders[s][e]]
    <3>1. Holders'[s] = locks'[i]
      BY <1>1, <1>2 DEF Holders
    <3> QED BY <1>2, <1>3, <2>1, <3>1
  <2>6. Holders' = [x \in Sessions |-> Holders'[x]]
    BY DEF Holders
  <2>7. \A x \in Sessions :
          Holders'[x] = [e \in Elements |->
                           IF x = s /\ Holders[x][e] = c THEN None ELSE Holders[x][e]]
    BY <2>3, <2>4, <2>5
  <2> QED BY <2>6, <2>7
<1>5. Selections' = [Selections EXCEPT ![c] = {}]
  <2>1. \A j \in Instances, d \in Connections :
          selected'[j][d] = IF j = i /\ d = c THEN {} ELSE selected[j][d]
    BY <1>2 DEF RefinementInv, IndexInv, SessionInv, IInv, TypeOK
  <2>2. \A d \in Connections : index[d] # None => sessions[index[d]] \in Instances
    BY DEF RefinementInv, IndexInv, SessionInv, IInv, TypeOK, OwnSession
  <2>3. \A d \in Connections : index'[d] = IF d = c THEN None ELSE index[d]
    BY <1>2 DEF RefinementInv, IndexInv, SessionInv, IInv, TypeOK
  <2>4. \A d \in Connections : Selections'[d] = IF d = c THEN {} ELSE Selections[d]
    BY <1>1, <1>2, <2>1, <2>2, <2>3 DEF Selections
  <2> QED BY <2>4 DEF Selections
<1>6. Registry!Roster(s)' = Roster(participants'[i], selected'[i])
  BY <1>1, <1>2, RosterAfter
<1>7. Registry!Drop(c)
  BY SMTT(60), <1>1, <1>2, <1>4, <1>5 DEF Registry!Drop, Selections, Holders
<1>8. reply' = [reply EXCEPT ![Disconnect(c)] =
                  [left |-> s, survivors |-> Registry!Roster(s)',
                   freed |-> {e \in Elements : Holders[s][e] = c}]]
  BY <1>2, <1>3, <1>6
<1>9. Registry!Leave(c)
  BY <1>1, <1>7, <1>8
  DEF Registry!Leave, Registry!Reply, Registry!Disconnect, Disconnect, Holders
<1> QED BY <1>2, <1>9 DEF Registry!Next

\* Collecting the empty session changes nothing a caller could see.
LEMMA LeaveCollectRefines ==
  ASSUME RefinementInv, NEW t \in Threads, LeaveCollect(t)
  PROVE  Stuttering
<1> USE ThreadFacts, NoneIsNoInstance, PresenceAssumption
<1>1. UNCHANGED <<index, participants, selected, locks>> /\ inst[t] \in Instances
  BY DEF LeaveCollect, state, RefinementInv, IndexInv, SessionInv, IInv, ThreadShape
<1>2. UNCHANGED reply
  BY DEF LeaveCollect, Return, RefinementInv, RepliesPerThread
<1>3. CASE UNCHANGED sessions
  BY <1>1, <1>2, <1>3 DEF Stuttering, Selections, Holders
<1>4. CASE ~UNCHANGED sessions
  <2>1. /\ sess[t] \in Sessions /\ sessions[sess[t]] = inst[t] /\ participants[inst[t]] = {}
        /\ sessions' = [sessions EXCEPT ![sess[t]] = None]
    BY <1>4 DEF LeaveCollect, RefinementInv, IndexInv, SessionInv, IInv, ThreadShape
  <2>2. locks[inst[t]] = [e \in Elements |-> None]
    <3>1. \A e \in Elements : locks[inst[t]][e] = None
      BY <1>1, <2>1 DEF RefinementInv, IndexInv, SessionInv, IInv, LockHolderIsPresent
    <3> QED BY <1>1, <3>1 DEF RefinementInv, IndexInv, SessionInv, IInv, TypeOK
  <2>3. \A x \in Sessions : sessions'[x] = IF x = sess[t] THEN None ELSE sessions[x]
    BY <2>1 DEF RefinementInv, IndexInv, SessionInv, IInv, TypeOK
  <2>4. UNCHANGED Holders
    BY <1>1, <2>1, <2>2, <2>3 DEF Holders
  <2>5. \A d \in Connections : index[d] # None =>
          index[d] \in Sessions /\ index[d] # sess[t]
    BY <1>1, <2>1 DEF RefinementInv, IndexInv, SessionInv, IInv, TypeOK, IndexAgrees
  <2>6. UNCHANGED Selections
    BY <1>1, <2>3, <2>5 DEF Selections
  <2> QED BY <1>1, <1>2, <2>4, <2>6 DEF Stuttering
<1> QED BY <1>3, <1>4

\* A thread that starts an operation forgets what the last one returned.
LEMMA BeginRefines ==
  ASSUME NEW t \in Threads, NEW o, NEW s, NEW step, Begin(t, o, s, step)
  PROVE  Registry!Next
<1>1. UNCHANGED <<index, Selections, Holders>> /\ reply' = [reply EXCEPT ![t] = None]
  BY DEF Begin, maps, state, Selections, Holders
<1>2. Registry!Forget(t)
  BY <1>1 DEF Registry!Forget, Registry!Reply, Registry!registry, Selections, Holders
<1> QED BY <1>2 DEF Registry!Next, Registry!Threads, Threads

\* Every step is a step of the registry or one it does not see.
LEMMA NextRefines ==
  ASSUME OneSessionEach, RefinementInv, IndexInv', [Next]_vars
  PROVE  Registry!Next \/ Stuttering
<1>1. ASSUME NEW c \in Connections, BeginCall(c) \/ BeginLeave(c)
      PROVE  Registry!Next
  <2>1. Call(c) \in Threads /\ Disconnect(c) \in Threads
    BY DEF Threads, Call, Disconnect
  <2> QED BY <1>1, <2>1, BeginRefines DEF BeginCall, BeginLeave
<1>2. ASSUME NEW t \in Threads, Step(t)
      PROVE  Registry!Next \/ Stuttering
  BY <1>2, LookupRefines, JoinLookupRefines, JoinPublishRefines, UpdateSelectionRefines,
     ClaimElementRefines, ReleaseElementRefines, QueryRefines, LeaveDropRefines,
     LeaveCollectRefines DEF Step
<1>3. CASE UNCHANGED vars
  BY <1>3 DEF vars, maps, state, Stuttering, Selections, Holders
<1> QED BY <1>1, <1>2, <1>3 DEF Next, Idle

\* The concurrent implementation keeps every promise of the registry: each of its
\* operations takes effect, and answers, as if it ran alone.
THEOREM RegistryIsImplemented ==
  ASSUME OneSessionEach
  PROVE  Spec => ImplementsRegistry
<1>1. RefinementInv /\ [Next]_vars => RefinementInv'
  BY NextRefinementInv
<1>2. RefinementInv /\ RefinementInv' /\ [Next]_vars => Registry!Next \/ Stuttering
  BY NextRefines DEF RefinementInv
<1>3. Stuttering =>
        UNCHANGED <<index,
                    [c \in Connections |->
                       IF index[c] = None THEN {} ELSE selected[sessions[index[c]]][c]],
                    [s \in Sessions |->
                       IF sessions[s] = None THEN [e \in Elements |-> None]
                       ELSE locks[sessions[s]]],
                    reply>>
  BY DEF Stuttering, Selections, Holders
<1> QED
  BY <1>1, <1>2, <1>3, InitRefinementInv, InitRegistry, PTL
  DEF Spec, ImplementsRegistry, Registry!Spec

=============================================================================
