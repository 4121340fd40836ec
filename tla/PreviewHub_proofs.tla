-------------------------- MODULE PreviewHub_proofs --------------------------
(***************************************************************************)
(* Proofs about the live preview hub: a connection that has left holds no  *)
(* soft-lock, whatever invocation of it was in flight, and nobody misses   *)
(* the last message about what changed.                                    *)
(*                                                                         *)
(* NoGhostLocks is not inductive: a claim in flight must be known to find  *)
(* its caller untracked after Leave. GhostInv says so, and says that locks *)
(* are held by participants, which is what makes Leave free all of them.   *)
(*                                                                         *)
(* NoMissedUpdates and NoMissedLocks speak of the moments when no handler  *)
(* runs. OwedInv is what holds in between: a member whose last message is  *)
(* out of date is owed one, and some handler that is still running is on   *)
(* its way to send it, to that member, from a state not older than now.    *)
(***************************************************************************)
EXTENDS PreviewHub, TLAPS

LeaveSteps == {"idle", "leave", "leave:roster", "leave:getlocks", "leave:locks", "gone"}
CallSteps  == {"idle", "join", "join:snapshot", "join:frames", "join:presence",
               "join:getlocks", "join:locks", "join:roster", "push", "push:frames",
               "select", "select:session", "select:roster",
               "claim", "claim:session", "claim:getlocks", "claim:locks",
               "release", "release:session", "release:getlocks", "release:locks"}
AllSteps   == CallSteps \cup LeaveSteps

GhostTypes ==
  /\ session \in [Connections -> Sessions \cup {None}]
  /\ holder  \in [Sessions -> [Elements -> Connections \cup {None}]]
  /\ DOMAIN reply = Threads
  /\ pc      \in [Threads -> AllSteps]
  /\ \A c \in Connections : pc[Call(c)] \in CallSteps /\ pc[Disconnect(c)] \in LeaveSteps

HoldersParticipate ==
  \A s \in Sessions, e \in Elements :
    holder[s][e] # None => session[holder[s][e]] = s

GhostsDoNotClaim ==
  \A c \in Connections : HasLeft(c) /\ session[c] # None => pc[Call(c)] # "claim"

GhostInv == GhostTypes /\ HoldersParticipate /\ GhostsDoNotClaim /\ NoGhostLocks

\* A thread is the call or the disconnect thread of its connection.
LEMMA ThreadCases ==
  ASSUME NEW t \in Threads
  PROVE  /\ t[1] \in Connections
         /\ t = Call(t[1]) \/ t = Disconnect(t[1])
         /\ t = Call(t[1]) <=> t[2] = "call"
         /\ \A c \in Connections : /\ Call(c) \in Threads /\ Disconnect(c) \in Threads
                                   /\ Call(c) # Disconnect(c)
                                   /\ (t = Call(c) \/ t = Disconnect(c)) => c = t[1]
BY DEF Threads, Call, Disconnect, presence!Threads, presence!Call, presence!Disconnect

\* Handler steps that leave the registry alone, start no claim and are not Leave.
Quiet(t, step) ==
  /\ pc' = [pc EXCEPT ![t] = step]
  /\ step \in AllSteps \ {"claim"}
  /\ t[2] = "call" => step \in CallSteps
  /\ t[2] = "leave" => /\ step \in LeaveSteps \ {"idle", "leave"}
                       /\ pc[t] \notin {"idle", "leave"}
  /\ UNCHANGED <<session, holder>>
  /\ DOMAIN reply' = Threads

\* They preserve the invariant.
LEMMA QuietSteps ==
  ASSUME NEW t \in Threads, NEW step, Quiet(t, step), GhostInv
  PROVE  GhostInv'
<1>1. /\ pc \in [Threads -> AllSteps]
      /\ pc' = [pc EXCEPT ![t] = step]
      /\ session' = session /\ holder' = holder
  BY DEF Quiet, GhostInv, GhostTypes
<1>2. \A u \in Threads : u # t => pc'[u] = pc[u]
  BY <1>1
<1>3. pc'[t] = step
  BY <1>1
<1>4. \A c \in Connections : /\ pc'[Call(c)] = "claim" => pc[Call(c)] = "claim"
                             /\ HasLeft(c)' <=> HasLeft(c)
  <2> TAKE c \in Connections
  <2>1. CASE t = Call(c)
    BY <2>1, <1>2, <1>3, ThreadCases DEF Quiet, HasLeft
  <2>2. CASE t = Disconnect(c)
    <3>1. t[2] = "leave"
      BY <2>2 DEF Disconnect, presence!Disconnect
    <3>2. QED
      BY <2>2, <3>1, <1>2, <1>3, ThreadCases DEF Quiet, HasLeft, LeaveSteps
  <2>3. CASE t # Call(c) /\ t # Disconnect(c)
    BY <2>3, <1>2, ThreadCases DEF HasLeft
  <2>4. QED
    BY <2>1, <2>2, <2>3
<1>5. GhostTypes'
  <2>1. pc' \in [Threads -> AllSteps]
    BY <1>1 DEF Quiet
  <2>2. ASSUME NEW c \in Connections
        PROVE  pc'[Call(c)] \in CallSteps /\ pc'[Disconnect(c)] \in LeaveSteps
    <3>1. CASE t = Call(c)
      <4>1. t[2] = "call"
        BY <3>1 DEF Call, presence!Call
      <4>2. QED
        BY <3>1, <4>1, <1>2, <1>3, ThreadCases DEF Quiet, GhostInv, GhostTypes
    <3>2. CASE t = Disconnect(c)
      <4>1. t[2] = "leave"
        BY <3>2 DEF Disconnect, presence!Disconnect
      <4>2. QED
        BY <3>2, <4>1, <1>2, <1>3, ThreadCases DEF Quiet, GhostInv, GhostTypes
    <3>3. CASE t # Call(c) /\ t # Disconnect(c)
      BY <3>3, <1>2, ThreadCases DEF GhostInv, GhostTypes
    <3>4. QED
      BY <3>1, <3>2, <3>3
  <2>3. QED
    BY <2>1, <2>2, <1>1 DEF Quiet, GhostInv, GhostTypes
<1>6. HoldersParticipate'
  BY <1>1 DEF GhostInv, HoldersParticipate
<1>7. GhostsDoNotClaim'
  BY <1>1, <1>4 DEF GhostInv, GhostsDoNotClaim
<1>8. NoGhostLocks'
  BY <1>1, <1>4 DEF GhostInv, NoGhostLocks
<1>9. QED
  BY <1>5, <1>6, <1>7, <1>8 DEF GhostInv

-----------------------------------------------------------------------------
(* The steps of the handlers                                               *)

\* The step a thread is at tells whether it is a call or a disconnect thread.
LEMMA CallThread ==
  ASSUME NEW t \in Threads, GhostInv, pc[t] \notin LeaveSteps
  PROVE  t[2] = "call" /\ t = Call(t[1])
BY ThreadCases DEF GhostInv, GhostTypes, Disconnect, presence!Disconnect,
                   Call, presence!Call

\* A thread at a step of OnDisconnectedAsync is its connection's disconnect thread.
LEMMA LeaveThread ==
  ASSUME NEW t \in Threads, GhostInv, pc[t] \in LeaveSteps \ {"idle"}
  PROVE  t[2] = "leave" /\ t = Disconnect(t[1])
<1>1. t # Call(t[1])
  <2>1. pc[Call(t[1])] \in CallSteps
    BY ThreadCases DEF GhostInv, GhostTypes
  <2>2. QED
    BY <2>1 DEF CallSteps, LeaveSteps
<1>2. t = Disconnect(t[1])
  BY <1>1, ThreadCases
<1>3. QED
  BY <1>2 DEF Disconnect, presence!Disconnect

\* A registry operation that only answers: nothing but the reply changes.
Answers == UNCHANGED <<session, holder>> /\ DOMAIN reply' = Threads

\* Forget, GetLocks and UpdateSelection only answer.
LEMMA AnswersOnly ==
  ASSUME NEW t \in Threads, NEW s, NEW present, NEW elements, GhostInv
  PROVE  /\ presence!Forget(t) => Answers
         /\ presence!GetLocks(t, s, present) => Answers
         /\ presence!UpdateSelection(t[1], elements) => Answers
         /\ UNCHANGED registry => Answers
BY DEF Answers, GhostInv, GhostTypes, registry, presence!Forget, presence!GetLocks,
       presence!UpdateSelection, presence!Select, presence!Reply, presence!registry

\* Returning, and going on to a step of the same handler, are quiet.
LEMMA EndQuiet ==
  ASSUME NEW t \in Threads, GhostInv, End(t), Answers,
         pc[t] \notin {"idle", "leave"}
  PROVE  GhostInv'
<1>1. CASE t[2] = "leave"
  <2>1. Quiet(t, "gone")
    BY <1>1 DEF End, Goto, Quiet, Answers, LeaveSteps, CallSteps, AllSteps
  <2>2. QED
    BY <2>1, QuietSteps
<1>2. CASE t[2] # "leave"
  <2>1. Quiet(t, "idle")
    BY <1>2 DEF End, Goto, Quiet, Answers, CallSteps, LeaveSteps, AllSteps
  <2>2. QED
    BY <2>1, QuietSteps
<1>3. QED
  BY <1>1, <1>2

\* Going on to another step, with no registry operation that writes, is quiet.
LEMMA GotoQuiet ==
  ASSUME NEW t \in Threads, GhostInv, NEW step, Goto(t, step), Answers,
         pc[t] \notin {"idle", "leave"},
         step \in AllSteps \ {"claim"},
         \/ pc[t] \notin LeaveSteps /\ step \in CallSteps
         \/ pc[t] \in LeaveSteps /\ step \in LeaveSteps \ {"idle", "leave"}
  PROVE  GhostInv'
<1>1. t[2] = "call" => pc[t] \notin LeaveSteps
  BY LeaveThread
<1>2. t[2] = "leave" => pc[t] \in LeaveSteps
  BY CallThread
<1>3. Quiet(t, step)
  BY <1>1, <1>2 DEF Goto, Quiet, Answers
<1>4. QED
  BY <1>3, QuietSteps

\* The common steps of the handlers.
LEMMA SessionOfInv ==
  ASSUME NEW t \in Threads, GhostInv, NEW from, NEW to, SessionOf(t, from, to),
         from \notin LeaveSteps, to \in CallSteps \ {"claim"}
  PROVE  GhostInv'
<1>1. pc[t] = from /\ pc[t] \notin {"idle", "leave"}
  BY DEF SessionOf, At, LeaveSteps
<1>2. CASE Goto(t, to) /\ UNCHANGED registry
  BY <1>1, <1>2, GotoQuiet, AnswersOnly DEF CallSteps, LeaveSteps, AllSteps
<1>3. CASE Return(t)
  BY <1>1, <1>3, EndQuiet, AnswersOnly DEF Return
<1>4. QED
  BY <1>2, <1>3 DEF SessionOf

\* Reading the lock list for a broadcast preserves the invariant.
LEMMA ReadLocksInv ==
  ASSUME NEW t \in Threads, GhostInv, NEW from, NEW to, NEW present,
         ReadLocks(t, from, to, present),
         from \notin {"idle", "leave"}, to \in AllSteps \ {"claim"},
         \/ from \notin LeaveSteps /\ to \in CallSteps
         \/ from \in LeaveSteps /\ to \in LeaveSteps \ {"idle", "leave"}
  PROVE  GhostInv'
<1>1. Answers
  BY AnswersOnly DEF ReadLocks
<1>2. QED
  BY <1>1, GotoQuiet DEF ReadLocks, At

\* So does broadcasting it, which ends the handler.
LEMMA BroadcastLocksInv ==
  ASSUME NEW t \in Threads, GhostInv, NEW from, BroadcastLocks(t, from),
         from \notin {"idle", "leave"}
  PROVE  GhostInv'
BY EndQuiet, AnswersOnly DEF BroadcastLocks, At, Return

-----------------------------------------------------------------------------
(* The steps that are not quiet                                            *)

\* Thread t goes to a step that is one of its own.
Moves(t, step) ==
  /\ pc' = [pc EXCEPT ![t] = step]
  /\ \/ t[2] = "call" /\ step \in CallSteps
     \/ t[2] = "leave" /\ step \in LeaveSteps

\* It keeps the types of the program counters and moves no other thread.
LEMMA MovesOnly ==
  ASSUME NEW t \in Threads, NEW step, GhostInv, Moves(t, step)
  PROVE  /\ pc' \in [Threads -> AllSteps]
         /\ \A c \in Connections :
              pc'[Call(c)] \in CallSteps /\ pc'[Disconnect(c)] \in LeaveSteps
         /\ pc'[t] = step
         /\ \A u \in Threads : u # t => pc'[u] = pc[u]
<1>1. /\ pc \in [Threads -> AllSteps]
      /\ \A c \in Connections :
           pc[Call(c)] \in CallSteps /\ pc[Disconnect(c)] \in LeaveSteps
  BY DEF GhostInv, GhostTypes
<1>2. pc' \in [Threads -> AllSteps]
  BY <1>1 DEF Moves, AllSteps
<1>3. pc'[t] = step /\ \A u \in Threads : u # t => pc'[u] = pc[u]
  BY <1>1 DEF Moves
<1>4. ASSUME NEW c \in Connections
      PROVE  pc'[Call(c)] \in CallSteps /\ pc'[Disconnect(c)] \in LeaveSteps
  <2>1. Call(c)[2] = "call" /\ Disconnect(c)[2] = "leave"
    BY DEF Call, presence!Call, Disconnect, presence!Disconnect
  <2>2. /\ t = Call(c) => step \in CallSteps
        /\ t = Disconnect(c) => step \in LeaveSteps
    BY <2>1 DEF Moves
  <2>3. QED
    BY <1>1, <1>3, <2>2, ThreadCases
<1>5. QED
  BY <1>2, <1>3, <1>4

\* A join makes its caller a participant of s, and touches no lock.
LEMMA JoinInv ==
  ASSUME NEW t \in Threads, NEW s \in Sessions, GhostInv, JoinSession(t, s),
         At(t, "join:presence")
  PROVE  GhostInv'
<1> DEFINE c == t[1]
<1>1. /\ pc[t] = "join:presence"
      /\ session[c] \in {s, None}
      /\ session' = [session EXCEPT ![c] = s]
      /\ holder' = holder
      /\ reply' = [reply EXCEPT ![Call(c)] = reply'[Call(c)]]
      /\ pc' = [pc EXCEPT ![t] = "join:getlocks"]
  <2>1. /\ pc[t] = "join:presence"
        /\ presence!Join(c, s)
        /\ Goto(t, "join:getlocks")
    BY DEF JoinSession, CatchUp, ReadLocks, At
  <2>2. DOMAIN reply = Threads /\ Call(c) \in Threads
    BY ThreadCases DEF GhostInv, GhostTypes
  <2>3. QED
    BY <2>1, <2>2 DEF presence!Join, presence!Enrol, presence!Reply, Goto, Call
<1>2. t = Call(c) /\ t[2] = "call" /\ c \in Connections
  BY <1>1, CallThread, ThreadCases DEF LeaveSteps
<1>3. Moves(t, "join:getlocks")
  BY <1>1, <1>2 DEF Moves, CallSteps
<1>4. GhostTypes'
  BY <1>1, <1>2, <1>3, MovesOnly DEF GhostInv, GhostTypes
<1>5. HoldersParticipate'
  <2>1. None \notin Sessions
    BY HubAssumption
  <2>2. QED
    BY <1>1, <1>2, <2>1 DEF GhostInv, GhostTypes, HoldersParticipate
<1>6. \A d \in Connections : HasLeft(d)' <=> HasLeft(d)
  BY <1>2, <1>3, MovesOnly, ThreadCases DEF HasLeft
<1>7. GhostsDoNotClaim'
  BY <1>1, <1>2, <1>3, <1>6, MovesOnly, ThreadCases DEF GhostInv, GhostsDoNotClaim
<1>8. NoGhostLocks'
  BY <1>1, <1>6 DEF GhostInv, NoGhostLocks
<1>9. QED
  BY <1>4, <1>5, <1>7, <1>8 DEF GhostInv

\* A claim or a release of call thread t, whose connection has not left, keeps
\* every lock with a participant.
LEMMA LockingInv ==
  ASSUME NEW t \in Threads, GhostInv, NEW s \in Sessions, NEW e \in Elements,
         NEW owner \in {t[1], None}, NEW step \in CallSteps \ {"claim"},
         t[2] = "call", ~HasLeft(t[1]), session[t[1]] = s,
         session' = session,
         holder' = [holder EXCEPT ![s][e] = owner],
         DOMAIN reply' = Threads,
         pc' = [pc EXCEPT ![t] = step]
  PROVE  GhostInv'
<1>1. t = Call(t[1]) /\ t[1] \in Connections
  BY ThreadCases
<1>2. Moves(t, step)
  BY DEF Moves
<1>3. GhostTypes'
  BY <1>1, <1>2, MovesOnly DEF GhostInv, GhostTypes
<1>4. \A d \in Connections : HasLeft(d)' <=> HasLeft(d)
  BY <1>1, <1>2, MovesOnly, ThreadCases DEF HasLeft
<1>5. \A s1 \in Sessions, e1 \in Elements :
        \/ s1 = s /\ e1 = e /\ holder'[s1][e1] = owner
        \/ holder'[s1][e1] = holder[s1][e1]
  BY DEF GhostInv, GhostTypes
<1>6. HoldersParticipate'
  BY <1>1, <1>5 DEF GhostInv, HoldersParticipate
<1>7. GhostsDoNotClaim'
  BY <1>1, <1>2, <1>4, MovesOnly, ThreadCases DEF GhostInv, GhostsDoNotClaim
<1>8. NoGhostLocks'
  <2>1. None \notin Connections
    BY HubAssumption
  <2>2. QED
    BY <2>1, <1>1, <1>4, <1>5 DEF GhostInv, NoGhostLocks
<1>9. QED
  BY <1>3, <1>6, <1>7, <1>8 DEF GhostInv

\* Leave frees every lock of its connection, which no claim can take back.
LEMMA LeaveInv ==
  ASSUME NEW c \in Connections, GhostInv, pc[Disconnect(c)] = "leave",
         NEW step \in LeaveSteps \ {"idle", "leave"},
         presence!Leave(c), pc' = [pc EXCEPT ![Disconnect(c)] = step]
  PROVE  GhostInv'
<1> DEFINE t == Disconnect(c)
<1>1. t \in Threads /\ t[2] = "leave" /\ t[1] = c
  BY ThreadCases DEF Disconnect, presence!Disconnect, Threads, presence!Threads
<1>2. Moves(t, step)
  BY <1>1 DEF Moves
<1>3. None \notin Sessions /\ None \notin Connections
  BY HubAssumption
<1>4. DOMAIN reply' = Threads
  BY DEF presence!Leave, presence!Reply, GhostInv, GhostTypes
<1>5. \/ /\ session[c] \in Sessions
         /\ session' = [session EXCEPT ![c] = None]
         /\ holder' = [s \in Sessions |->
                         [e \in Elements |->
                            IF s = session[c] /\ holder[s][e] = c THEN None
                            ELSE holder[s][e]]]
      \/ session[c] = None /\ UNCHANGED <<session, holder>>
  BY DEF presence!Leave, presence!Drop, presence!registry
<1>6. /\ session' \in [Connections -> Sessions \cup {None}]
      /\ session'[c] = None
      /\ \A d \in Connections : d # c => session'[d] = session[d]
  BY <1>5 DEF GhostInv, GhostTypes
<1>7. holder' \in [Sessions -> [Elements -> Connections \cup {None}]]
  BY <1>5 DEF GhostInv, GhostTypes
<1>8. \A s \in Sessions, e \in Elements :
        holder'[s][e] # c /\ (holder'[s][e] = None \/ holder'[s][e] = holder[s][e])
  <2> TAKE s \in Sessions, e \in Elements
  <2>1. holder[s][e] = c => session[c] = s
    BY <1>3 DEF GhostInv, HoldersParticipate
  <2>2. CASE session[c] \in Sessions /\ s = session[c]
    BY <2>2, <1>3, <1>5 DEF GhostInv, GhostTypes
  <2>3. CASE s # session[c]
    BY <2>1, <2>3, <1>5 DEF GhostInv, GhostTypes
  <2>4. QED
    BY <2>2, <2>3
<1>9. GhostTypes'
  BY <1>1, <1>2, <1>4, <1>6, <1>7, MovesOnly DEF GhostTypes
<1>10. HoldersParticipate'
  BY <1>6, <1>7, <1>8 DEF GhostInv, HoldersParticipate
<1>11. \A d \in Connections :
         d # c => (HasLeft(d)' <=> HasLeft(d)) /\ pc'[Call(d)] = pc[Call(d)]
  BY <1>1, <1>2, MovesOnly, ThreadCases DEF HasLeft
<1>12. GhostsDoNotClaim'
  BY <1>6, <1>11 DEF GhostInv, GhostsDoNotClaim
<1>13. NoGhostLocks'
  BY <1>3, <1>8, <1>11 DEF GhostInv, NoGhostLocks
<1>14. QED
  BY <1>9, <1>10, <1>12, <1>13 DEF GhostInv

\* A client starts a method only while its connection lives, and a lost
\* connection has not left yet.
LEMMA InvokeInv ==
  ASSUME NEW c \in Connections, GhostInv, Invoke(c) \/ LoseConnection(c)
  PROVE  GhostInv'
<1>1. PICK t \in Threads, step \in AllSteps :
        /\ Moves(t, step)
        /\ t[1] = c
        /\ ~HasLeft(c)
        /\ t = Disconnect(c) => step = "leave"
        /\ UNCHANGED <<session, holder>>
        /\ DOMAIN reply' = Threads
  <2>0. /\ Call(c) \in Threads /\ Call(c)[1] = c /\ Call(c)[2] = "call"
        /\ Disconnect(c) \in Threads /\ Disconnect(c)[1] = c
        /\ Disconnect(c)[2] = "leave" /\ Call(c) # Disconnect(c)
    BY DEF Call, presence!Call, Disconnect, presence!Disconnect, Threads,
           presence!Threads
  <2>1. ~HasLeft(c)
    BY DEF Invoke, LoseConnection, Alive, HasLeft
  <2>2. CASE Invoke(c)
    <3>1. PICK m \in Methods : \E s : Start(Call(c), m, s)
      BY <2>2 DEF Invoke
    <3>2. m \in CallSteps /\ m \in AllSteps
      BY HubAssumption DEF CallSteps, AllSteps
    <3>3. presence!Forget(Call(c)) => Answers
      BY <2>0, AnswersOnly
    <3>4. QED
      BY <2>0, <2>1, <3>1, <3>2, <3>3 DEF Start, Goto, Moves, Answers
  <2>3. CASE LoseConnection(c)
    <3>1. presence!Forget(Disconnect(c)) => Answers
      BY <2>0, AnswersOnly
    <3>2. "leave" \in LeaveSteps /\ "leave" \in AllSteps
      BY DEF LeaveSteps, AllSteps
    <3>3. QED
      BY <2>0, <2>1, <2>3, <3>1, <3>2 DEF LoseConnection, Start, Goto, Moves, Answers
  <2>4. QED
    BY <2>2, <2>3
<1>2. GhostTypes'
  BY <1>1, MovesOnly DEF GhostInv, GhostTypes
<1>3. \A d \in Connections : HasLeft(d)' <=> HasLeft(d)
  BY <1>1, MovesOnly, ThreadCases DEF HasLeft
<1>4. \A d \in Connections : d # c => pc'[Call(d)] = pc[Call(d)]
  BY <1>1, MovesOnly, ThreadCases
<1>5. GhostsDoNotClaim'
  BY <1>1, <1>3, <1>4 DEF GhostInv, GhostsDoNotClaim
<1>6. HoldersParticipate' /\ NoGhostLocks'
  BY <1>1, <1>3 DEF GhostInv, HoldersParticipate, NoGhostLocks
<1>7. QED
  BY <1>2, <1>5, <1>6 DEF GhostInv

-----------------------------------------------------------------------------
(* The handlers                                                            *)

\* Going on to the next step after an awaited send is quiet.
LEMMA ContinueInv ==
  ASSUME NEW t \in Threads, GhostInv, NEW from, NEW step, At(t, from),
         Continue(t, step),
         from \notin {"idle", "leave"}, step # "claim",
         \/ from \notin LeaveSteps /\ step \in CallSteps
         \/ from \in LeaveSteps /\ step \in LeaveSteps \ {"idle", "leave"}
  PROVE  GhostInv'
<1>1. Answers
  BY AnswersOnly DEF Continue
<1>2. step \in AllSteps \ {"claim"}
  BY DEF AllSteps
<1>3. QED
  BY <1>1, <1>2, GotoQuiet DEF Continue, At

\* So does returning from a handler.
LEMMA ReturnInv ==
  ASSUME NEW t \in Threads, GhostInv, NEW from, At(t, from), Return(t),
         from \notin {"idle", "leave"}
  PROVE  GhostInv'
BY AnswersOnly, EndQuiet DEF Return, At

\* JoinSession preserves the invariant.
LEMMA JoinSessionInv ==
  ASSUME NEW t \in Threads, NEW s \in Sessions, GhostInv, JoinSession(t, s)
  PROVE  GhostInv'
<1> USE DEF CallSteps, LeaveSteps
<1>1. CASE At(t, "join") /\ Continue(t, "join:snapshot")
  BY <1>1, ContinueInv
<1>2. CASE /\ At(t, "join:snapshot")
           /\ \E step \in {"join:frames", "join:presence"} : Goto(t, step)
           /\ UNCHANGED registry
  <2>1. Answers
    BY <1>2, AnswersOnly
  <2>2. PICK step \in {"join:frames", "join:presence"} : Goto(t, step)
    BY <1>2
  <2>3. QED
    BY <1>2, <2>1, <2>2, GotoQuiet DEF At, AllSteps
<1>3. CASE At(t, "join:frames") /\ Continue(t, "join:presence")
  BY <1>3, ContinueInv
<1>4. CASE At(t, "join:presence")
  BY <1>4, JoinInv
<1>5. CASE ReadLocks(t, "join:getlocks", "join:locks", {t[1]})
  BY <1>5, ReadLocksInv DEF AllSteps
<1>6. CASE At(t, "join:locks") /\ Continue(t, "join:roster")
  BY <1>6, ContinueInv
<1>7. CASE At(t, "join:roster") /\ Return(t)
  BY <1>7, ReturnInv
<1>8. QED
  BY <1>1, <1>2, <1>3, <1>4, <1>5, <1>6, <1>7 DEF JoinSession, CatchUp

\* PushRdl preserves the invariant: it does not touch the registry.
LEMMA PushRdlInv ==
  ASSUME NEW t \in Threads, GhostInv, PushRdl(t)
  PROVE  GhostInv'
<1> USE DEF CallSteps, LeaveSteps
<1>1. CASE At(t, "push") /\ Return(t)
  BY <1>1, ReturnInv
<1>2. CASE At(t, "push") /\ Goto(t, "push:frames") /\ UNCHANGED registry
  <2>1. Answers
    BY <1>2, AnswersOnly
  <2>2. QED
    BY <1>2, <2>1, GotoQuiet DEF At, AllSteps
<1>3. CASE At(t, "push:frames") /\ Return(t)
  BY <1>3, ReturnInv
<1>4. QED
  BY <1>1, <1>2, <1>3 DEF PushRdl

\* UpdateSelection preserves the invariant: selections are not locks.
LEMMA UpdateSelectionInv ==
  ASSUME NEW t \in Threads, GhostInv, UpdateSelection(t)
  PROVE  GhostInv'
<1> USE DEF CallSteps, LeaveSteps
<1>1. CASE /\ At(t, "select")
           /\ \E elements \in SUBSET Elements :
                presence!UpdateSelection(t[1], elements)
           /\ Goto(t, "select:session")
  <2>1. Answers
    BY <1>1, AnswersOnly
  <2>2. QED
    BY <1>1, <2>1, GotoQuiet DEF At, AllSteps
<1>2. CASE SessionOf(t, "select:session", "select:roster")
  BY <1>2, SessionOfInv
<1>3. CASE At(t, "select:roster") /\ Return(t)
  BY <1>3, ReturnInv
<1>4. QED
  BY <1>1, <1>2, <1>3 DEF UpdateSelection

\* ClaimElement preserves the invariant: only a participant is granted a lock,
\* and a connection that has left is not a participant.
LEMMA ClaimElementInv ==
  ASSUME NEW t \in Threads, GhostInv, ClaimElement(t)
  PROVE  GhostInv'
<1> USE DEF CallSteps, LeaveSteps
<1>1. ASSUME At(t, "claim"),
             NEW e \in Elements, presence!ClaimElement(t[1], e),
             NEW step \in {"claim:session", "idle"},
             Goto(t, step) \/ (step = "idle" /\ End(t))
      PROVE  GhostInv'
  <2>1. t[2] = "call" /\ t = Call(t[1]) /\ t[1] \in Connections
    BY <1>1, CallThread, ThreadCases DEF At
  <2>2. pc' = [pc EXCEPT ![t] = step]
    BY <1>1, <2>1 DEF Goto, End
  <2>3. CASE UNCHANGED <<session, holder>> /\ DOMAIN reply' = Threads
    <3>1. Quiet(t, step)
      BY <1>1, <2>1, <2>2, <2>3 DEF Quiet, AllSteps
    <3>2. QED
      BY <3>1, QuietSteps
  <2>4. CASE /\ session[t[1]] # None
             /\ session' = session
             /\ holder' = [holder EXCEPT ![session[t[1]]][e] = t[1]]
             /\ DOMAIN reply' = Threads
    <3>1. session[t[1]] \in Sessions
      BY <2>1, <2>4 DEF GhostInv, GhostTypes
    <3>2. ~HasLeft(t[1])
      BY <1>1, <2>1, <2>4 DEF GhostInv, GhostsDoNotClaim, At
    <3>3. step \in CallSteps \ {"claim"}
      BY <1>1
    <3>4. QED
      BY <2>1, <2>2, <2>4, <3>1, <3>2, <3>3, LockingInv
  <2>5. DOMAIN reply' = Threads
    BY <1>1 DEF presence!ClaimElement, presence!Reply, GhostInv, GhostTypes
  <2>6. QED
    BY <1>1, <2>3, <2>4, <2>5 DEF presence!ClaimElement, presence!Claim, presence!Free
<1>2. CASE SessionOf(t, "claim:session", "claim:getlocks")
  BY <1>2, SessionOfInv
<1>3. CASE ReadLocks(t, "claim:getlocks", "claim:locks", {t[1]})
  BY <1>3, ReadLocksInv DEF AllSteps
<1>4. CASE BroadcastLocks(t, "claim:locks")
  BY <1>4, BroadcastLocksInv
<1>5. QED
  BY <1>1, <1>2, <1>3, <1>4 DEF ClaimElement

\* ReleaseElement preserves the invariant.
LEMMA ReleaseElementInv ==
  ASSUME NEW t \in Threads, GhostInv, ReleaseElement(t)
  PROVE  GhostInv'
<1> USE DEF CallSteps, LeaveSteps
<1>1. ASSUME At(t, "release"),
             NEW e \in Elements, presence!ReleaseElement(t[1], e),
             NEW step \in {"release:session", "idle"},
             Goto(t, step) \/ (step = "idle" /\ End(t))
      PROVE  GhostInv'
  <2>1. t[2] = "call" /\ t = Call(t[1]) /\ t[1] \in Connections
    BY <1>1, CallThread, ThreadCases DEF At
  <2>2. pc' = [pc EXCEPT ![t] = step]
    BY <1>1, <2>1 DEF Goto, End
  <2>3. CASE UNCHANGED <<session, holder>> /\ DOMAIN reply' = Threads
    <3>1. Quiet(t, step)
      BY <1>1, <2>1, <2>2, <2>3 DEF Quiet, AllSteps
    <3>2. QED
      BY <3>1, QuietSteps
  <2>4. CASE /\ session[t[1]] # None
             /\ holder[session[t[1]]][e] = t[1]
             /\ session' = session
             /\ holder' = [holder EXCEPT ![session[t[1]]][e] = None]
             /\ DOMAIN reply' = Threads
    <3>1. session[t[1]] \in Sessions
      BY <2>1, <2>4 DEF GhostInv, GhostTypes
    <3>2. ~HasLeft(t[1])
      BY <2>1, <2>4, <3>1 DEF GhostInv, NoGhostLocks
    <3>3. step \in CallSteps \ {"claim"}
      BY <1>1
    <3>4. QED
      BY <2>1, <2>2, <2>4, <3>1, <3>2, <3>3, LockingInv
  <2>5. DOMAIN reply' = Threads
    BY <1>1 DEF presence!ReleaseElement, presence!Reply, GhostInv, GhostTypes
  <2>6. QED
    BY <1>1, <2>3, <2>4, <2>5 DEF presence!ReleaseElement, presence!Release,
                                  presence!Holds
<1>2. CASE SessionOf(t, "release:session", "release:getlocks")
  BY <1>2, SessionOfInv
<1>3. CASE ReadLocks(t, "release:getlocks", "release:locks", {t[1]})
  BY <1>3, ReadLocksInv DEF AllSteps
<1>4. CASE BroadcastLocks(t, "release:locks")
  BY <1>4, BroadcastLocksInv
<1>5. QED
  BY <1>1, <1>2, <1>3, <1>4 DEF ReleaseElement

\* OnDisconnected preserves the invariant.
LEMMA OnDisconnectedInv ==
  ASSUME NEW t \in Threads, GhostInv, OnDisconnected(t)
  PROVE  GhostInv'
<1> USE DEF CallSteps, LeaveSteps
<1>1. ASSUME At(t, "leave"), presence!Leave(t[1]),
             Goto(t, "leave:roster") \/ End(t)
      PROVE  GhostInv'
  <2>1. t[2] = "leave" /\ t = Disconnect(t[1]) /\ t[1] \in Connections
    BY <1>1, LeaveThread, ThreadCases DEF At
  <2>2. PICK step \in {"leave:roster", "gone"} :
          pc' = [pc EXCEPT ![Disconnect(t[1])] = step]
    BY <1>1, <2>1 DEF Goto, End
  <2>3. pc[Disconnect(t[1])] = "leave"
    BY <1>1, <2>1 DEF At
  <2>4. QED
    BY <1>1, <2>1, <2>2, <2>3, LeaveInv
<1>2. CASE At(t, "leave:roster") /\ Continue(t, "leave:getlocks")
  BY <1>2, ContinueInv
<1>3. CASE At(t, "leave:roster") /\ Return(t)
  BY <1>3, ReturnInv
<1>4. CASE ReadLocks(t, "leave:getlocks", "leave:locks", DOMAIN roster[t])
  BY <1>4, ReadLocksInv DEF AllSteps
<1>5. CASE BroadcastLocks(t, "leave:locks")
  BY <1>5, BroadcastLocksInv
<1>6. QED
  BY <1>1, <1>2, <1>3, <1>4, <1>5 DEF OnDisconnected

-----------------------------------------------------------------------------
\* The initial states satisfy the invariant: nobody is tracked, nothing is locked.
LEMMA GhostInit ==
  Init => GhostInv
<1> SUFFICES ASSUME Init PROVE GhostInv
  OBVIOUS
<1>1. /\ session = [c \in Connections |-> None]
      /\ holder = [s \in Sessions |-> [e \in Elements |-> None]]
      /\ DOMAIN reply = Threads
      /\ pc = [t \in Threads |-> "idle"]
  BY DEF Init, presence!Init, presence!NobodyPresent, Threads, presence!Threads
<1>2. \A c \in Connections : pc[Call(c)] = "idle" /\ pc[Disconnect(c)] = "idle"
  BY <1>1 DEF Call, Disconnect, presence!Call, presence!Disconnect, Threads,
              presence!Threads
<1>3. GhostTypes
  BY <1>1, <1>2 DEF GhostTypes, AllSteps, CallSteps, LeaveSteps
<1>4. HoldersParticipate /\ NoGhostLocks
  <2>1. None \notin Connections
    BY HubAssumption
  <2>2. QED
    BY <1>1, <2>1 DEF HoldersParticipate, NoGhostLocks
<1>5. GhostsDoNotClaim
  BY <1>2 DEF GhostsDoNotClaim
<1>6. QED
  BY <1>3, <1>4, <1>5 DEF GhostInv

\* Every step of the hub preserves the invariant.
LEMMA GhostNext ==
  GhostInv /\ [Next]_vars => GhostInv'
<1> SUFFICES ASSUME GhostInv, [Next]_vars PROVE GhostInv'
  OBVIOUS
<1>1. CASE \E c \in Connections : Invoke(c) \/ LoseConnection(c)
  BY <1>1, InvokeInv
<1>2. ASSUME NEW t \in Threads, Step(t)
      PROVE  GhostInv'
  BY <1>2, JoinSessionInv, PushRdlInv, UpdateSelectionInv, ClaimElementInv,
     ReleaseElementInv, OnDisconnectedInv DEF Step
<1>3. CASE UNCHANGED vars
  BY <1>3 DEF vars, registry, handler, GhostInv, GhostTypes, HoldersParticipate,
              GhostsDoNotClaim, NoGhostLocks, HasLeft
<1>4. QED
  BY <1>1, <1>2, <1>3 DEF Next, Idle

\* A connection holds no soft-lock once the hub has run Leave for it, whatever
\* invocation of it was still in flight then (ReportPreviewHub.cs:18-20).
THEOREM NoGhostLocksHolds == Spec => []NoGhostLocks
<1>1. GhostInv => NoGhostLocks
  BY DEF GhostInv
<1>2. QED
  BY GhostInit, GhostNext, <1>1, PTL DEF Spec

-----------------------------------------------------------------------------
(* What is owed is on its way: the frame of a handler step                 *)

\* The domains of the functions a step writes, one thread or session at a time.
Shape ==
  /\ DOMAIN arg = Threads /\ DOMAIN frames = Threads /\ DOMAIN roster = Threads
  /\ DOMAIN snapshot = Sessions /\ DOMAIN groups = Sessions
  /\ DOMAIN missed = Connections

\* Client c misses an update of kind k that it is owed.
Owes(c, k) == Alive(c) /\ c \in groups[Watches[c]] /\ k \in missed[c]

\* No step of t touches what another handler holds.
Own(t) == \A u \in Threads \ {t} :
            /\ pc'[u] = pc[u] /\ arg'[u] = arg[u] /\ frames'[u] = frames[u]
            /\ roster'[u] = roster[u] /\ reply'[u] = reply[u]

\* A thread goes to another step, keeping or dropping what it holds.
LEMMA Moving ==
  ASSUME NEW t \in Threads, GhostInv, Shape, NEW step
  PROVE  /\ Goto(t, step) => /\ pc'[t] = step
                             /\ \A u \in Threads \ {t} : pc'[u] = pc[u]
         /\ Hold => UNCHANGED <<arg, frames, roster>>
         /\ End(t) => /\ pc'[t] = IF t[2] = "leave" THEN "gone" ELSE "idle"
                      /\ \A u \in Threads \ {t} :
                           /\ pc'[u] = pc[u] /\ arg'[u] = arg[u]
                           /\ frames'[u] = frames[u] /\ roster'[u] = roster[u]
                      /\ DOMAIN arg' = Threads /\ DOMAIN frames' = Threads
                      /\ DOMAIN roster' = Threads
<1>1. DOMAIN pc = Threads
  BY DEF GhostInv, GhostTypes
<1>2. QED
  BY <1>1 DEF Goto, Hold, End, Shape

\* What the registry answers a thread changes the reply of no other thread.
LEMMA Answering ==
  ASSUME NEW t \in Threads, GhostInv, NEW v
  PROVE  presence!Reply(t, v) => /\ reply'[t] = v
                                 /\ \A u \in Threads \ {t} : reply'[u] = reply[u]
BY DEF presence!Reply, GhostInv, GhostTypes

\* A silent step adds to what the members of a group miss what it changed.
LEMMA SilentOwes ==
  ASSUME Silent, Shape, NEW c \in Connections, NEW k \in Kinds
  PROVE  /\ groups' = groups /\ DOMAIN missed' = Connections
         /\ k \in missed'[c] =>
              \/ k \in missed[c]
              \/ Alive(c) /\ c \in groups[Watches[c]] /\ k \in Changed(Watches[c])
BY DEF Silent, Shape

\* What a step changes of each kind.
LEMMA ChangedKinds ==
  ASSUME NEW s \in Sessions
  PROVE  /\ "frames" \in Changed(s) => snapshot'[s] # snapshot[s]
         /\ "roster" \in Changed(s) => presence!Roster(s)' # presence!Roster(s)
         /\ "locks" \in Changed(s) => presence!LocksOf(s)' # presence!LocksOf(s)
         /\ "granted" \in Changed(s) =>
              ~(presence!LocksOf(s)' \subseteq presence!LocksOf(s))
BY DEF Changed

\* A send adds to what nobody misses, and settles its kinds for its receivers.
LEMMA SendOwes ==
  ASSUME Shape, NEW to, NEW field, NEW value, NEW settled,
         Send(to, field, value, settled), NEW c \in Connections
  PROVE  /\ groups' = groups /\ snapshot' = snapshot /\ DOMAIN missed' = Connections
         /\ missed'[c] \subseteq missed[c]
         /\ c \in to /\ Alive(c) => missed'[c] = missed[c] \ settled
BY DEF Send, Shape

\* A handler step stays with its own thread.
OwnStep(t) == Own(t) /\ Shape'

\* The steps the handlers share.
LEMMA SharedOwn ==
  ASSUME NEW t \in Threads, GhostInv, Shape
  PROVE  /\ \A step : Goto(t, step) /\ Hold /\ (\E v : presence!Reply(t, v)) /\ Silent
                      /\ UNCHANGED snapshot => OwnStep(t)
         /\ \A step, to, field, value, settled :
              Continue(t, step) /\ Send(to, field, value, settled) => OwnStep(t)
         /\ \A to, field, value, settled :
              Return(t) /\ Send(to, field, value, settled) => OwnStep(t)
         /\ Return(t) /\ Silent /\ UNCHANGED snapshot => OwnStep(t)
         /\ \A from, to : SessionOf(t, from, to) => OwnStep(t)
         /\ \A from, to, present : ReadLocks(t, from, to, present) => OwnStep(t)
         /\ \A from : BroadcastLocks(t, from) => OwnStep(t)
<1>1. ASSUME NEW step, Goto(t, step), Hold, NEW v, presence!Reply(t, v), Silent,
             UNCHANGED snapshot
      PROVE  OwnStep(t)
  <2>1. Own(t)
    BY <1>1, Moving, Answering DEF Own
  <2>2. Shape'
    BY <1>1, Moving DEF Shape, Silent
  <2>3. QED
    BY <2>1, <2>2 DEF OwnStep
<1>2. ASSUME NEW step, NEW to, NEW field, NEW value, NEW settled,
             Continue(t, step), Send(to, field, value, settled)
      PROVE  OwnStep(t)
  <2>1. Own(t)
    BY <1>2, Moving DEF Continue, Own, registry
  <2>2. Shape'
    BY <1>2, Moving DEF Shape, Continue, Send
  <2>3. QED
    BY <2>1, <2>2 DEF OwnStep
<1>3. ASSUME Return(t) PROVE Own(t) /\ DOMAIN arg' = Threads /\ DOMAIN frames' = Threads
                             /\ DOMAIN roster' = Threads
  BY <1>3, Moving, Answering DEF Return, presence!Forget, Own
<1>4. ASSUME NEW to, NEW field, NEW value, NEW settled,
             Return(t), Send(to, field, value, settled)
      PROVE  OwnStep(t)
  BY <1>3, <1>4 DEF OwnStep, Shape, Send
<1>5. ASSUME Return(t), Silent, UNCHANGED snapshot PROVE OwnStep(t)
  BY <1>3, <1>5 DEF OwnStep, Shape, Silent
<1>6. ASSUME NEW from, NEW to, SessionOf(t, from, to) PROVE OwnStep(t)
  <2>1. Silent /\ UNCHANGED snapshot
    BY <1>6 DEF SessionOf
  <2>2. CASE /\ arg' = [arg EXCEPT ![t] = session[t[1]]]
             /\ Goto(t, to)
             /\ UNCHANGED <<frames, roster, registry>>
    <3>1. Own(t)
      BY <2>2, Moving DEF Own, registry, Shape
    <3>2. Shape'
      BY <2>1, <2>2 DEF Shape, Silent
    <3>3. QED
      BY <3>1, <3>2 DEF OwnStep
  <2>3. QED
    BY <1>5, <1>6, <2>1, <2>2 DEF SessionOf
<1>7. ASSUME NEW from, NEW to, NEW present, ReadLocks(t, from, to, present)
      PROVE  OwnStep(t)
  <2>1. \E v : presence!Reply(t, v)
    BY <1>7 DEF ReadLocks, presence!GetLocks
  <2>2. Goto(t, to) /\ Hold /\ Silent /\ UNCHANGED snapshot
    BY <1>7 DEF ReadLocks
  <2>3. QED
    BY <1>1, <2>1, <2>2
<1>8. ASSUME NEW from, BroadcastLocks(t, from) PROVE OwnStep(t)
  BY <1>4, <1>8 DEF BroadcastLocks, SendLocks
<1>9. QED
  BY <1>1, <1>2, <1>4, <1>5, <1>6, <1>7, <1>8

\* A step of a handler writes what its own thread holds only.
LEMMA StepOwn ==
  ASSUME NEW t \in Threads, GhostInv, Shape, Step(t)
  PROVE  OwnStep(t)
<1>1. ASSUME NEW s \in Sessions, JoinSession(t, s) PROVE OwnStep(t)
  <2>1. CASE At(t, "join") /\ AddToGroup(t, s) /\ Continue(t, "join:snapshot")
    <3>1. Own(t)
      BY <2>1, Moving DEF Continue, Own, registry
    <3>2. Shape'
      BY <2>1, Moving DEF Shape, Continue, AddToGroup
    <3>3. QED
      BY <3>1, <3>2 DEF OwnStep
  <2>2. CASE /\ frames' = [frames EXCEPT ![t] = snapshot[s]]
             /\ \E step : Goto(t, step)
             /\ UNCHANGED <<registry, snapshot, arg, roster>>
             /\ Silent
    <3>1. Own(t)
      BY <2>2, Moving DEF Own, registry, Shape
    <3>2. Shape'
      BY <2>2 DEF Shape, Silent
    <3>3. QED
      BY <3>1, <3>2 DEF OwnStep
  <2>3. CASE SendFrames({t[1]}, s, frames[t]) /\ Continue(t, "join:presence")
    BY <2>3, SharedOwn DEF SendFrames
  <2>4. CASE /\ At(t, "join:presence")
             /\ presence!Join(t[1], s)
             /\ roster' = [roster EXCEPT ![t] = reply'[t].roster]
             /\ Goto(t, "join:getlocks")
             /\ UNCHANGED <<snapshot, arg, frames>>
             /\ Silent
    <3>1. t = Call(t[1])
      BY <2>4, CallThread DEF At, LeaveSteps
    <3>2. \E v : presence!Reply(t, v)
      BY <2>4, <3>1 DEF presence!Join, Call
    <3>3. Own(t)
      BY <2>4, <3>2, Moving, Answering DEF Own, Shape
    <3>4. Shape'
      BY <2>4 DEF Shape, Silent
    <3>5. QED
      BY <3>3, <3>4 DEF OwnStep
  <2>5. CASE ReadLocks(t, "join:getlocks", "join:locks", {t[1]})
    BY <2>5, SharedOwn
  <2>6. CASE SendLocks({t[1]}, s, reply[t].locks) /\ Continue(t, "join:roster")
    BY <2>6, SharedOwn DEF SendLocks
  <2>7. CASE SendRoster(groups[s], s, roster[t]) /\ Return(t)
    BY <2>7, SharedOwn DEF SendRoster
  <2>8. QED
    BY <1>1, <2>1, <2>2, <2>3, <2>4, <2>5, <2>6, <2>7 DEF JoinSession, CatchUp
<1>2. ASSUME PushRdl(t) PROVE OwnStep(t)
  <2>1. CASE Return(t) /\ UNCHANGED snapshot /\ Silent
    BY <2>1, SharedOwn
  <2>2. ASSUME NEW pages \in Frames,
               snapshot' = [snapshot EXCEPT ![arg[t]] = pages],
               frames' = [frames EXCEPT ![t] = pages],
               Goto(t, "push:frames"), UNCHANGED <<registry, arg, roster>>, Silent
        PROVE  OwnStep(t)
    <3>1. Own(t)
      BY <2>2, Moving DEF Own, registry, Shape
    <3>2. Shape'
      BY <2>2 DEF Shape, Silent
    <3>3. QED
      BY <3>1, <3>2 DEF OwnStep
  <2>3. CASE SendFrames(groups[arg[t]], arg[t], frames[t]) /\ Return(t)
    BY <2>3, SharedOwn DEF SendFrames
  <2>4. QED
    BY <1>2, <2>1, <2>2, <2>3 DEF PushRdl
<1>3. ASSUME pc[t] \in {"select", "claim", "release"} PROVE t = presence!Call(t[1])
  BY <1>3, CallThread DEF LeaveSteps, Call
<1>4. ASSUME NEW v, presence!Reply(t, v), Silent, UNCHANGED snapshot,
             \/ Hold /\ \E step : Goto(t, step)
             \/ End(t)
      PROVE  OwnStep(t)
  <2>1. CASE Hold /\ \E step : Goto(t, step)
    BY <1>4, <2>1, SharedOwn
  <2>2. CASE End(t)
    <3>1. Own(t)
      BY <1>4, <2>2, Moving, Answering DEF Own
    <3>2. Shape'
      BY <1>4, <2>2, Moving DEF Shape, Silent
    <3>3. QED
      BY <3>1, <3>2 DEF OwnStep
  <2>3. QED
    BY <1>4, <2>1, <2>2
<1>5. ASSUME UpdateSelection(t) PROVE OwnStep(t)
  <2>1. ASSUME At(t, "select"), NEW elements, presence!UpdateSelection(t[1], elements),
               Goto(t, "select:session"), Hold, UNCHANGED snapshot, Silent
        PROVE  OwnStep(t)
    <3>1. \E v : presence!Reply(t, v)
      BY <1>3, <2>1 DEF presence!UpdateSelection, At
    <3>2. QED
      BY <1>4, <2>1, <3>1
  <2>2. CASE SendRoster(groups[arg[t]], arg[t], reply[t].roster) /\ Return(t)
    BY <2>2, SharedOwn DEF SendRoster
  <2>3. QED
    BY <1>5, <2>1, <2>2, SharedOwn DEF UpdateSelection
<1>6. ASSUME ClaimElement(t) PROVE OwnStep(t)
  <2>1. ASSUME At(t, "claim"), NEW e, presence!ClaimElement(t[1], e),
               (Goto(t, "claim:session") /\ Hold) \/ End(t), UNCHANGED snapshot, Silent
        PROVE  OwnStep(t)
    <3>1. \E v : presence!Reply(t, v)
      BY <1>3, <2>1 DEF presence!ClaimElement, At
    <3>2. QED
      BY <1>4, <2>1, <3>1
  <2>2. QED
    BY <1>6, <2>1, SharedOwn DEF ClaimElement
<1>7. ASSUME ReleaseElement(t) PROVE OwnStep(t)
  <2>1. ASSUME At(t, "release"), NEW e, presence!ReleaseElement(t[1], e),
               (Goto(t, "release:session") /\ Hold) \/ End(t), UNCHANGED snapshot, Silent
        PROVE  OwnStep(t)
    <3>1. \E v : presence!Reply(t, v)
      BY <1>3, <2>1 DEF presence!ReleaseElement, At
    <3>2. QED
      BY <1>4, <2>1, <3>1
  <2>2. QED
    BY <1>7, <2>1, SharedOwn DEF ReleaseElement
<1>8. ASSUME OnDisconnected(t) PROVE OwnStep(t)
  <2>1. ASSUME At(t, "leave"), presence!Leave(t[1]), UNCHANGED snapshot, Silent,
               \/ /\ arg' = [arg EXCEPT ![t] = reply'[t].left]
                  /\ roster' = [roster EXCEPT ![t] = reply'[t].survivors]
                  /\ Goto(t, "leave:roster")
                  /\ UNCHANGED frames
               \/ End(t)
        PROVE  OwnStep(t)
    <3>1. t = presence!Disconnect(t[1])
      BY <2>1, LeaveThread DEF At, LeaveSteps, Disconnect
    <3>2. PICK v : presence!Reply(t, v)
      BY <2>1, <3>1 DEF presence!Leave
    <3>3. CASE /\ arg' = [arg EXCEPT ![t] = reply'[t].left]
               /\ roster' = [roster EXCEPT ![t] = reply'[t].survivors]
               /\ Goto(t, "leave:roster")
               /\ UNCHANGED frames
      <4>1. Own(t)
        BY <3>2, <3>3, Moving, Answering DEF Own, Shape
      <4>2. Shape'
        BY <2>1, <3>3 DEF Shape, Silent
      <4>3. QED
        BY <4>1, <4>2 DEF OwnStep
    <3>4. QED
      BY <1>4, <2>1, <3>2, <3>3
  <2>2. CASE SendRoster(groups[arg[t]], arg[t], roster[t]) /\ Continue(t, "leave:getlocks")
    BY <2>2, SharedOwn DEF SendRoster
  <2>3. CASE SendRoster(groups[arg[t]], arg[t], roster[t]) /\ Return(t)
    BY <2>3, SharedOwn DEF SendRoster
  <2>4. QED
    BY <1>8, <2>1, <2>2, <2>3, SharedOwn DEF OnDisconnected
<1>9. QED
  BY <1>1, <1>2, <1>5, <1>6, <1>7, <1>8 DEF Step

-----------------------------------------------------------------------------
(* What is owed is on its way: the invariant                               *)

\* The latest frames of its session are on their way to client c.
FramesToCome(c) ==
  LET s == Watches[c] IN
  \/ snapshot[s] = None
  \/ pc[Call(c)] = "join:snapshot"
  \/ pc[Call(c)] = "join:frames" /\ frames[Call(c)] = snapshot[s]
  \/ \E t \in Threads : pc[t] = "push:frames" /\ arg[t] = s /\ frames[t] = snapshot[s]

\* So is the roster: some handler holds it as it now stands.
RosterToCome(c) ==
  LET s == Watches[c] IN
  \/ pc[Call(c)] \in {"join:snapshot", "join:frames", "join:presence"}
  \/ \E t \in Threads :
       \/ /\ pc[t] \in {"join:getlocks", "join:locks", "join:roster", "leave:roster"}
          /\ arg[t] = s /\ roster[t] = presence!Roster(s)
       \/ /\ pc[t] = "select:session" /\ session[t[1]] = s
          /\ reply[t].roster = presence!Roster(s)
       \/ /\ pc[t] = "select:roster" /\ arg[t] = s
          /\ reply[t].roster = presence!Roster(s)

\* The steps of a join before it has read the locks.
BeforeLocks == {"join:snapshot", "join:frames", "join:presence", "join:getlocks"}

\* Every lock now held is: a list that has it was read, or will be. A claim will
\* read one as long as its connection stays; should it leave with a lock, its
\* OnDisconnected will, where nobody but survivors may hold a lock: an empty list
\* is read for those who have gone only.
GrantsToCome(c) ==
  LET s == Watches[c] IN
  \/ pc[Call(c)] \in BeforeLocks
  \/ pc[Call(c)] = "join:locks" /\ presence!LocksOf(s) \subseteq reply[Call(c)].locks
  \/ \E t \in Threads :
       \/ /\ pc[t] \in {"claim:session", "claim:getlocks"} /\ session[t[1]] = s
          /\ pc[t] = "claim:getlocks" => arg[t] = s
          /\ \E e \in Elements : holder[s][e] = t[1]
       \/ /\ pc[t] \in {"claim:locks", "release:locks", "leave:locks"} /\ arg[t] = s
          /\ presence!LocksOf(s) \subseteq reply[t].locks
       \/ /\ pc[t] \in {"leave:roster", "leave:getlocks"} /\ arg[t] = s
          /\ pc[t] = "leave:roster" => reply[t].freed # {}
          /\ \A e \in Elements : holder[s][e] # None => holder[s][e] \in DOMAIN roster[t]

\* As long as nobody leaves, so is the very list of locks.
LocksToCome(c) ==
  LET s == Watches[c] IN
  \/ pc[Call(c)] \in BeforeLocks
  \/ pc[Call(c)] = "join:locks" /\ reply[Call(c)].locks = presence!LocksOf(s)
  \/ \E t \in Threads :
       \/ /\ pc[t] \in {"claim:session", "claim:getlocks",
                        "release:session", "release:getlocks"}
          /\ session[t[1]] = s
          /\ pc[t] \in {"claim:getlocks", "release:getlocks"} => arg[t] = s
       \/ /\ pc[t] \in {"claim:locks", "release:locks"} /\ arg[t] = s
          /\ reply[t].locks = presence!LocksOf(s)

JoinSteps == {"join", "join:snapshot", "join:frames", "join:presence",
              "join:getlocks", "join:locks", "join:roster"}

\* A join or a push is of the session its connection opened; a join that has made
\* its caller a participant has a participant as long as the connection lives.
JoinsWatch ==
  /\ \A c \in Connections :
       pc[Call(c)] \in JoinSteps \cup {"push", "push:frames"} => arg[Call(c)] = Watches[c]
  /\ \A c \in Connections :
       pc[Call(c)] \in {"join:getlocks", "join:locks", "join:roster"} /\ Alive(c)
         => session[c] = Watches[c]

FramesOwed == \A c \in Connections : Owes(c, "frames") => FramesToCome(c)
RosterOwed == \A c \in Connections : Owes(c, "roster") => RosterToCome(c)
GrantsOwed == \A c \in Connections : Owes(c, "granted") => GrantsToCome(c)
LocksOwed  == (\A c \in Connections : Alive(c)) =>
                \A c \in Connections : Owes(c, "locks") => LocksToCome(c)

OwedInv == /\ GhostInv /\ Shape /\ JoinsWatch /\ DOMAIN selection = Connections
           /\ FramesOwed /\ RosterOwed /\ GrantsOwed /\ LocksOwed

\* What a step of a handler leaves alone.
Effects(t) ==
  /\ \/ Silent
     \/ \E to, field, value, settled : Send(to, field, value, settled)
     \/ pc[t] = "join"
  /\ pc[t] # "push" => snapshot' = snapshot
  /\ pc[t] \notin {"join:presence", "select", "leave"} => UNCHANGED <<session, selection>>
  /\ pc[t] \notin {"claim", "release", "leave"} => UNCHANGED holder

\* Answering, going on and returning write nothing but a reply.
LEMMA AnswersLeaveAlone ==
  ASSUME NEW t \in Threads
  PROVE  /\ \A step : Continue(t, step) => UNCHANGED <<session, selection, holder>>
         /\ Return(t) => UNCHANGED <<session, selection, holder>>
         /\ \A s, present : presence!GetLocks(t, s, present) =>
                              UNCHANGED <<session, selection, holder>>
BY DEF Continue, Return, registry, presence!Forget, presence!GetLocks, presence!registry

\* A send is a send.
LEMMA SendEffects ==
  ASSUME NEW t \in Threads, UNCHANGED <<session, selection, holder>>,
         NEW to, NEW field, NEW value, NEW settled, Send(to, field, value, settled)
  PROVE  Effects(t)
<1>1. snapshot' = snapshot
  BY DEF Send
<1>2. QED
  BY <1>1 DEF Effects

\* The steps the handlers share are silent or send, and leave all state alone.
LEMMA SharedEffects ==
  ASSUME NEW t \in Threads, NEW from, NEW to, NEW present,
         \/ SessionOf(t, from, to)
         \/ ReadLocks(t, from, to, present)
         \/ BroadcastLocks(t, from)
  PROVE  Effects(t)
<1>1. CASE SessionOf(t, from, to)
  BY <1>1, AnswersLeaveAlone DEF SessionOf, Effects, registry
<1>2. CASE ReadLocks(t, from, to, present)
  BY <1>2, AnswersLeaveAlone DEF ReadLocks, Effects
<1>3. CASE BroadcastLocks(t, from)
  BY <1>3, AnswersLeaveAlone, SendEffects DEF BroadcastLocks, SendLocks
<1>4. QED
  BY <1>1, <1>2, <1>3

\* Every step of a handler is as said.
LEMMA StepEffects ==
  ASSUME NEW t \in Threads, Step(t)
  PROVE  Effects(t)
<1>1. ASSUME NEW s \in Sessions, JoinSession(t, s) PROVE Effects(t)
  <2>1. CASE At(t, "join") /\ AddToGroup(t, s) /\ Continue(t, "join:snapshot")
    BY <2>1, AnswersLeaveAlone DEF At, AddToGroup, Effects
  <2>2. CASE UNCHANGED <<registry, snapshot, arg, roster>> /\ Silent
    BY <2>2 DEF registry, Effects
  <2>3. CASE SendFrames({t[1]}, s, frames[t]) /\ Continue(t, "join:presence")
    BY <2>3, SendEffects, AnswersLeaveAlone DEF SendFrames
  <2>4. CASE /\ At(t, "join:presence")
             /\ presence!Join(t[1], s)
             /\ UNCHANGED <<snapshot, arg, frames>>
             /\ Silent
    BY <2>4 DEF At, presence!Join, presence!Enrol, Effects
  <2>5. CASE ReadLocks(t, "join:getlocks", "join:locks", {t[1]})
    BY <2>5, SharedEffects
  <2>6. CASE SendLocks({t[1]}, s, reply[t].locks) /\ Continue(t, "join:roster")
    BY <2>6, SendEffects, AnswersLeaveAlone DEF SendLocks
  <2>7. CASE SendRoster(groups[s], s, roster[t]) /\ Return(t)
    BY <2>7, SendEffects, AnswersLeaveAlone DEF SendRoster
  <2>8. QED
    BY <1>1, <2>1, <2>2, <2>3, <2>4, <2>5, <2>6, <2>7 DEF JoinSession, CatchUp
<1>2. ASSUME PushRdl(t) PROVE Effects(t)
  <2>1. CASE At(t, "push") /\ Silent /\ (Return(t) \/ UNCHANGED registry)
    BY <2>1, AnswersLeaveAlone DEF At, registry, Effects
  <2>2. CASE SendFrames(groups[arg[t]], arg[t], frames[t]) /\ Return(t)
    BY <2>2, SendEffects, AnswersLeaveAlone DEF SendFrames
  <2>3. QED
    BY <1>2, <2>1, <2>2 DEF PushRdl
<1>3. ASSUME UpdateSelection(t) PROVE Effects(t)
  <2>1. ASSUME At(t, "select"), NEW elements, presence!UpdateSelection(t[1], elements),
               UNCHANGED snapshot, Silent
        PROVE  Effects(t)
    BY <2>1 DEF At, presence!UpdateSelection, presence!Select, Effects
  <2>2. CASE SendRoster(groups[arg[t]], arg[t], reply[t].roster) /\ Return(t)
    BY <2>2, SendEffects, AnswersLeaveAlone DEF SendRoster
  <2>3. QED
    BY <1>3, <2>1, <2>2, SharedEffects DEF UpdateSelection
<1>4. ASSUME ClaimElement(t) PROVE Effects(t)
  <2>1. ASSUME At(t, "claim"), NEW e, presence!ClaimElement(t[1], e),
               UNCHANGED snapshot, Silent
        PROVE  Effects(t)
    BY <2>1 DEF At, presence!ClaimElement, presence!Claim, Effects
  <2>2. QED
    BY <1>4, <2>1, SharedEffects DEF ClaimElement
<1>5. ASSUME ReleaseElement(t) PROVE Effects(t)
  <2>1. ASSUME At(t, "release"), NEW e, presence!ReleaseElement(t[1], e),
               UNCHANGED snapshot, Silent
        PROVE  Effects(t)
    BY <2>1 DEF At, presence!ReleaseElement, presence!Release, Effects
  <2>2. QED
    BY <1>5, <2>1, SharedEffects DEF ReleaseElement
<1>6. ASSUME OnDisconnected(t) PROVE Effects(t)
  <2>1. CASE At(t, "leave") /\ UNCHANGED snapshot /\ Silent
    BY <2>1 DEF At, Effects
  <2>2. CASE /\ SendRoster(groups[arg[t]], arg[t], roster[t])
             /\ Continue(t, "leave:getlocks") \/ Return(t)
    BY <2>2, SendEffects, AnswersLeaveAlone DEF SendRoster
  <2>3. QED
    BY <1>6, <2>1, <2>2, SharedEffects DEF OnDisconnected
<1>7. QED
  BY <1>1, <1>2, <1>3, <1>4, <1>5, <1>6 DEF Step

\* No step of a handler brings a connection back or loses it.
LEMMA StepAlive ==
  ASSUME NEW t \in Threads, GhostInv, Step(t), NEW c \in Connections
  PROVE  Alive(c)' <=> Alive(c)
<1>1. CASE t = Disconnect(c)
  <2>1. t[2] = "leave" /\ t # Call(t[1])
    BY <1>1 DEF Disconnect, presence!Disconnect, Call, presence!Call
  <2>2. OnDisconnected(t)
    <3>1. pc[t] \in LeaveSteps
      BY <2>1, CallThread
    <3>2. QED
      BY <3>1 DEF Step, LeaveSteps, JoinSession, CatchUp, PushRdl, UpdateSelection,
                  ClaimElement, ReleaseElement, SessionOf, ReadLocks, BroadcastLocks, At
  <2>3. pc[t] # "idle"
    BY <2>2 DEF OnDisconnected, ReadLocks, BroadcastLocks, At
  <2>4. pc' = [pc EXCEPT ![t] = "leave:roster"] \/ pc' = [pc EXCEPT ![t] = "gone"]
        \/ pc' = [pc EXCEPT ![t] = "leave:getlocks"] \/ pc' = [pc EXCEPT ![t] = "leave:locks"]
    BY <2>1, <2>2 DEF OnDisconnected, ReadLocks, BroadcastLocks, Return, Continue, End, Goto
  <2>5. pc'[t] # "idle"
    BY <2>4 DEF GhostInv, GhostTypes
  <2>6. QED
    BY <1>1, <2>3, <2>5 DEF Alive
<1>2. CASE t # Disconnect(c)
  <2>1. \A step : Goto(t, step) => pc'[Disconnect(c)] = pc[Disconnect(c)]
    BY <1>2, ThreadCases DEF Goto, GhostInv, GhostTypes
  <2>2. \E step : Goto(t, step)
    BY DEF Step, JoinSession, CatchUp, PushRdl, UpdateSelection, ClaimElement,
           ReleaseElement, OnDisconnected, SessionOf, ReadLocks, BroadcastLocks,
           Return, Continue, End
  <2>3. QED
    BY <2>1, <2>2 DEF Alive
<1>3. QED
  BY <1>1, <1>2

\* A client misses after a step what it missed before, or what the step changed.
LEMMA StepOwes ==
  ASSUME NEW t \in Threads, GhostInv, Shape, Step(t), pc[t] # "join",
         NEW c \in Connections, NEW k \in Kinds
  PROVE  Owes(c, k)' => Owes(c, k) \/ k \in Changed(Watches[c])
<1>1. Alive(c)' <=> Alive(c)
  BY StepAlive
<1>2. CASE Silent
  BY <1>1, <1>2, SilentOwes DEF Owes
<1>3. ASSUME NEW to, NEW field, NEW value, NEW settled, Send(to, field, value, settled)
      PROVE  Owes(c, k)' => Owes(c, k)
  BY <1>1, <1>3, SendOwes DEF Owes
<1>4. QED
  BY <1>2, <1>3, StepEffects DEF Effects

-----------------------------------------------------------------------------
(* What is owed is on its way: the frames                                  *)

\* Thread t has the latest frames of client c in hand.
BringsFrames(t, c) ==
  \/ t = Call(c) /\ pc[t] = "join:snapshot"
  \/ t = Call(c) /\ pc[t] = "join:frames" /\ frames[t] = snapshot[Watches[c]]
  \/ pc[t] = "push:frames" /\ arg[t] = Watches[c] /\ frames[t] = snapshot[Watches[c]]

\* Frames to come are in the hands of a thread.
LEMMA FramesCarried ==
  ASSUME NEW c \in Connections
  PROVE  FramesToCome(c) <=> \/ snapshot[Watches[c]] = None
                             \/ \E t \in Threads : BringsFrames(t, c)
<1>1. Call(c) \in Threads
  BY DEF Threads, Call, presence!Threads, presence!Call
<1>2. QED
  BY <1>1 DEF FramesToCome, BringsFrames

\* A step of a thread that does not have them, and stores none, keeps them coming.
LEMMA FramesKept ==
  ASSUME NEW t \in Threads, OwedInv, Own(t), NEW c \in Connections,
         snapshot'[Watches[c]] = snapshot[Watches[c]],
         FramesToCome(c), ~BringsFrames(t, c)
  PROVE  FramesToCome(c)'
<1>1. CASE snapshot[Watches[c]] = None
  BY <1>1 DEF FramesToCome
<1>2. CASE \E u \in Threads : BringsFrames(u, c)
  <2>1. PICK u \in Threads : BringsFrames(u, c)
    BY <1>2
  <2>2. u # t
    BY <2>1
  <2>3. BringsFrames(u, c)'
    BY <2>1, <2>2 DEF Own, BringsFrames
  <2>4. QED
    BY <2>1, <2>3, ThreadCases DEF FramesToCome, BringsFrames
<1>3. QED
  BY <1>1, <1>2, FramesCarried

\* The steps of a join that replay the snapshot, and those of a push, by name.
LEMMA FramesSteps ==
  ASSUME NEW t \in Threads, GhostInv, Step(t)
  PROVE  /\ pc[t] = "join" => \E s \in Sessions : /\ s = arg[t] /\ AddToGroup(t, s)
                                                  /\ Goto(t, "join:snapshot") /\ Hold
         /\ pc[t] = "join:snapshot" =>
              \E s \in Sessions :
                /\ s = arg[t] /\ frames' = [frames EXCEPT ![t] = snapshot[s]]
                /\ Goto(t, IF snapshot[s] # None THEN "join:frames" ELSE "join:presence")
                /\ UNCHANGED snapshot
         /\ pc[t] = "join:frames" => \E s \in Sessions : s = arg[t] /\ SendFrames({t[1]}, s, frames[t])
         /\ pc[t] = "push" =>
              \/ UNCHANGED snapshot
              \/ \E pages \in Frames :
                   /\ snapshot' = [snapshot EXCEPT ![arg[t]] = pages]
                   /\ frames' = [frames EXCEPT ![t] = pages]
                   /\ Goto(t, "push:frames") /\ UNCHANGED arg
         /\ pc[t] = "push:frames" => SendFrames(groups[arg[t]], arg[t], frames[t])
<1> USE DEF Step, JoinSession, CatchUp, PushRdl, UpdateSelection, ClaimElement,
            ReleaseElement, OnDisconnected, SessionOf, ReadLocks, BroadcastLocks, At
<1>1. ASSUME pc[t] = "join"
      PROVE  \E s \in Sessions : /\ s = arg[t] /\ AddToGroup(t, s)
                                 /\ Goto(t, "join:snapshot") /\ Hold
  BY <1>1 DEF Continue
<1>2. ASSUME pc[t] = "join:snapshot"
      PROVE  \E s \in Sessions :
                /\ s = arg[t] /\ frames' = [frames EXCEPT ![t] = snapshot[s]]
                /\ Goto(t, IF snapshot[s] # None THEN "join:frames" ELSE "join:presence")
                /\ UNCHANGED snapshot
  BY <1>2
<1>3. ASSUME pc[t] = "join:frames"
      PROVE  \E s \in Sessions : s = arg[t] /\ SendFrames({t[1]}, s, frames[t])
  BY <1>3
<1>4. ASSUME pc[t] = "push"
      PROVE  \/ UNCHANGED snapshot
             \/ \E pages \in Frames :
                  /\ snapshot' = [snapshot EXCEPT ![arg[t]] = pages]
                  /\ frames' = [frames EXCEPT ![t] = pages]
                  /\ Goto(t, "push:frames") /\ UNCHANGED arg
  BY <1>4
<1>5. ASSUME pc[t] = "push:frames" PROVE SendFrames(groups[arg[t]], arg[t], frames[t])
  BY <1>5
<1>6. QED
  BY <1>1, <1>2, <1>3, <1>4, <1>5

\* Whoever misses frames has the latest ones coming, after every step of a handler.
LEMMA FramesStep ==
  ASSUME NEW t \in Threads, OwedInv, Step(t), NEW c \in Connections, Owes(c, "frames")'
  PROVE  FramesToCome(c)'
<1>1. /\ Own(t) /\ GhostInv /\ Shape /\ JoinsWatch
      /\ (Owes(c, "frames") => FramesToCome(c)) /\ (Alive(c)' <=> Alive(c))
      /\ Watches[c] \in Sessions /\ DOMAIN pc = Threads
  BY StepOwn, StepAlive, HubAssumption
     DEF OwnStep, OwedInv, FramesOwed, GhostInv, GhostTypes
<1>2. CASE pc[t] = "join"
  <2>1. PICK s \in Sessions : AddToGroup(t, s) /\ Goto(t, "join:snapshot")
    BY <1>1, <1>2, FramesSteps
  <2>2. CASE t = Call(c)
    BY <1>1, <2>1, <2>2 DEF Goto, FramesToCome
  <2>3. CASE t # Call(c)
    <3>1. t[1] # c
      BY <1>1, <1>2, <2>3, CallThread DEF LeaveSteps
    <3>2. Owes(c, "frames") /\ snapshot' = snapshot
      BY <1>1, <2>1, <3>1 DEF AddToGroup, Owes, Shape
    <3>3. ~BringsFrames(t, c)
      BY <1>2 DEF BringsFrames
    <3>4. QED
      BY <1>1, <3>2, <3>3, FramesKept
  <2>4. QED
    BY <2>2, <2>3
<1>3. ASSUME pc[t] # "join", snapshot' = snapshot PROVE Owes(c, "frames")
  <2>1. "frames" \notin Changed(Watches[c])
    BY <1>1, <1>3, ChangedKinds
  <2>2. QED
    BY <1>1, <1>3, <2>1, StepOwes DEF Kinds
<1>4. CASE pc[t] = "join:snapshot"
  <2>1. PICK s \in Sessions :
          /\ s = arg[t] /\ frames' = [frames EXCEPT ![t] = snapshot[s]]
          /\ Goto(t, IF snapshot[s] # None THEN "join:frames" ELSE "join:presence")
          /\ UNCHANGED snapshot
    BY <1>1, <1>4, FramesSteps
  <2>2. CASE t = Call(c)
    <3>1. s = Watches[c]
      BY <1>1, <1>4, <2>1, <2>2 DEF JoinsWatch, JoinSteps
    <3>2. QED
      BY <1>1, <2>1, <2>2, <3>1 DEF Goto, FramesToCome, Shape
  <2>3. CASE t # Call(c)
    BY <1>1, <1>3, <1>4, <2>1, <2>3, FramesKept DEF BringsFrames
  <2>4. QED
    BY <2>2, <2>3
<1>5. CASE pc[t] = "join:frames"
  <2>1. PICK s \in Sessions : s = arg[t] /\ SendFrames({t[1]}, s, frames[t])
    BY <1>1, <1>5, FramesSteps
  <2>2. snapshot' = snapshot
    BY <2>1 DEF SendFrames, Send
  <2>3. ~BringsFrames(t, c)
    <3>1. SUFFICES ASSUME t = Call(c), frames[t] = snapshot[Watches[c]] PROVE FALSE
      BY <1>5 DEF BringsFrames
    <3>2. s = Watches[c] /\ t[1] = c
      BY <1>1, <1>5, <2>1, <3>1, ThreadCases DEF JoinsWatch, JoinSteps
    <3>3. Send({c}, "frames", frames[t], {"frames"})
      BY <2>1, <3>1, <3>2 DEF SendFrames
    <3>4. "frames" \notin missed'[c]
      BY <1>1, <3>3, SendOwes DEF Owes
    <3>5. QED
      BY <3>4 DEF Owes
  <2>4. QED
    BY <1>1, <1>3, <1>5, <2>2, <2>3, FramesKept
<1>6. CASE pc[t] = "push"
  <2>1. CASE UNCHANGED snapshot
    BY <1>1, <1>3, <1>6, <2>1, FramesKept DEF BringsFrames
  <2>2. ASSUME NEW pages \in Frames, snapshot' = [snapshot EXCEPT ![arg[t]] = pages],
               frames' = [frames EXCEPT ![t] = pages], Goto(t, "push:frames"), UNCHANGED arg
        PROVE  FramesToCome(c)'
    <3>1. CASE arg[t] = Watches[c]
      BY <1>1, <2>2, <3>1 DEF Goto, FramesToCome, Shape
    <3>2. CASE arg[t] # Watches[c]
      <4>1. snapshot'[Watches[c]] = snapshot[Watches[c]]
        BY <1>1, <2>2, <3>2 DEF Shape
      <4>2. "frames" \notin Changed(Watches[c])
        BY <1>1, <4>1, ChangedKinds
      <4>3. Owes(c, "frames")
        BY <1>1, <1>6, <4>2, StepOwes DEF Kinds
      <4>4. QED
        BY <1>1, <1>6, <4>1, <4>3, FramesKept DEF BringsFrames
    <3>3. QED
      BY <3>1, <3>2
  <2>3. QED
    BY <1>1, <1>6, <2>1, <2>2, FramesSteps
<1>7. CASE pc[t] = "push:frames"
  <2>1. SendFrames(groups[arg[t]], arg[t], frames[t])
    BY <1>1, <1>7, FramesSteps
  <2>2. snapshot' = snapshot
    BY <2>1 DEF SendFrames, Send
  <2>3. Owes(c, "frames")
    BY <1>3, <1>7, <2>2
  <2>4. ~BringsFrames(t, c)
    <3>1. SUFFICES ASSUME arg[t] = Watches[c], frames[t] = snapshot[Watches[c]] PROVE FALSE
      BY <1>7 DEF BringsFrames
    <3>2. Send(groups[arg[t]], "frames", frames[t], {"frames"})
      BY <2>1, <3>1 DEF SendFrames
    <3>3. "frames" \notin missed'[c]
      BY <1>1, <2>3, <3>1, <3>2, SendOwes DEF Owes
    <3>4. QED
      BY <3>3 DEF Owes
  <2>5. QED
    BY <1>1, <2>2, <2>3, <2>4, FramesKept
<1>8. CASE pc[t] \notin {"join", "join:snapshot", "join:frames", "push", "push:frames"}
  <2>1. snapshot' = snapshot
    BY <1>1, <1>8, StepEffects DEF Effects
  <2>2. ~BringsFrames(t, c)
    BY <1>8 DEF BringsFrames
  <2>3. QED
    BY <1>1, <1>3, <1>8, <2>1, <2>2, FramesKept
<1>9. QED
  BY <1>2, <1>4, <1>5, <1>6, <1>7, <1>8

-----------------------------------------------------------------------------
(* What is owed is on its way: the rosters                                 *)

BeforeRoster == {"join:snapshot", "join:frames", "join:presence"}

\* Thread t has the roster of client c's session in hand, as it now stands.
BringsRoster(t, c) ==
  LET s == Watches[c] IN
  \/ t = Call(c) /\ pc[t] \in BeforeRoster
  \/ /\ pc[t] \in {"join:getlocks", "join:locks", "join:roster", "leave:roster"}
     /\ arg[t] = s /\ roster[t] = presence!Roster(s)
  \/ /\ pc[t] = "select:session" /\ session[t[1]] = s
     /\ reply[t].roster = presence!Roster(s)
  \/ /\ pc[t] = "select:roster" /\ arg[t] = s
     /\ reply[t].roster = presence!Roster(s)

\* A roster to come is in the hands of a thread.
LEMMA RosterCarried ==
  ASSUME NEW c \in Connections
  PROVE  RosterToCome(c) <=> \E t \in Threads : BringsRoster(t, c)
<1>1. Call(c) \in Threads
  BY DEF Threads, Call, presence!Threads, presence!Call
<1>2. QED
  BY <1>1 DEF RosterToCome, BringsRoster, BeforeRoster

\* A step of a thread that does not have it, and does not change it, keeps it coming.
LEMMA RosterKept ==
  ASSUME NEW t \in Threads, OwedInv, Own(t), NEW c \in Connections,
         presence!Roster(Watches[c])' = presence!Roster(Watches[c]),
         \A d \in Connections : session[d] = Watches[c] => session'[d] = Watches[c],
         RosterToCome(c), ~BringsRoster(t, c)
  PROVE  \E u \in Threads : BringsRoster(u, c)'
<1>1. PICK u \in Threads : BringsRoster(u, c)
  BY RosterCarried
<1>2. u # t /\ u[1] \in Connections
  BY <1>1, ThreadCases
<1>3. BringsRoster(u, c)'
  <2>1. /\ pc'[u] = pc[u] /\ arg'[u] = arg[u] /\ roster'[u] = roster[u]
        /\ reply'[u] = reply[u]
    BY <1>2 DEF Own
  <2>2. QED
    BY <1>1, <1>2, <2>1 DEF BringsRoster
<1>4. QED
  BY <1>3

\* The steps that carry a roster, by name.
LEMMA RosterSteps ==
  ASSUME NEW t \in Threads, GhostInv, Step(t)
  PROVE  /\ pc[t] = "join:snapshot" => \E step \in BeforeRoster : Goto(t, step)
         /\ pc[t] = "join:frames" => Goto(t, "join:presence")
         /\ pc[t] = "join:presence" =>
              \E s \in Sessions :
                /\ s = arg[t] /\ presence!Join(t[1], s) /\ UNCHANGED arg
                /\ roster' = [roster EXCEPT ![t] = reply'[t].roster]
                /\ Goto(t, "join:getlocks")
         /\ pc[t] = "join:getlocks" => Goto(t, "join:locks") /\ Hold
         /\ pc[t] = "join:locks" => Goto(t, "join:roster") /\ Hold
         /\ pc[t] = "join:roster" =>
              \E s \in Sessions : s = arg[t] /\ SendRoster(groups[s], s, roster[t])
<1> USE DEF Step, JoinSession, CatchUp, PushRdl, UpdateSelection, ClaimElement,
            ReleaseElement, OnDisconnected, SessionOf, ReadLocks, BroadcastLocks, At
<1>1. ASSUME pc[t] = "join:snapshot" PROVE \E step \in BeforeRoster : Goto(t, step)
  <2>1. PICK s : Goto(t, IF snapshot[s] # None THEN "join:frames" ELSE "join:presence")
    BY <1>1
  <2>2. QED
    BY <2>1 DEF BeforeRoster
<1>2. ASSUME pc[t] = "join:frames" PROVE Goto(t, "join:presence")
  BY <1>2 DEF Continue
<1>3. ASSUME pc[t] = "join:presence"
      PROVE  \E s \in Sessions :
                /\ s = arg[t] /\ presence!Join(t[1], s) /\ UNCHANGED arg
                /\ roster' = [roster EXCEPT ![t] = reply'[t].roster]
                /\ Goto(t, "join:getlocks")
  BY <1>3
<1>4. ASSUME pc[t] = "join:getlocks" PROVE Goto(t, "join:locks") /\ Hold
  BY <1>4
<1>5. ASSUME pc[t] = "join:locks" PROVE Goto(t, "join:roster") /\ Hold
  BY <1>5 DEF Continue
<1>6. ASSUME pc[t] = "join:roster"
      PROVE  \E s \in Sessions : s = arg[t] /\ SendRoster(groups[s], s, roster[t])
  BY <1>6
<1>7. QED
  BY <1>1, <1>2, <1>3, <1>4, <1>5, <1>6

\* The steps of a selection and of a leave, by name.
LEMMA SelectLeaveSteps ==
  ASSUME NEW t \in Threads, GhostInv, Step(t)
  PROVE  /\ pc[t] = "select" => /\ \E elements : presence!UpdateSelection(t[1], elements)
                                /\ Goto(t, "select:session")
         /\ pc[t] = "select:session" =>
              \/ /\ arg' = [arg EXCEPT ![t] = session[t[1]]] /\ Goto(t, "select:roster")
                 /\ UNCHANGED reply
              \/ session[t[1]] = None
         /\ pc[t] = "select:roster" => SendRoster(groups[arg[t]], arg[t], reply[t].roster)
         /\ pc[t] = "leave" =>
              /\ presence!Leave(t[1])
              /\ \/ /\ reply'[t].left # None
                    /\ arg' = [arg EXCEPT ![t] = reply'[t].left]
                    /\ roster' = [roster EXCEPT ![t] = reply'[t].survivors]
                    /\ Goto(t, "leave:roster")
                 \/ reply'[t].left = None
         /\ pc[t] = "leave:roster" =>
              /\ SendRoster(groups[arg[t]], arg[t], roster[t])
              /\ \/ reply[t].freed # {} /\ Continue(t, "leave:getlocks")
                 \/ reply[t].freed = {}
<1> USE DEF Step, JoinSession, CatchUp, PushRdl, UpdateSelection, ClaimElement,
            ReleaseElement, OnDisconnected, SessionOf, ReadLocks, BroadcastLocks, At
<1>1. ASSUME pc[t] = "select"
      PROVE  /\ \E elements : presence!UpdateSelection(t[1], elements)
             /\ Goto(t, "select:session")
  BY <1>1
<1>2. ASSUME pc[t] = "select:session"
      PROVE  \/ /\ arg' = [arg EXCEPT ![t] = session[t[1]]] /\ Goto(t, "select:roster")
                /\ UNCHANGED reply
             \/ session[t[1]] = None
  BY <1>2 DEF registry
<1>3. ASSUME pc[t] = "select:roster"
      PROVE  SendRoster(groups[arg[t]], arg[t], reply[t].roster)
  BY <1>3
<1>4. ASSUME pc[t] = "leave"
      PROVE  /\ presence!Leave(t[1])
             /\ \/ /\ reply'[t].left # None
                   /\ arg' = [arg EXCEPT ![t] = reply'[t].left]
                   /\ roster' = [roster EXCEPT ![t] = reply'[t].survivors]
                   /\ Goto(t, "leave:roster")
                \/ reply'[t].left = None
  BY <1>4
<1>5. ASSUME pc[t] = "leave:roster"
      PROVE  /\ SendRoster(groups[arg[t]], arg[t], roster[t])
             /\ \/ reply[t].freed # {} /\ Continue(t, "leave:getlocks")
                \/ reply[t].freed = {}
  BY <1>5
<1>6. QED
  BY <1>1, <1>2, <1>3, <1>4, <1>5

\* A send of the roster leaves a thread without a roster that anyone misses.
LEMMA RosterSent ==
  ASSUME NEW t \in Threads, OwedInv, NEW c \in Connections,
         NEW list, SendRoster(groups[arg[t]], arg[t], list),
         Owes(c, "roster"), Owes(c, "roster")'
  PROVE  ~(arg[t] = Watches[c] /\ list = presence!Roster(Watches[c]))
<1>1. SUFFICES ASSUME arg[t] = Watches[c], list = presence!Roster(Watches[c]) PROVE FALSE
  OBVIOUS
<1>2. Send(groups[Watches[c]], "roster", list, {"roster"})
  BY <1>1 DEF SendRoster
<1>3. "roster" \notin missed'[c]
  BY <1>2, SendOwes DEF Owes, OwedInv
<1>4. QED
  BY <1>3 DEF Owes

\* Whoever misses the roster has it coming, after every step of a handler.
LEMMA RosterStep ==
  ASSUME NEW t \in Threads, OwedInv, Step(t), NEW c \in Connections, Owes(c, "roster")'
  PROVE  RosterToCome(c)'
<1> DEFINE s == Watches[c]
<1>0. SUFFICES \E u \in Threads : BringsRoster(u, c)'
  <2>1. Call(c) \in Threads
    BY DEF Threads, Call, presence!Threads, presence!Call
  <2>2. QED
    BY <2>1 DEF RosterToCome, BringsRoster, BeforeRoster
<1>1. /\ Own(t) /\ GhostInv /\ Shape /\ JoinsWatch
      /\ (Owes(c, "roster") => RosterToCome(c)) /\ (Alive(c)' <=> Alive(c))
      /\ s \in Sessions /\ DOMAIN pc = Threads /\ DOMAIN reply = Threads
      /\ session \in [Connections -> Sessions \cup {None}]
      /\ DOMAIN selection = Connections
      /\ t[1] \in Connections /\ (t = Call(c) => t[1] = c)
  BY StepOwn, StepAlive, HubAssumption, ThreadCases
     DEF OwnStep, OwedInv, RosterOwed, GhostInv, GhostTypes
<1>2. ASSUME pc[t] # "join", presence!Roster(s)' = presence!Roster(s)
      PROVE  Owes(c, "roster")
  <2>1. "roster" \notin Changed(s)
    BY <1>1, <1>2, ChangedKinds
  <2>2. QED
    BY <1>1, <1>2, <2>1, StepOwes DEF Kinds
<1>3. ASSUME pc[t] \notin {"join:presence", "select", "leave"}
      PROVE  presence!Roster(s)' = presence!Roster(s) /\ session' = session
  BY <1>3, StepEffects DEF Effects, presence!Roster
<1>4. ASSUME Owes(c, "roster"), ~BringsRoster(t, c),
             presence!Roster(s)' = presence!Roster(s),
             \A d \in Connections : session[d] = s => session'[d] = s
      PROVE  \E u \in Threads : BringsRoster(u, c)'
  BY <1>1, <1>4, RosterKept
<1>5. CASE pc[t] = "join"
  <2>1. PICK r \in Sessions : AddToGroup(t, r) /\ Goto(t, "join:snapshot")
    BY <1>1, <1>5, FramesSteps
  <2>2. CASE t = Call(c)
    BY <1>1, <2>1, <2>2 DEF Goto, BringsRoster, BeforeRoster
  <2>3. CASE t # Call(c)
    <3>1. t[1] # c
      BY <1>1, <1>5, <2>3, CallThread DEF LeaveSteps
    <3>2. Owes(c, "roster")
      BY <1>1, <2>1, <3>1 DEF AddToGroup, Owes, Shape
    <3>3. ~BringsRoster(t, c)
      BY <1>5 DEF BringsRoster, BeforeRoster
    <3>4. QED
      BY <1>3, <1>4, <1>5, <3>2, <3>3
  <2>4. QED
    BY <2>2, <2>3
<1>6. CASE pc[t] \in {"join:snapshot", "join:frames"}
  <2>1. PICK step \in BeforeRoster : Goto(t, step)
    BY <1>1, <1>6, RosterSteps DEF BeforeRoster
  <2>2. CASE t = Call(c)
    BY <1>1, <2>1, <2>2 DEF Goto, BringsRoster
  <2>3. CASE t # Call(c)
    BY <1>2, <1>3, <1>4, <1>6, <2>3 DEF BringsRoster
  <2>4. QED
    BY <2>2, <2>3
<1>7. CASE pc[t] = "join:presence"
  <2>1. PICK r \in Sessions :
          /\ r = arg[t] /\ presence!Join(t[1], r) /\ UNCHANGED arg
          /\ roster' = [roster EXCEPT ![t] = reply'[t].roster]
          /\ Goto(t, "join:getlocks")
    BY <1>1, <1>7, RosterSteps
  <2>2. /\ session[t[1]] \in {r, None} /\ session' = [session EXCEPT ![t[1]] = r]
        /\ selection' = [selection EXCEPT ![t[1]] = {}]
        /\ reply' = [reply EXCEPT ![Call(t[1])] = [roster |-> presence!Roster(r)']]
    BY <2>1 DEF presence!Join, presence!Enrol, presence!Reply, Call
  <2>3. t = Call(t[1])
    BY <1>1, <1>7, CallThread DEF LeaveSteps
  <2>4. CASE r = s
    <3>1. reply'[t].roster = presence!Roster(s)'
      BY <1>1, <2>2, <2>3, <2>4
    <3>2. roster'[t] = presence!Roster(s)' /\ pc'[t] = "join:getlocks" /\ arg'[t] = s
      BY <1>1, <2>1, <2>4, <3>1 DEF Goto, Shape
    <3>3. QED
      BY <3>2 DEF BringsRoster
  <2>5. CASE r # s
    <3>0. None # s
      BY <1>1, HubAssumption
    <3>1. \A d \in Connections : session[d] = s <=> session'[d] = s
      BY <1>1, <2>2, <2>5, <3>0
    <3>2. \A d \in Connections : session[d] = s => selection'[d] = selection[d]
      BY <1>1, <2>2, <2>5, <3>0
    <3>3. presence!Roster(s)' = presence!Roster(s)
      BY <3>1, <3>2 DEF presence!Roster
    <3>4. ~BringsRoster(t, c)
      <4>1. t # Call(c)
        BY <1>1, <1>7, <2>1, <2>5 DEF JoinsWatch, JoinSteps
      <4>2. QED
        BY <1>7, <4>1 DEF BringsRoster
    <3>5. QED
      BY <1>2, <1>4, <1>7, <3>1, <3>3, <3>4
  <2>6. QED
    BY <2>4, <2>5
<1>8. CASE pc[t] \in {"join:getlocks", "join:locks"}
  <2>1. \E step \in {"join:locks", "join:roster"} : Goto(t, step)
    BY <1>1, <1>8, RosterSteps
  <2>2. UNCHANGED <<arg, roster>>
    BY <1>1, <1>8, RosterSteps DEF Hold
  <2>3. CASE BringsRoster(t, c)
    <3>1. arg[t] = s /\ roster[t] = presence!Roster(s)
      BY <1>8, <2>3 DEF BringsRoster, BeforeRoster
    <3>2. roster'[t] = presence!Roster(s)' /\ arg'[t] = s
      BY <1>3, <1>8, <2>2, <3>1
    <3>3. pc'[t] \in {"join:locks", "join:roster"}
      BY <1>1, <2>1 DEF Goto
    <3>4. QED
      BY <3>2, <3>3 DEF BringsRoster
  <2>4. CASE ~BringsRoster(t, c)
    BY <1>2, <1>3, <1>4, <1>8, <2>4
  <2>5. QED
    BY <2>3, <2>4
<1>9. CASE pc[t] \in {"join:roster", "select:roster", "leave:roster"}
  <2>1. Owes(c, "roster")
    BY <1>2, <1>3, <1>9
  <2>2. PICK list : /\ SendRoster(groups[arg[t]], arg[t], list)
                    /\ list = IF pc[t] = "select:roster" THEN reply[t].roster ELSE roster[t]
    BY <1>1, <1>9, RosterSteps, SelectLeaveSteps
  <2>3. ~(arg[t] = s /\ list = presence!Roster(s))
    BY <2>1, <2>2, RosterSent
  <2>4. ~BringsRoster(t, c)
    BY <1>9, <2>2, <2>3 DEF BringsRoster, BeforeRoster
  <2>5. QED
    BY <1>3, <1>4, <1>9, <2>1, <2>4
<1>10. CASE pc[t] = "select"
  <2>1. PICK elements : presence!UpdateSelection(t[1], elements)
    BY <1>1, <1>10, SelectLeaveSteps
  <2>2. t = Call(t[1]) /\ pc'[t] = "select:session"
    BY <1>1, <1>10, CallThread, SelectLeaveSteps DEF LeaveSteps, Goto
  <2>3. session' = session
    BY <2>1 DEF presence!UpdateSelection, presence!Select
  <2>4. CASE session[t[1]] = s
    <3>1. session[t[1]] # None
      BY <1>1, <2>4, HubAssumption
    <3>2. presence!Reply(presence!Call(t[1]), [roster |-> presence!Roster(session[t[1]])'])
      BY <2>1, <3>1 DEF presence!UpdateSelection
    <3>3. [roster |-> presence!Roster(session[t[1]])'].roster = presence!Roster(s)'
      BY <2>3, <2>4 DEF presence!Roster
    <3>4. reply'[t].roster = presence!Roster(s)'
      BY <1>1, <2>2, <3>2, <3>3, Answering DEF Call
    <3>5. QED
      BY <2>2, <2>3, <2>4, <3>4 DEF BringsRoster
  <2>5. CASE session[t[1]] # s
    <3>1. \A d \in Connections : session[d] = s => selection'[d] = selection[d]
      BY <1>1, <2>1, <2>5 DEF presence!UpdateSelection, presence!Select
    <3>2. presence!Roster(s)' = presence!Roster(s)
      BY <2>3, <3>1 DEF presence!Roster
    <3>3. ~BringsRoster(t, c)
      BY <1>10 DEF BringsRoster, BeforeRoster
    <3>4. QED
      BY <1>2, <1>4, <1>10, <2>3, <3>2, <3>3
  <2>6. QED
    BY <2>4, <2>5
<1>11. CASE pc[t] = "select:session"
  <2>1. \/ /\ arg' = [arg EXCEPT ![t] = session[t[1]]] /\ Goto(t, "select:roster")
           /\ UNCHANGED reply
        \/ session[t[1]] = None
    BY <1>1, <1>11, SelectLeaveSteps
  <2>2. CASE BringsRoster(t, c)
    <3>1. session[t[1]] = s /\ reply[t].roster = presence!Roster(s) /\ s # None
      BY <1>1, <1>11, <2>2, HubAssumption DEF BringsRoster, BeforeRoster
    <3>2. arg'[t] = s /\ pc'[t] = "select:roster" /\ reply' = reply
      BY <1>1, <2>1, <3>1 DEF Goto, Shape
    <3>3. QED
      BY <1>3, <1>11, <3>1, <3>2 DEF BringsRoster
  <2>3. CASE ~BringsRoster(t, c)
    BY <1>2, <1>3, <1>4, <1>11, <2>3
  <2>4. QED
    BY <2>2, <2>3
<1>12. CASE pc[t] = "leave"
  <2>1. t = Disconnect(t[1])
    BY <1>1, <1>12, LeaveThread DEF LeaveSteps
  <2>2. ~BringsRoster(t, c)
    BY <1>12 DEF BringsRoster, BeforeRoster
  <2>3. presence!Leave(t[1])
    BY <1>1, <1>12, SelectLeaveSteps
  <2>4. CASE session[t[1]] = s
    <3>1. s # None
      BY <1>1, HubAssumption
    <3>2. PICK v : /\ presence!Reply(presence!Disconnect(t[1]), v)
                   /\ v.left = s /\ v.survivors = presence!Roster(s)'
      <4>1. PICK r \in Sessions :
              /\ r = session[t[1]]
              /\ presence!Reply(presence!Disconnect(t[1]),
                    [left |-> r, survivors |-> presence!Roster(r)',
                     freed |-> {e \in Elements : holder[r][e] = t[1]}])
        BY <2>3, <2>4, <3>1 DEF presence!Leave
      <4>2. r = s
        BY <2>4, <4>1
      <4>3. PICK v : v = [left |-> r, survivors |-> presence!Roster(r)',
                          freed |-> {e \in Elements : holder[r][e] = t[1]}]
        OBVIOUS
      <4>4. presence!Reply(presence!Disconnect(t[1]), v)
        BY <4>1, <4>3
      <4>5. v.left = s /\ v.survivors = presence!Roster(s)'
        BY <4>2, <4>3
      <4>6. QED
        BY <4>4, <4>5
    <3>3. reply'[t] = v
      BY <1>1, <2>1, <3>2, Answering DEF Disconnect
    <3>4. /\ arg' = [arg EXCEPT ![t] = v.left]
          /\ roster' = [roster EXCEPT ![t] = v.survivors]
          /\ Goto(t, "leave:roster")
      BY <1>1, <1>12, <3>1, <3>2, <3>3, SelectLeaveSteps
    <3>5. arg'[t] = s /\ roster'[t] = presence!Roster(s)' /\ pc'[t] = "leave:roster"
      BY <1>1, <3>2, <3>4 DEF Goto, Shape
    <3>6. QED
      BY <3>5 DEF BringsRoster
  <2>5. CASE session[t[1]] # s
    <3>0. None # s
      BY <1>1, HubAssumption
    <3>1. \/ /\ session' = [session EXCEPT ![t[1]] = None]
             /\ selection' = [selection EXCEPT ![t[1]] = {}]
          \/ UNCHANGED <<session, selection>>
      BY <2>3 DEF presence!Leave, presence!Drop, presence!registry
    <3>2. \A d \in Connections : session[d] = s <=> session'[d] = s
      BY <1>1, <2>5, <3>0, <3>1
    <3>3. \A d \in Connections : session[d] = s => selection'[d] = selection[d]
      BY <1>1, <2>5, <3>1
    <3>4. presence!Roster(s)' = presence!Roster(s)
      BY <3>2, <3>3 DEF presence!Roster
    <3>5. QED
      BY <1>2, <1>4, <1>12, <2>2, <3>2, <3>4
  <2>6. QED
    BY <2>4, <2>5
<1>13. CASE pc[t] \notin {"join", "join:snapshot", "join:frames", "join:presence",
                          "join:getlocks", "join:locks", "join:roster", "select",
                          "select:session", "select:roster", "leave", "leave:roster"}
  <2>1. ~BringsRoster(t, c)
    BY <1>13 DEF BringsRoster, BeforeRoster
  <2>2. QED
    BY <1>2, <1>3, <1>4, <1>13, <2>1
<1>14. QED
  BY <1>5, <1>6, <1>7, <1>8, <1>9, <1>10, <1>11, <1>12, <1>13

-----------------------------------------------------------------------------
(* What is owed is on its way: the locks                                   *)

\* The steps that carry locks, by name.
LEMMA LockSteps ==
  ASSUME NEW t \in Threads, GhostInv, Step(t)
  PROVE  /\ pc[t] = "join:getlocks" =>
              presence!GetLocks(t, arg[t], {t[1]}) /\ Goto(t, "join:locks") /\ Hold
         /\ pc[t] = "join:locks" =>
              \E s \in Sessions : s = arg[t] /\ SendLocks({t[1]}, s, reply[t].locks)
         /\ pc[t] = "claim" =>
              \E e \in Elements :
                /\ presence!ClaimElement(t[1], e)
                /\ \/ reply'[t].holder # None /\ Goto(t, "claim:session")
                   \/ reply'[t].holder = None
         /\ pc[t] = "release" =>
              \E e \in Elements :
                /\ presence!ReleaseElement(t[1], e)
                /\ \/ reply'[t].released /\ Goto(t, "release:session")
                   \/ ~reply'[t].released
         /\ pc[t] = "claim:session" =>
              \/ arg' = [arg EXCEPT ![t] = session[t[1]]] /\ Goto(t, "claim:getlocks")
              \/ session[t[1]] = None
         /\ pc[t] = "release:session" =>
              \/ arg' = [arg EXCEPT ![t] = session[t[1]]] /\ Goto(t, "release:getlocks")
              \/ session[t[1]] = None
         /\ pc[t] = "claim:getlocks" =>
              presence!GetLocks(t, arg[t], {t[1]}) /\ Goto(t, "claim:locks") /\ Hold
         /\ pc[t] = "release:getlocks" =>
              presence!GetLocks(t, arg[t], {t[1]}) /\ Goto(t, "release:locks") /\ Hold
         /\ pc[t] = "leave:getlocks" =>
              presence!GetLocks(t, arg[t], DOMAIN roster[t]) /\ Goto(t, "leave:locks") /\ Hold
         /\ pc[t] \in {"claim:locks", "release:locks", "leave:locks"} =>
              SendLocks(groups[arg[t]], arg[t], reply[t].locks)
<1> USE DEF Step, JoinSession, CatchUp, PushRdl, UpdateSelection, ClaimElement,
            ReleaseElement, OnDisconnected, SessionOf, ReadLocks, BroadcastLocks, At
<1>1. ASSUME pc[t] = "join:getlocks"
      PROVE  presence!GetLocks(t, arg[t], {t[1]}) /\ Goto(t, "join:locks") /\ Hold
  BY <1>1
<1>2. ASSUME pc[t] = "join:locks"
      PROVE  \E s \in Sessions : s = arg[t] /\ SendLocks({t[1]}, s, reply[t].locks)
  BY <1>2
<1>3. ASSUME pc[t] = "claim"
      PROVE  \E e \in Elements :
               /\ presence!ClaimElement(t[1], e)
               /\ \/ reply'[t].holder # None /\ Goto(t, "claim:session")
                  \/ reply'[t].holder = None
  BY <1>3
<1>4. ASSUME pc[t] = "release"
      PROVE  \E e \in Elements :
               /\ presence!ReleaseElement(t[1], e)
               /\ \/ reply'[t].released /\ Goto(t, "release:session")
                  \/ ~reply'[t].released
  BY <1>4
<1>5. ASSUME pc[t] = "claim:session"
      PROVE  \/ arg' = [arg EXCEPT ![t] = session[t[1]]] /\ Goto(t, "claim:getlocks")
             \/ session[t[1]] = None
  BY <1>5
<1>6. ASSUME pc[t] = "release:session"
      PROVE  \/ arg' = [arg EXCEPT ![t] = session[t[1]]] /\ Goto(t, "release:getlocks")
             \/ session[t[1]] = None
  BY <1>6
<1>7. ASSUME pc[t] = "claim:getlocks"
      PROVE  presence!GetLocks(t, arg[t], {t[1]}) /\ Goto(t, "claim:locks") /\ Hold
  BY <1>7
<1>8. ASSUME pc[t] = "release:getlocks"
      PROVE  presence!GetLocks(t, arg[t], {t[1]}) /\ Goto(t, "release:locks") /\ Hold
  BY <1>8
<1>9. ASSUME pc[t] = "leave:getlocks"
      PROVE  presence!GetLocks(t, arg[t], DOMAIN roster[t]) /\ Goto(t, "leave:locks") /\ Hold
  BY <1>9
<1>10. ASSUME pc[t] \in {"claim:locks", "release:locks", "leave:locks"}
       PROVE  SendLocks(groups[arg[t]], arg[t], reply[t].locks)
  BY <1>10
<1>11. QED
  BY <1>1, <1>2, <1>3, <1>4, <1>5, <1>6, <1>7, <1>8, <1>9, <1>10

\* A reader that is, or names, somebody in the session reads the list as it stands.
LEMMA FullRead ==
  ASSUME NEW t \in Threads, GhostInv, NEW s, NEW present,
         presence!GetLocks(t, s, present), \E c \in present : session[c] = s
  PROVE  reply'[t].locks = presence!LocksOf(s)
<1>1. reply' = [reply EXCEPT ![t] = [locks |-> presence!LocksOf(s)]]
  BY DEF presence!GetLocks, presence!Reply
<1>2. QED
  BY <1>1 DEF GhostInv, GhostTypes

\* What a claim does to the locks of any session.
LEMMA ClaimFacts ==
  ASSUME NEW t \in Threads, GhostInv, t = Call(t[1]), NEW e \in Elements,
         presence!ClaimElement(t[1], e), NEW s \in Sessions
  PROVE  /\ session' = session
         /\ \/ holder'[s] = holder[s]
            \/ /\ session[t[1]] = s /\ holder'[s][e] = t[1]
               /\ reply'[t].holder = t[1]
<1> DEFINE c == t[1]
<1>1. /\ c \in Connections /\ session[c] \in Sessions \cup {None} /\ DOMAIN reply = Threads
      /\ holder \in [Sessions -> [Elements -> Connections \cup {None}]]
  BY ThreadCases DEF GhostInv, GhostTypes
<1>2. CASE ~presence!Free(c, e)
  BY <1>2 DEF presence!ClaimElement, presence!Claim
<1>3. CASE presence!Free(c, e)
  <2>1. /\ session[c] \in Sessions /\ session' = session /\ session[c] # None
        /\ holder' = [holder EXCEPT ![session[c]][e] = c]
    BY <1>1, <1>3 DEF presence!ClaimElement, presence!Claim, presence!Free
  <2>2. holder'[session[c]][e] = c
    BY <1>1, <2>1
  <2>3. reply' = [reply EXCEPT ![t] = [holder |-> holder'[session[c]][e]]]
    BY <2>1 DEF presence!ClaimElement, presence!Reply, Call
  <2>4. reply'[t].holder = c
    BY <1>1, <2>2, <2>3
  <2>5. CASE session[c] = s
    BY <2>1, <2>2, <2>4, <2>5
  <2>6. CASE session[c] # s
    BY <1>1, <2>1, <2>6
  <2>7. QED
    BY <2>5, <2>6
<1>4. QED
  BY <1>2, <1>3

\* What a release does to the locks of any session.
LEMMA ReleaseFacts ==
  ASSUME NEW t \in Threads, GhostInv, t = Call(t[1]), NEW e \in Elements,
         presence!ReleaseElement(t[1], e), NEW s \in Sessions
  PROVE  /\ session' = session
         /\ \A x \in Elements : holder'[s][x] = holder[s][x] \/ (holder[s][x] = t[1] /\ holder'[s][x] = None)
         /\ \/ holder'[s] = holder[s]
            \/ session[t[1]] = s /\ reply'[t].released
<1> DEFINE c == t[1]
<1>1. /\ c \in Connections /\ session[c] \in Sessions \cup {None} /\ DOMAIN reply = Threads
      /\ holder \in [Sessions -> [Elements -> Connections \cup {None}]]
  BY ThreadCases DEF GhostInv, GhostTypes
<1>2. CASE ~presence!Holds(c, e)
  BY <1>2 DEF presence!ReleaseElement, presence!Release
<1>3. CASE presence!Holds(c, e)
  <2>1. /\ session[c] \in Sessions /\ session' = session /\ holder[session[c]][e] = c
        /\ holder' = [holder EXCEPT ![session[c]][e] = None]
    BY <1>1, <1>3 DEF presence!ReleaseElement, presence!Release, presence!Holds
  <2>2. PICK b : b = presence!Holds(c, e) /\ reply' = [reply EXCEPT ![t] = [released |-> b]]
    BY DEF presence!ReleaseElement, presence!Reply, Call
  <2>3. b
    BY <1>3, <2>2
  <2>4. reply'[t].released
    BY <1>1, <2>2, <2>3
  <2>5. CASE session[c] = s
    BY <1>1, <2>1, <2>4, <2>5
  <2>6. CASE session[c] # s
    BY <1>1, <2>1, <2>6
  <2>7. QED
    BY <2>5, <2>6
<1>4. QED
  BY <1>2, <1>3

\* Thread t has every lock of client c's session in hand, or will read them.
BringsGrants(t, c) ==
  LET s == Watches[c] IN
  \/ t = Call(c) /\ pc[t] \in BeforeLocks
  \/ t = Call(c) /\ pc[t] = "join:locks" /\ presence!LocksOf(s) \subseteq reply[t].locks
  \/ /\ pc[t] \in {"claim:session", "claim:getlocks"} /\ session[t[1]] = s
     /\ pc[t] = "claim:getlocks" => arg[t] = s
     /\ \E e \in Elements : holder[s][e] = t[1]
  \/ /\ pc[t] \in {"claim:locks", "release:locks", "leave:locks"} /\ arg[t] = s
     /\ presence!LocksOf(s) \subseteq reply[t].locks
  \/ /\ pc[t] \in {"leave:roster", "leave:getlocks"} /\ arg[t] = s
     /\ pc[t] = "leave:roster" => reply[t].freed # {}
     /\ \A e \in Elements : holder[s][e] # None => holder[s][e] \in DOMAIN roster[t]

\* Locks to come are in the hands of a thread.
LEMMA GrantsCarried ==
  ASSUME NEW c \in Connections
  PROVE  GrantsToCome(c) <=> \E t \in Threads : BringsGrants(t, c)
<1>1. Call(c) \in Threads
  BY DEF Threads, Call, presence!Threads, presence!Call
<1>2. QED
  BY <1>1 DEF GrantsToCome, BringsGrants, BeforeLocks

\* Locks that are only freed leave fewer locks.
LEMMA FewerLocks ==
  ASSUME GhostInv, NEW s \in Sessions,
         \A e \in Elements : holder'[s][e] = holder[s][e] \/ holder'[s][e] = None
  PROVE  presence!LocksOf(s)' \subseteq presence!LocksOf(s)
BY HubAssumption DEF presence!LocksOf

\* A step of a thread that does not have them, and grants none, keeps the locks coming
\* with the thread that has them.
LEMMA GrantsKept ==
  ASSUME NEW t \in Threads, OwedInv, Own(t), NEW c \in Connections,
         \A e \in Elements : \/ holder'[Watches[c]][e] = holder[Watches[c]][e]
                             \/ /\ holder'[Watches[c]][e] = None
                                /\ holder[Watches[c]][e] = t[1],
         NEW u \in Threads, BringsGrants(u, c), u # t,
         session[u[1]] = Watches[c] => session'[u[1]] = Watches[c],
         pc[u] \in {"claim:session", "claim:getlocks"} =>
           \/ u[1] # t[1]
           \/ holder'[Watches[c]] = holder[Watches[c]]
  PROVE  BringsGrants(u, c)'
<1> DEFINE s == Watches[c]
<1>1. GhostInv /\ s \in Sessions
  BY HubAssumption DEF OwedInv
<1>2. presence!LocksOf(s)' \subseteq presence!LocksOf(s)
  BY <1>1, FewerLocks
<1>3. /\ pc'[u] = pc[u] /\ arg'[u] = arg[u] /\ roster'[u] = roster[u]
      /\ reply'[u] = reply[u]
  BY DEF Own
<1>4. CASE u = Call(c) /\ pc[u] \in BeforeLocks
  BY <1>3, <1>4 DEF BringsGrants
<1>5. CASE u = Call(c) /\ pc[u] = "join:locks" /\ presence!LocksOf(s) \subseteq reply[u].locks
  <2>1. presence!LocksOf(s)' \subseteq reply'[u].locks
    BY <1>2, <1>3, <1>5
  <2>2. QED
    BY <1>3, <1>5, <2>1 DEF BringsGrants
<1>6. CASE /\ pc[u] \in {"claim:session", "claim:getlocks"} /\ session[u[1]] = s
           /\ pc[u] = "claim:getlocks" => arg[u] = s
           /\ \E e \in Elements : holder[s][e] = u[1]
  <2>1. PICK e \in Elements : holder[s][e] = u[1]
    BY <1>6
  <2>2. holder'[s][e] = u[1]
    BY <1>6, <2>1
  <2>3. QED
    BY <1>3, <1>6, <2>2 DEF BringsGrants
<1>7. CASE /\ pc[u] \in {"claim:locks", "release:locks", "leave:locks"} /\ arg[u] = s
           /\ presence!LocksOf(s) \subseteq reply[u].locks
  <2>1. presence!LocksOf(s)' \subseteq reply'[u].locks
    BY <1>2, <1>3, <1>7
  <2>2. QED
    BY <1>3, <1>7, <2>1 DEF BringsGrants
<1>8. CASE /\ pc[u] \in {"leave:roster", "leave:getlocks"} /\ arg[u] = s
           /\ pc[u] = "leave:roster" => reply[u].freed # {}
           /\ \A e \in Elements : holder[s][e] # None => holder[s][e] \in DOMAIN roster[u]
  <2>1. \A e \in Elements : holder'[s][e] # None => holder'[s][e] \in DOMAIN roster'[u]
    BY <1>3, <1>8
  <2>2. QED
    BY <1>3, <1>8, <2>1 DEF BringsGrants
<1>9. QED
  BY <1>4, <1>5, <1>6, <1>7, <1>8 DEF BringsGrants

\* A send of all locks leaves nobody who misses one.
LEMMA GrantsSent ==
  ASSUME NEW t \in Threads, OwedInv, NEW c \in Connections, NEW to,
         NEW list, SendLocks(to, Watches[c], list), c \in to,
         Owes(c, "granted"), Owes(c, "granted")'
  PROVE  ~(presence!LocksOf(Watches[c]) \subseteq list)
<1>1. SUFFICES ASSUME presence!LocksOf(Watches[c]) \subseteq list PROVE FALSE
  OBVIOUS
<1>2. PICK settled :
        /\ settled = {k \in {"locks", "granted"} :
                        IF k = "locks" THEN list = presence!LocksOf(Watches[c])
                        ELSE presence!LocksOf(Watches[c]) \subseteq list}
        /\ Send(to, "locks", list, settled)
  BY DEF SendLocks
<1>3. "granted" \in settled
  BY <1>1, <1>2
<1>4. missed'[c] = missed[c] \ settled
  BY <1>2, SendOwes DEF Owes, OwedInv
<1>5. QED
  BY <1>3, <1>4 DEF Owes

\* A connection that leaves with a lock takes over from the claim it had in flight.
LEMMA GrantsLeave ==
  ASSUME NEW t \in Threads, OwedInv, Step(t), NEW c \in Connections, pc[t] = "leave",
         GrantsToCome(c)
  PROVE  \E u \in Threads : BringsGrants(u, c)'
<1> DEFINE s == Watches[c]
           d == t[1]
<1>1. /\ Own(t) /\ GhostInv /\ Shape /\ s \in Sessions /\ d \in Connections
      /\ DOMAIN pc = Threads /\ DOMAIN reply = Threads /\ t = Disconnect(d)
      /\ session \in [Connections -> Sessions \cup {None}]
      /\ holder \in [Sessions -> [Elements -> Connections \cup {None}]]
      /\ HoldersParticipate /\ presence!Leave(d) /\ None \notin Sessions \cup Connections
  BY StepOwn, HubAssumption, ThreadCases, LeaveThread, SelectLeaveSteps
     DEF OwnStep, OwedInv, GhostInv, GhostTypes, LeaveSteps
<1>2. PICK u \in Threads : BringsGrants(u, c)
  BY GrantsCarried
<1>3. u # t /\ u[1] \in Connections
  BY <1>2, ThreadCases DEF BringsGrants, BeforeLocks
<1>4. /\ \/ session' = [session EXCEPT ![d] = None]
         \/ session' = session
      /\ \A e \in Elements : \/ holder'[s][e] = holder[s][e]
                             \/ holder'[s][e] = None /\ holder[s][e] = d
  <2>1. CASE session[d] = None
    BY <1>1, <2>1 DEF presence!Leave, presence!registry
  <2>2. CASE presence!Drop(d)
    <3>1. ASSUME NEW e \in Elements
          PROVE  holder'[s][e] = holder[s][e] \/ (holder'[s][e] = None /\ holder[s][e] = d)
      BY <1>1, <2>2, <3>1 DEF presence!Drop
    <3>2. QED
      BY <2>2, <3>1 DEF presence!Drop
  <2>3. QED
    BY <1>1, <2>1, <2>2 DEF presence!Leave
<1>5. CASE u[1] # d
  <2>1. session'[u[1]] = session[u[1]]
    BY <1>1, <1>3, <1>4, <1>5
  <2>2. QED
    BY <1>1, <1>2, <1>3, <1>4, <1>5, <2>1, GrantsKept
<1>6. CASE u[1] = d /\ pc[u] \notin {"claim:session", "claim:getlocks"}
  <2>1. presence!LocksOf(s)' \subseteq presence!LocksOf(s)
    BY <1>1, <1>4, FewerLocks
  <2>2. /\ pc'[u] = pc[u] /\ arg'[u] = arg[u] /\ roster'[u] = roster[u]
        /\ reply'[u] = reply[u]
    BY <1>1, <1>3 DEF Own
  <2>3. CASE u = Call(c) /\ pc[u] \in BeforeLocks
    BY <2>2, <2>3 DEF BringsGrants
  <2>4. CASE \/ u = Call(c) /\ pc[u] = "join:locks"
             \/ pc[u] \in {"claim:locks", "release:locks", "leave:locks"} /\ arg[u] = s
    <3>1. presence!LocksOf(s) \subseteq reply[u].locks
      BY <1>2, <1>6, <2>4 DEF BringsGrants, BeforeLocks
    <3>2. presence!LocksOf(s)' \subseteq reply'[u].locks
      BY <2>1, <2>2, <3>1
    <3>3. QED
      BY <2>2, <2>4, <3>2 DEF BringsGrants
  <2>5. CASE pc[u] \in {"leave:roster", "leave:getlocks"}
    <3>1. u = Disconnect(d)
      BY <1>1, <1>6, <2>5, LeaveThread DEF LeaveSteps
    <3>2. QED
      BY <1>1, <1>3, <3>1
  <2>6. QED
    BY <1>2, <1>6, <2>3, <2>4, <2>5 DEF BringsGrants
<1>7. CASE u[1] = d /\ pc[u] \in {"claim:session", "claim:getlocks"}
  <2>1. session[d] = s /\ \E e \in Elements : holder[s][e] = d
    BY <1>2, <1>7 DEF BringsGrants, BeforeLocks
  <2>2. PICK v : /\ presence!Reply(t, v) /\ v.left = s /\ v.survivors = presence!Roster(s)'
                 /\ v.freed # {}
    <3>1. PICK r \in Sessions :
            /\ r = session[d]
            /\ presence!Reply(presence!Disconnect(d),
                  [left |-> r, survivors |-> presence!Roster(r)',
                   freed |-> {e \in Elements : holder[r][e] = d}])
      BY <1>1, <2>1 DEF presence!Leave
    <3>2. r = s
      BY <2>1, <3>1
    <3>3. PICK v : v = [left |-> r, survivors |-> presence!Roster(r)',
                        freed |-> {e \in Elements : holder[r][e] = d}]
      OBVIOUS
    <3>4. presence!Reply(t, v)
      BY <1>1, <3>1, <3>3 DEF Disconnect
    <3>5. v.left = s /\ v.survivors = presence!Roster(s)' /\ v.freed # {}
      BY <2>1, <3>2, <3>3
    <3>6. QED
      BY <3>4, <3>5
  <2>3. reply'[t] = v
    BY <1>1, <2>2, Answering
  <2>4. /\ arg' = [arg EXCEPT ![t] = v.left]
        /\ roster' = [roster EXCEPT ![t] = v.survivors]
        /\ Goto(t, "leave:roster")
    BY <1>1, <2>2, <2>3, SelectLeaveSteps
  <2>5. arg'[t] = s /\ roster'[t] = presence!Roster(s)' /\ pc'[t] = "leave:roster"
    BY <1>1, <2>2, <2>4 DEF Goto, Shape
  <2>6. \A e \in Elements : holder'[s][e] # None => holder'[s][e] \in DOMAIN roster'[t]
    <3> SUFFICES ASSUME NEW e \in Elements, holder'[s][e] # None
                 PROVE  holder'[s][e] \in DOMAIN roster'[t]
      OBVIOUS
    <3>1. /\ session' = [session EXCEPT ![d] = None]
          /\ holder' = [r \in Sessions |->
                          [x \in Elements |->
                             IF r = session[d] /\ holder[r][x] = d THEN None
                             ELSE holder[r][x]]]
      BY <1>1, <2>1 DEF presence!Leave, presence!Drop
    <3>2. holder'[s][e] = holder[s][e] /\ holder[s][e] # d /\ holder[s][e] \in Connections
      BY <1>1, <2>1, <3>1
    <3>3. session[holder[s][e]] = s
      BY <1>1, <3>2 DEF HoldersParticipate
    <3>4. session'[holder'[s][e]] = s
      BY <1>1, <3>1, <3>2, <3>3
    <3>5. holder'[s][e] \in DOMAIN presence!Roster(s)'
      BY <3>2, <3>4 DEF presence!Roster
    <3>6. QED
      BY <2>5, <3>5
  <2>7. QED
    BY <2>2, <2>3, <2>5, <2>6 DEF BringsGrants
<1>8. QED
  BY <1>5, <1>6, <1>7

\* Whoever misses a lock has it coming, after every step of a handler.
LEMMA GrantsStep ==
  ASSUME NEW t \in Threads, OwedInv, Step(t), NEW c \in Connections, Owes(c, "granted")'
  PROVE  GrantsToCome(c)'
<1> DEFINE s == Watches[c]
<1>0. SUFFICES \E u \in Threads : BringsGrants(u, c)'
  <2>1. Call(c) \in Threads
    BY DEF Threads, Call, presence!Threads, presence!Call
  <2>2. QED
    BY <2>1 DEF GrantsToCome, BringsGrants, BeforeLocks
<1>1. /\ Own(t) /\ GhostInv /\ Shape /\ JoinsWatch
      /\ (Owes(c, "granted") => GrantsToCome(c)) /\ (Alive(c)' <=> Alive(c))
      /\ s \in Sessions /\ DOMAIN pc = Threads /\ DOMAIN reply = Threads
      /\ session \in [Connections -> Sessions \cup {None}]
      /\ None \notin Sessions \cup Connections
      /\ t[1] \in Connections /\ (t = Call(c) => t[1] = c)
  BY StepOwn, StepAlive, HubAssumption, ThreadCases
     DEF OwnStep, OwedInv, GrantsOwed, GhostInv, GhostTypes
<1>2. ASSUME pc[t] # "join",
             \A e \in Elements : holder'[s][e] = holder[s][e] \/ holder'[s][e] = None
      PROVE  Owes(c, "granted")
  <2>1. "granted" \notin Changed(s)
    BY <1>1, <1>2, ChangedKinds, FewerLocks
  <2>2. QED
    BY <1>1, <1>2, <2>1, StepOwes DEF Kinds
\* A thread that does not have the locks, and neither frees nor grants any.
<1>3. ASSUME pc[t] # "leave", holder'[s] = holder[s], Owes(c, "granted"), ~BringsGrants(t, c)
      PROVE  \E u \in Threads : BringsGrants(u, c)'
  <2>1. PICK u \in Threads : BringsGrants(u, c)
    BY <1>1, <1>3, GrantsCarried
  <2>2. u # t /\ u[1] \in Connections
    BY <1>3, <2>1, ThreadCases
  <2>3. session[u[1]] = s => session'[u[1]] = s
    <3>1. CASE pc[t] = "join:presence"
      <4>1. PICK r \in Sessions : presence!Join(t[1], r)
        BY <1>1, <3>1, RosterSteps
      <4>2. session[t[1]] \in {r, None} /\ session' = [session EXCEPT ![t[1]] = r]
        BY <4>1 DEF presence!Join, presence!Enrol
      <4>3. QED
        BY <1>1, <2>2, <4>2
    <3>2. CASE pc[t] = "select"
      <4>1. \E elements : presence!UpdateSelection(t[1], elements)
        BY <1>1, <3>2, SelectLeaveSteps
      <4>2. session' = session
        BY <4>1 DEF presence!UpdateSelection, presence!Select
      <4>3. QED
        BY <4>2
    <3>3. CASE pc[t] \notin {"join:presence", "select", "leave"}
      BY <3>3, StepEffects DEF Effects
    <3>4. QED
      BY <1>3, <3>1, <3>2, <3>3
  <2>4. QED
    BY <1>1, <1>3, <2>1, <2>2, <2>3, GrantsKept
<1>4. ASSUME pc[t] \notin {"claim", "release", "leave"} PROVE holder' = holder
  BY <1>4, StepEffects DEF Effects
\* The same for any step that touches no lock.
<1>5. ASSUME pc[t] \notin {"join", "claim", "release", "leave"}, ~BringsGrants(t, c)
      PROVE  \E u \in Threads : BringsGrants(u, c)'
  BY <1>2, <1>3, <1>4, <1>5
<1>6. CASE pc[t] = "join"
  <2>1. PICK r \in Sessions : AddToGroup(t, r) /\ Goto(t, "join:snapshot")
    BY <1>1, <1>6, FramesSteps
  <2>2. CASE t = Call(c)
    BY <1>1, <2>1, <2>2 DEF Goto, BringsGrants, BeforeLocks
  <2>3. CASE t # Call(c)
    <3>1. t[1] # c
      BY <1>1, <1>6, <2>3, CallThread DEF LeaveSteps
    <3>2. Owes(c, "granted")
      BY <1>1, <2>1, <3>1 DEF AddToGroup, Owes, Shape
    <3>3. ~BringsGrants(t, c)
      BY <1>6 DEF BringsGrants, BeforeLocks
    <3>4. QED
      BY <1>3, <1>4, <1>6, <3>2, <3>3
  <2>4. QED
    BY <2>2, <2>3
<1>7. CASE pc[t] \in {"join:snapshot", "join:frames", "join:presence"}
  <2>1. \E step \in BeforeLocks : Goto(t, step)
    BY <1>1, <1>7, RosterSteps DEF BeforeRoster, BeforeLocks
  <2>2. CASE t = Call(c)
    BY <1>1, <2>1, <2>2 DEF Goto, BringsGrants
  <2>3. CASE t # Call(c)
    BY <1>5, <1>7, <2>3 DEF BringsGrants
  <2>4. QED
    BY <2>2, <2>3
<1>8. CASE pc[t] = "join:getlocks"
  <2>1. CASE t = Call(c)
    <3>1. arg[t] = s /\ session[c] = s /\ t[1] = c
      BY <1>1, <1>8, <2>1 DEF JoinsWatch, JoinSteps, Owes
    <3>2. presence!GetLocks(t, s, {c}) /\ Goto(t, "join:locks")
      BY <1>1, <1>8, <3>1, LockSteps
    <3>3. reply'[t].locks = presence!LocksOf(s)
      BY <1>1, <3>1, <3>2, FullRead
    <3>4. presence!LocksOf(s)' = presence!LocksOf(s)
      BY <1>4, <1>8 DEF presence!LocksOf
    <3>5. QED
      BY <1>1, <2>1, <3>2, <3>3, <3>4 DEF Goto, BringsGrants
  <2>2. CASE t # Call(c)
    BY <1>5, <1>8, <2>2 DEF BringsGrants
  <2>3. QED
    BY <2>1, <2>2
<1>9. CASE pc[t] = "join:locks"
  <2>1. ~BringsGrants(t, c)
    <3>1. SUFFICES ASSUME t = Call(c), presence!LocksOf(s) \subseteq reply[t].locks PROVE FALSE
      BY <1>9 DEF BringsGrants, BeforeLocks
    <3>2. arg[t] = s
      BY <1>1, <1>9, <3>1 DEF JoinsWatch, JoinSteps
    <3>3. SendLocks({c}, s, reply[t].locks)
      BY <1>1, <1>9, <3>1, <3>2, LockSteps
    <3>4. Owes(c, "granted")
      BY <1>2, <1>4, <1>9
    <3>5. QED
      BY <3>1, <3>3, <3>4, GrantsSent
  <2>2. QED
    BY <1>5, <1>9, <2>1
<1>10. CASE pc[t] = "claim"
  <2>1. PICK e \in Elements :
          /\ presence!ClaimElement(t[1], e)
          /\ \/ reply'[t].holder # None /\ Goto(t, "claim:session")
             \/ reply'[t].holder = None
    BY <1>1, <1>10, LockSteps
  <2>2. t = Call(t[1])
    BY <1>1, <1>10, CallThread DEF LeaveSteps
  <2>3. session' = session
    BY <1>1, <2>1, <2>2, ClaimFacts
  <2>4. CASE holder'[s] = holder[s]
    <3>1. ~BringsGrants(t, c)
      BY <1>10 DEF BringsGrants, BeforeLocks
    <3>2. QED
      BY <1>2, <1>3, <1>10, <2>4, <3>1
  <2>5. CASE session[t[1]] = s /\ holder'[s][e] = t[1] /\ reply'[t].holder = t[1]
    <3>1. pc'[t] = "claim:session"
      BY <1>1, <2>1, <2>5 DEF Goto
    <3>2. session'[t[1]] = s
      BY <2>3, <2>5
    <3>3. QED
      BY <2>5, <3>1, <3>2 DEF BringsGrants
  <2>6. QED
    BY <1>1, <2>1, <2>2, <2>4, <2>5, ClaimFacts
<1>11. CASE pc[t] \in {"claim:session"}
  <2>1. CASE BringsGrants(t, c)
    <3>1. session[t[1]] = s /\ \E e \in Elements : holder[s][e] = t[1]
      BY <1>11, <2>1 DEF BringsGrants, BeforeLocks
    <3>2. arg' = [arg EXCEPT ![t] = session[t[1]]] /\ Goto(t, "claim:getlocks")
      BY <1>1, <1>11, <3>1, LockSteps
    <3>3. arg'[t] = s /\ pc'[t] = "claim:getlocks"
      BY <1>1, <3>1, <3>2 DEF Goto, Shape
    <3>4. session' = session /\ holder' = holder
      BY <1>11, StepEffects DEF Effects
    <3>5. QED
      BY <3>1, <3>3, <3>4 DEF BringsGrants
  <2>2. QED
    BY <1>5, <1>11, <2>1
<1>12. CASE pc[t] = "claim:getlocks"
  <2>1. CASE BringsGrants(t, c)
    <3>1. session[t[1]] = s /\ arg[t] = s
      BY <1>12, <2>1 DEF BringsGrants, BeforeLocks
    <3>2. presence!GetLocks(t, s, {t[1]}) /\ Goto(t, "claim:locks") /\ Hold
      BY <1>1, <1>12, <3>1, LockSteps
    <3>3. reply'[t].locks = presence!LocksOf(s)
      BY <1>1, <3>1, <3>2, FullRead
    <3>4. presence!LocksOf(s)' = presence!LocksOf(s)
      BY <1>4, <1>12 DEF presence!LocksOf
    <3>5. pc'[t] = "claim:locks" /\ arg'[t] = s
      BY <1>1, <3>1, <3>2 DEF Goto, Hold
    <3>6. QED
      BY <3>3, <3>4, <3>5 DEF BringsGrants
  <2>2. QED
    BY <1>5, <1>12, <2>1
<1>13. CASE pc[t] \in {"claim:locks", "release:locks", "leave:locks"}
  <2>1. ~BringsGrants(t, c)
    <3>1. SUFFICES ASSUME arg[t] = s, presence!LocksOf(s) \subseteq reply[t].locks PROVE FALSE
      BY <1>13 DEF BringsGrants, BeforeLocks
    <3>2. SendLocks(groups[s], s, reply[t].locks)
      BY <1>1, <1>13, <3>1, LockSteps
    <3>3. Owes(c, "granted")
      BY <1>2, <1>4, <1>13
    <3>4. c \in groups[s]
      BY <3>3 DEF Owes
    <3>5. QED
      BY <3>1, <3>2, <3>3, <3>4, GrantsSent
  <2>2. QED
    BY <1>5, <1>13, <2>1
<1>14. CASE pc[t] = "release"
  <2>1. PICK e \in Elements : presence!ReleaseElement(t[1], e)
    BY <1>1, <1>14, LockSteps
  <2>2. t = Call(t[1])
    BY <1>1, <1>14, CallThread DEF LeaveSteps
  <2>3. /\ session' = session
        /\ \A x \in Elements : \/ holder'[s][x] = holder[s][x]
                               \/ holder'[s][x] = None /\ holder[s][x] = t[1]
    BY <1>1, <2>1, <2>2, ReleaseFacts
  <2>4. Owes(c, "granted")
    BY <1>2, <1>14, <2>3
  <2>5. PICK u \in Threads : BringsGrants(u, c)
    BY <1>1, <2>4, GrantsCarried
  <2>6. u # t
    BY <1>14, <2>5 DEF BringsGrants, BeforeLocks
  <2>7. pc[u] \in {"claim:session", "claim:getlocks"} => u[1] # t[1]
    BY <1>1, <2>2, <2>6, CallThread DEF LeaveSteps
  <2>8. QED
    BY <1>1, <2>3, <2>5, <2>6, <2>7, GrantsKept
<1>15. CASE pc[t] = "leave"
  <2>1. presence!Leave(t[1])
    BY <1>1, <1>15, SelectLeaveSteps
  <2>2. \A e \in Elements : holder'[s][e] = holder[s][e] \/ holder'[s][e] = None
    <3>1. CASE presence!Drop(t[1])
      BY <1>1, <3>1 DEF presence!Drop
    <3>2. CASE UNCHANGED presence!registry
      BY <3>2 DEF presence!registry
    <3>3. QED
      BY <2>1, <3>1, <3>2 DEF presence!Leave
  <2>3. Owes(c, "granted")
    BY <1>2, <1>15, <2>2
  <2>4. QED
    BY <1>1, <1>15, <2>3, GrantsLeave
<1>16. CASE pc[t] = "leave:roster"
  <2>1. CASE BringsGrants(t, c)
    <3>1. /\ arg[t] = s /\ reply[t].freed # {}
          /\ \A e \in Elements : holder[s][e] # None => holder[s][e] \in DOMAIN roster[t]
      BY <1>16, <2>1 DEF BringsGrants, BeforeLocks
    <3>2. Continue(t, "leave:getlocks")
      BY <1>1, <1>16, <3>1, SelectLeaveSteps
    <3>3. pc'[t] = "leave:getlocks" /\ arg' = arg /\ roster' = roster
      BY <1>1, <3>2 DEF Continue, Goto, Hold
    <3>4. holder' = holder
      BY <1>4, <1>16
    <3>5. QED
      BY <3>1, <3>3, <3>4 DEF BringsGrants
  <2>2. QED
    BY <1>5, <1>16, <2>1
<1>17. CASE pc[t] = "leave:getlocks"
  <2>1. CASE BringsGrants(t, c)
    <3>1. /\ arg[t] = s
          /\ \A e \in Elements : holder[s][e] # None => holder[s][e] \in DOMAIN roster[t]
      BY <1>17, <2>1 DEF BringsGrants, BeforeLocks
    <3>2. presence!GetLocks(t, s, DOMAIN roster[t]) /\ Goto(t, "leave:locks") /\ Hold
      BY <1>1, <1>17, <3>1, LockSteps
    <3>3. presence!LocksOf(s)' = presence!LocksOf(s)
      BY <1>4, <1>17 DEF presence!LocksOf
    <3>4. presence!LocksOf(s) \subseteq reply'[t].locks
      <4>1. CASE presence!LocksOf(s) = {}
        BY <4>1
      <4>2. CASE presence!LocksOf(s) # {}
        <5>1. PICK e \in Elements : holder[s][e] \in Connections
          BY <4>2 DEF presence!LocksOf
        <5>2. session[holder[s][e]] = s /\ holder[s][e] \in DOMAIN roster[t]
          BY <1>1, <3>1, <5>1 DEF GhostInv, HoldersParticipate
        <5>3. reply'[t].locks = presence!LocksOf(s)
          BY <1>1, <3>2, <5>2, FullRead
        <5>4. QED
          BY <5>3
      <4>3. QED
        BY <4>1, <4>2
    <3>5. pc'[t] = "leave:locks" /\ arg'[t] = s
      BY <1>1, <3>1, <3>2 DEF Goto, Hold
    <3>6. QED
      BY <3>3, <3>4, <3>5 DEF BringsGrants
  <2>2. QED
    BY <1>5, <1>17, <2>1
<1>18. CASE pc[t] \notin {"join", "join:snapshot", "join:frames", "join:presence",
                          "join:getlocks", "join:locks", "claim", "claim:session",
                          "claim:getlocks", "claim:locks", "release", "release:locks",
                          "leave", "leave:roster", "leave:getlocks", "leave:locks"}
  <2>1. ~BringsGrants(t, c)
    BY <1>18 DEF BringsGrants, BeforeLocks
  <2>2. QED
    BY <1>5, <1>18, <2>1
<1>19. QED
  BY <1>6, <1>7, <1>8, <1>9, <1>10, <1>11, <1>12, <1>13, <1>14, <1>15, <1>16, <1>17, <1>18

\* Thread t has the locks of client c's session in hand as they stand, or will read them.
BringsLocks(t, c) ==
  LET s == Watches[c] IN
  \/ t = Call(c) /\ pc[t] \in BeforeLocks
  \/ t = Call(c) /\ pc[t] = "join:locks" /\ reply[t].locks = presence!LocksOf(s)
  \/ /\ pc[t] \in {"claim:session", "claim:getlocks", "release:session", "release:getlocks"}
     /\ session[t[1]] = s
     /\ pc[t] \in {"claim:getlocks", "release:getlocks"} => arg[t] = s
  \/ /\ pc[t] \in {"claim:locks", "release:locks"} /\ arg[t] = s
     /\ reply[t].locks = presence!LocksOf(s)

\* A list to come is in the hands of a thread.
LEMMA LocksCarried ==
  ASSUME NEW c \in Connections
  PROVE  LocksToCome(c) <=> \E t \in Threads : BringsLocks(t, c)
<1>1. Call(c) \in Threads
  BY DEF Threads, Call, presence!Threads, presence!Call
<1>2. QED
  BY <1>1 DEF LocksToCome, BringsLocks, BeforeLocks

\* A step of a thread that does not have the list, and does not change it, keeps it
\* coming with the thread that has it.
LEMMA LocksKept ==
  ASSUME NEW t \in Threads, OwedInv, Own(t), NEW c \in Connections,
         presence!LocksOf(Watches[c])' = presence!LocksOf(Watches[c]),
         NEW u \in Threads, BringsLocks(u, c), u # t,
         session[u[1]] = Watches[c] => session'[u[1]] = Watches[c]
  PROVE  BringsLocks(u, c)'
<1>1. pc'[u] = pc[u] /\ arg'[u] = arg[u] /\ reply'[u] = reply[u]
  BY DEF Own
<1>2. QED
  BY <1>1 DEF BringsLocks

\* A send of the list leaves nobody who misses it.
LEMMA LocksSent ==
  ASSUME NEW t \in Threads, OwedInv, NEW c \in Connections, NEW to,
         NEW list, SendLocks(to, Watches[c], list), c \in to,
         Owes(c, "locks"), Owes(c, "locks")'
  PROVE  list # presence!LocksOf(Watches[c])
<1>1. SUFFICES ASSUME list = presence!LocksOf(Watches[c]) PROVE FALSE
  OBVIOUS
<1>2. PICK settled :
        /\ settled = {k \in {"locks", "granted"} :
                        IF k = "locks" THEN list = presence!LocksOf(Watches[c])
                        ELSE presence!LocksOf(Watches[c]) \subseteq list}
        /\ Send(to, "locks", list, settled)
  BY DEF SendLocks
<1>3. "locks" \in settled
  BY <1>1, <1>2
<1>4. missed'[c] = missed[c] \ settled
  BY <1>2, SendOwes DEF Owes, OwedInv
<1>5. QED
  BY <1>3, <1>4 DEF Owes

\* While every connection lives, whoever misses the list has it coming.
LEMMA LocksStep ==
  ASSUME NEW t \in Threads, OwedInv, Step(t), \A d \in Connections : Alive(d),
         NEW c \in Connections, Owes(c, "locks")'
  PROVE  LocksToCome(c)'
<1> DEFINE s == Watches[c]
<1>0. SUFFICES \E u \in Threads : BringsLocks(u, c)'
  <2>1. Call(c) \in Threads
    BY DEF Threads, Call, presence!Threads, presence!Call
  <2>2. QED
    BY <2>1 DEF LocksToCome, BringsLocks, BeforeLocks
<1>1. /\ Own(t) /\ GhostInv /\ Shape /\ JoinsWatch
      /\ (Owes(c, "locks") => LocksToCome(c)) /\ (Alive(c)' <=> Alive(c))
      /\ s \in Sessions /\ DOMAIN pc = Threads /\ DOMAIN reply = Threads
      /\ session \in [Connections -> Sessions \cup {None}]
      /\ None \notin Sessions \cup Connections
      /\ t[1] \in Connections /\ (t = Call(c) => t[1] = c)
  BY StepOwn, StepAlive, HubAssumption, ThreadCases
     DEF OwnStep, OwedInv, LocksOwed, GhostInv, GhostTypes
<1>2. pc[t] \notin LeaveSteps \ {"idle"}
  <2>1. SUFFICES ASSUME pc[t] \in LeaveSteps \ {"idle"} PROVE FALSE
    OBVIOUS
  <2>2. t = Disconnect(t[1])
    BY <1>1, <2>1, LeaveThread
  <2>3. QED
    BY <1>1, <2>1, <2>2 DEF Alive
<1>3. ASSUME pc[t] # "join", presence!LocksOf(s)' = presence!LocksOf(s)
      PROVE  Owes(c, "locks")
  <2>1. "locks" \notin Changed(s)
    BY <1>1, <1>3, ChangedKinds
  <2>2. QED
    BY <1>1, <1>3, <2>1, StepOwes DEF Kinds
\* A thread that does not have the list, and does not change it.
<1>4. ASSUME presence!LocksOf(s)' = presence!LocksOf(s), Owes(c, "locks"),
             ~BringsLocks(t, c)
      PROVE  \E u \in Threads : BringsLocks(u, c)'
  <2>1. PICK u \in Threads : BringsLocks(u, c)
    BY <1>1, <1>4, LocksCarried
  <2>2. u # t /\ u[1] \in Connections
    BY <1>4, <2>1, ThreadCases
  <2>3. session[u[1]] = s => session'[u[1]] = s
    <3>1. CASE pc[t] = "join:presence"
      <4>1. PICK r \in Sessions : presence!Join(t[1], r)
        BY <1>1, <3>1, RosterSteps
      <4>2. session[t[1]] \in {r, None} /\ session' = [session EXCEPT ![t[1]] = r]
        BY <4>1 DEF presence!Join, presence!Enrol
      <4>3. QED
        BY <1>1, <2>2, <4>2
    <3>2. CASE pc[t] = "select"
      <4>1. \E elements : presence!UpdateSelection(t[1], elements)
        BY <1>1, <3>2, SelectLeaveSteps
      <4>2. session' = session
        BY <4>1 DEF presence!UpdateSelection, presence!Select
      <4>3. QED
        BY <4>2
    <3>3. CASE pc[t] \notin {"join:presence", "select", "leave"}
      BY <3>3, StepEffects DEF Effects
    <3>4. QED
      BY <1>2, <3>1, <3>2, <3>3 DEF LeaveSteps
  <2>4. QED
    BY <1>1, <1>4, <2>1, <2>2, <2>3, LocksKept
<1>5. ASSUME pc[t] \notin {"claim", "release"}
      PROVE  presence!LocksOf(s)' = presence!LocksOf(s)
  BY <1>2, <1>5, StepEffects DEF Effects, presence!LocksOf, LeaveSteps
\* The same for any step that touches no lock.
<1>6. ASSUME pc[t] \notin {"join", "claim", "release"}, ~BringsLocks(t, c)
      PROVE  \E u \in Threads : BringsLocks(u, c)'
  BY <1>3, <1>4, <1>5, <1>6
<1>7. CASE pc[t] = "join"
  <2>1. PICK r \in Sessions : AddToGroup(t, r) /\ Goto(t, "join:snapshot")
    BY <1>1, <1>7, FramesSteps
  <2>2. CASE t = Call(c)
    BY <1>1, <2>1, <2>2 DEF Goto, BringsLocks, BeforeLocks
  <2>3. CASE t # Call(c)
    <3>1. t[1] # c
      BY <1>1, <1>7, <2>3, CallThread DEF LeaveSteps
    <3>2. Owes(c, "locks")
      BY <1>1, <2>1, <3>1 DEF AddToGroup, Owes, Shape
    <3>3. ~BringsLocks(t, c)
      BY <1>7 DEF BringsLocks, BeforeLocks
    <3>4. QED
      BY <1>4, <1>5, <1>7, <3>2, <3>3
  <2>4. QED
    BY <2>2, <2>3
<1>8. CASE pc[t] \in {"join:snapshot", "join:frames", "join:presence"}
  <2>1. \E step \in BeforeLocks : Goto(t, step)
    BY <1>1, <1>8, RosterSteps DEF BeforeRoster, BeforeLocks
  <2>2. CASE t = Call(c)
    BY <1>1, <2>1, <2>2 DEF Goto, BringsLocks
  <2>3. CASE t # Call(c)
    BY <1>6, <1>8, <2>3 DEF BringsLocks
  <2>4. QED
    BY <2>2, <2>3
<1>9. CASE pc[t] = "join:getlocks"
  <2>1. CASE t = Call(c)
    <3>1. arg[t] = s /\ session[c] = s /\ t[1] = c
      BY <1>1, <1>9, <2>1 DEF JoinsWatch, JoinSteps, Owes
    <3>2. presence!GetLocks(t, s, {c}) /\ Goto(t, "join:locks")
      BY <1>1, <1>9, <3>1, LockSteps
    <3>3. reply'[t].locks = presence!LocksOf(s)
      BY <1>1, <3>1, <3>2, FullRead
    <3>4. QED
      BY <1>1, <1>5, <1>9, <2>1, <3>2, <3>3 DEF Goto, BringsLocks
  <2>2. CASE t # Call(c)
    BY <1>6, <1>9, <2>2 DEF BringsLocks
  <2>3. QED
    BY <2>1, <2>2
<1>10. CASE pc[t] = "join:locks"
  <2>1. ~BringsLocks(t, c)
    <3>1. SUFFICES ASSUME t = Call(c), reply[t].locks = presence!LocksOf(s) PROVE FALSE
      BY <1>10 DEF BringsLocks, BeforeLocks
    <3>2. arg[t] = s
      BY <1>1, <1>10, <3>1 DEF JoinsWatch, JoinSteps
    <3>3. SendLocks({c}, s, reply[t].locks)
      BY <1>1, <1>10, <3>1, <3>2, LockSteps
    <3>4. Owes(c, "locks")
      BY <1>3, <1>5, <1>10
    <3>5. QED
      BY <3>1, <3>3, <3>4, LocksSent
  <2>2. QED
    BY <1>6, <1>10, <2>1
<1>11. CASE pc[t] \in {"claim", "release"}
  <2>1. t = Call(t[1])
    BY <1>1, <1>11, CallThread DEF LeaveSteps
  <2>2. ~BringsLocks(t, c)
    BY <1>11 DEF BringsLocks, BeforeLocks
  <2>3. CASE holder'[s] = holder[s]
    <3>1. presence!LocksOf(s)' = presence!LocksOf(s)
      BY <2>3 DEF presence!LocksOf
    <3>2. QED
      BY <1>3, <1>4, <1>11, <2>2, <3>1
  <2>4. CASE holder'[s] # holder[s]
    <3>1. session[t[1]] = s /\ session' = session
          /\ pc'[t] \in {"claim:session", "release:session"}
      <4>1. CASE pc[t] = "claim"
        <5>1. PICK e \in Elements :
                /\ presence!ClaimElement(t[1], e)
                /\ \/ reply'[t].holder # None /\ Goto(t, "claim:session")
                   \/ reply'[t].holder = None
          BY <1>1, <4>1, LockSteps
        <5>2. session' = session /\ session[t[1]] = s /\ reply'[t].holder = t[1]
          BY <1>1, <2>1, <2>4, <5>1, ClaimFacts
        <5>3. QED
          BY <1>1, <5>1, <5>2 DEF Goto
      <4>2. CASE pc[t] = "release"
        <5>1. PICK e \in Elements :
                /\ presence!ReleaseElement(t[1], e)
                /\ \/ reply'[t].released /\ Goto(t, "release:session")
                   \/ ~reply'[t].released
          BY <1>1, <4>2, LockSteps
        <5>2. session' = session /\ session[t[1]] = s /\ reply'[t].released
          BY <1>1, <2>1, <2>4, <5>1, ReleaseFacts
        <5>3. QED
          BY <1>1, <5>1, <5>2 DEF Goto
      <4>3. QED
        BY <1>11, <4>1, <4>2
    <3>2. QED
      BY <3>1 DEF BringsLocks
  <2>5. QED
    BY <2>3, <2>4
<1>12. CASE pc[t] \in {"claim:session", "release:session"}
  <2>1. CASE BringsLocks(t, c)
    <3>1. session[t[1]] = s
      BY <1>12, <2>1 DEF BringsLocks, BeforeLocks
    <3>2. /\ arg' = [arg EXCEPT ![t] = session[t[1]]]
          /\ \E step \in {"claim:getlocks", "release:getlocks"} : Goto(t, step)
      BY <1>1, <1>12, <3>1, LockSteps
    <3>3. arg'[t] = s /\ pc'[t] \in {"claim:getlocks", "release:getlocks"}
      BY <1>1, <3>1, <3>2 DEF Goto, Shape
    <3>4. session' = session
      BY <1>12, StepEffects DEF Effects
    <3>5. QED
      BY <3>1, <3>3, <3>4 DEF BringsLocks
  <2>2. QED
    BY <1>6, <1>12, <2>1
<1>13. CASE pc[t] \in {"claim:getlocks", "release:getlocks"}
  <2>1. CASE BringsLocks(t, c)
    <3>1. session[t[1]] = s /\ arg[t] = s
      BY <1>13, <2>1 DEF BringsLocks, BeforeLocks
    <3>2. /\ presence!GetLocks(t, s, {t[1]}) /\ Hold
          /\ \E step \in {"claim:locks", "release:locks"} : Goto(t, step)
      BY <1>1, <1>13, <3>1, LockSteps
    <3>3. reply'[t].locks = presence!LocksOf(s)
      BY <1>1, <3>1, <3>2, FullRead
    <3>4. pc'[t] \in {"claim:locks", "release:locks"} /\ arg'[t] = s
      BY <1>1, <3>1, <3>2 DEF Goto, Hold
    <3>5. QED
      BY <1>5, <1>13, <3>3, <3>4 DEF BringsLocks
  <2>2. QED
    BY <1>6, <1>13, <2>1
<1>14. CASE pc[t] \in {"claim:locks", "release:locks"}
  <2>1. ~BringsLocks(t, c)
    <3>1. SUFFICES ASSUME arg[t] = s, reply[t].locks = presence!LocksOf(s) PROVE FALSE
      BY <1>14 DEF BringsLocks, BeforeLocks
    <3>2. SendLocks(groups[s], s, reply[t].locks)
      BY <1>1, <1>14, <3>1, LockSteps
    <3>3. Owes(c, "locks")
      BY <1>3, <1>5, <1>14
    <3>4. c \in groups[s]
      BY <3>3 DEF Owes
    <3>5. QED
      BY <3>1, <3>2, <3>3, <3>4, LocksSent
  <2>2. QED
    BY <1>6, <1>14, <2>1
<1>15. CASE pc[t] \notin {"join", "join:snapshot", "join:frames", "join:presence",
                          "join:getlocks", "join:locks", "claim", "claim:session",
                          "claim:getlocks", "claim:locks", "release", "release:session",
                          "release:getlocks", "release:locks"}
  <2>1. ~BringsLocks(t, c)
    BY <1>15 DEF BringsLocks, BeforeLocks
  <2>2. QED
    BY <1>6, <1>15, <2>1
<1>16. QED
  BY <1>7, <1>8, <1>9, <1>10, <1>11, <1>12, <1>13, <1>14, <1>15

-----------------------------------------------------------------------------
(* What is owed is on its way: every step                                  *)

\* A call thread is in a join or a push that it was in before.
LEMMA JoinStays ==
  ASSUME NEW t \in Threads, GhostInv, Step(t), t = Call(t[1]),
         pc'[t] \in JoinSteps \cup {"push", "push:frames"}
  PROVE  /\ pc[t] \in JoinSteps \cup {"push"} /\ arg'[t] = arg[t]
         /\ pc'[t] \in {"join:getlocks", "join:locks", "join:roster"} =>
              pc[t] \in {"join:presence", "join:getlocks", "join:locks"}
<1>0. \A step : Goto(t, step) => pc'[t] = step
  BY DEF Goto, GhostInv, GhostTypes
<1>1. ~Return(t) /\ ~End(t)
  BY <1>0 DEF Return, End, JoinSteps
<1>2. ASSUME NEW s \in Sessions, JoinSession(t, s) PROVE pc[t] \in JoinSteps /\ arg' = arg
  BY <1>1, <1>2 DEF JoinSession, CatchUp, ReadLocks, Continue, Hold, At, JoinSteps
<1>3. ASSUME PushRdl(t) PROVE pc[t] = "push" /\ arg' = arg /\ pc'[t] = "push:frames"
  BY <1>0, <1>1, <1>3 DEF PushRdl, At
<1>4. ~UpdateSelection(t)
  BY <1>0, <1>1 DEF UpdateSelection, SessionOf, JoinSteps
<1>5. ~ClaimElement(t)
  BY <1>0, <1>1 DEF ClaimElement, SessionOf, ReadLocks, BroadcastLocks, JoinSteps
<1>6. ~ReleaseElement(t)
  BY <1>0, <1>1 DEF ReleaseElement, SessionOf, ReadLocks, BroadcastLocks, JoinSteps
<1>7. ~OnDisconnected(t)
  BY <1>0, <1>1 DEF OnDisconnected, Continue, ReadLocks, BroadcastLocks, JoinSteps
<1>8. ASSUME NEW s \in Sessions, JoinSession(t, s),
             pc'[t] \in {"join:getlocks", "join:locks", "join:roster"}
      PROVE  pc[t] \in {"join:presence", "join:getlocks", "join:locks"}
  <2>1. CASE pc[t] \in {"join", "join:snapshot", "join:frames", "join:roster"}
    <3>1. \E step \in {"join:snapshot", "join:frames", "join:presence"} : Goto(t, step)
      <4>1. Step(t) /\ pc[t] # "join:roster"
        BY <1>1, <1>8, <2>1 DEF JoinSession, CatchUp, ReadLocks, At
      <4>2. QED
        BY <2>1, <4>1, FramesSteps, RosterSteps DEF BeforeRoster
    <3>2. QED
      BY <1>0, <1>8, <3>1
  <2>2. QED
    BY <1>2, <1>8, <2>1 DEF JoinSteps
<1>9. QED
  BY <1>2, <1>3, <1>4, <1>5, <1>6, <1>7, <1>8 DEF Step, JoinSteps

\* A join stays with its session, and a join that made a participant keeps it.
LEMMA StepJoins ==
  ASSUME NEW t \in Threads, OwedInv, Step(t)
  PROVE  JoinsWatch' /\ DOMAIN selection' = Connections
<1>1. /\ Own(t) /\ GhostInv /\ JoinsWatch /\ DOMAIN selection = Connections
      /\ session \in [Connections -> Sessions \cup {None}] /\ t[1] \in Connections
  BY StepOwn, ThreadCases DEF OwnStep, OwedInv, GhostInv, GhostTypes
<1>2. /\ DOMAIN selection' = Connections
      /\ \A c \in Connections :
           \/ session'[c] = session[c]
           \/ t = Call(c) /\ pc[t] = "join:presence" /\ session'[c] = arg[t]
           \/ t = Disconnect(c) /\ pc[t] = "leave"
  <2>1. CASE pc[t] = "join:presence"
    <3>1. PICK r \in Sessions : r = arg[t] /\ presence!Join(t[1], r)
      BY <1>1, <2>1, RosterSteps
    <3>2. /\ session' = [session EXCEPT ![t[1]] = r]
          /\ selection' = [selection EXCEPT ![t[1]] = {}]
      BY <3>1 DEF presence!Join, presence!Enrol
    <3>3. t = Call(t[1])
      BY <1>1, <2>1, CallThread DEF LeaveSteps
    <3>4. QED
      BY <1>1, <2>1, <3>1, <3>2, <3>3
  <2>2. CASE pc[t] = "select"
    <3>1. \E elements : presence!UpdateSelection(t[1], elements)
      BY <1>1, <2>2, SelectLeaveSteps
    <3>2. QED
      BY <1>1, <3>1 DEF presence!UpdateSelection, presence!Select
  <2>3. CASE pc[t] = "leave"
    <3>1. presence!Leave(t[1])
      BY <1>1, <2>3, SelectLeaveSteps
    <3>2. t = Disconnect(t[1])
      BY <1>1, <2>3, LeaveThread DEF LeaveSteps
    <3>3. \/ /\ session' = [session EXCEPT ![t[1]] = None]
             /\ selection' = [selection EXCEPT ![t[1]] = {}]
          \/ UNCHANGED <<session, selection>>
      BY <3>1 DEF presence!Leave, presence!Drop, presence!registry
    <3>4. QED
      BY <1>1, <2>3, <3>2, <3>3
  <2>4. CASE pc[t] \notin {"join:presence", "select", "leave"}
    BY <1>1, <2>4, StepEffects DEF Effects
  <2>5. QED
    BY <2>1, <2>2, <2>3, <2>4
<1>3. ASSUME NEW c \in Connections, pc'[Call(c)] \in JoinSteps \cup {"push", "push:frames"}
      PROVE  /\ arg'[Call(c)] = Watches[c]
             /\ pc'[Call(c)] \in {"join:getlocks", "join:locks", "join:roster"} /\ Alive(c)'
                  => session'[c] = Watches[c]
  <2>1. CASE t = Call(c)
    <3>1. /\ pc[t] \in JoinSteps \cup {"push"} /\ arg'[t] = arg[t] /\ t # Disconnect(c)
          /\ pc'[t] \in {"join:getlocks", "join:locks", "join:roster"} =>
               pc[t] \in {"join:presence", "join:getlocks", "join:locks"}
      BY <1>1, <1>3, <2>1, JoinStays, ThreadCases
    <3>2. arg[t] = Watches[c]
      BY <1>1, <2>1, <3>1 DEF JoinsWatch
    <3>3. ASSUME pc'[t] \in {"join:getlocks", "join:locks", "join:roster"}, Alive(c)'
          PROVE  session'[c] = Watches[c]
      <4>1. CASE pc[t] = "join:presence"
        <5>1. PICK r \in Sessions : r = arg[t] /\ presence!Join(t[1], r)
          BY <1>1, <4>1, RosterSteps
        <5>2. session' = [session EXCEPT ![t[1]] = r] /\ t[1] = c
          BY <2>1, <5>1, ThreadCases DEF presence!Join, presence!Enrol
        <5>3. QED
          BY <1>1, <3>2, <5>1, <5>2
      <4>2. CASE pc[t] \in {"join:getlocks", "join:locks"}
        <5>1. Alive(c)
          BY <1>1, <3>3, StepAlive
        <5>2. session' = session
          BY <4>2, StepEffects DEF Effects
        <5>3. QED
          BY <1>1, <2>1, <4>2, <5>1, <5>2 DEF JoinsWatch
      <4>3. QED
        BY <3>1, <3>3, <4>1, <4>2
    <3>4. QED
      BY <2>1, <3>1, <3>2, <3>3
  <2>2. CASE t # Call(c)
    <3>1. pc'[Call(c)] = pc[Call(c)] /\ arg'[Call(c)] = arg[Call(c)]
      BY <1>1, <2>2, ThreadCases DEF Own
    <3>2. Alive(c)' => Alive(c) /\ ~(t = Disconnect(c) /\ pc[t] = "leave")
      <4>1. Alive(c)' <=> Alive(c)
        BY <1>1, StepAlive
      <4>2. QED
        BY <4>1 DEF Alive
    <3>3. QED
      BY <1>1, <1>2, <1>3, <2>2, <3>1, <3>2 DEF JoinsWatch
  <2>3. QED
    BY <2>1, <2>2
<1>4. QED
  BY <1>2, <1>3 DEF JoinsWatch, JoinSteps

\* Starting a method, or the clean-up of a lost connection, brings nobody into debt.
LEMMA StartOwed ==
  ASSUME OwedInv, NEW d \in Connections, Invoke(d) \/ LoseConnection(d)
  PROVE  OwedInv'
<1>1. PICK t \in Threads :
        /\ t \in {Call(d), Disconnect(d)} /\ pc[t] = "idle" /\ Own(t)
        /\ UNCHANGED <<session, selection, holder, snapshot, frames, roster>>
        /\ t = Disconnect(d) => pc'[t] = "leave"
        /\ t = Call(d) =>
             /\ pc'[t] \in {"join", "push", "select", "claim", "release"}
             /\ pc'[t] \in {"join", "push"} => arg'[t] = Watches[d]
        /\ Shape'
        /\ \A c \in Connections, k \in Kinds : Owes(c, k)' => Owes(c, k)
  <2>0. /\ Call(d) \in Threads /\ Disconnect(d) \in Threads /\ Call(d) # Disconnect(d)
        /\ DOMAIN pc = Threads /\ GhostInv /\ Shape
        /\ \A c \in Connections : Disconnect(c) # Call(d)
        /\ \A c \in Connections : Disconnect(c) = Disconnect(d) => c = d
    BY DEF Call, presence!Call, Disconnect, presence!Disconnect, Threads, presence!Threads,
           OwedInv, GhostInv, GhostTypes
  <2>1. CASE Invoke(d)
    <3>1. PICK m \in Methods :
            /\ At(Call(d), "idle") /\ UNCHANGED <<groups, missed>>
            /\ Start(Call(d), m, IF m \in {"join", "push"} THEN Watches[d] ELSE None)
      BY <2>1 DEF Invoke
    <3>2. /\ pc' = [pc EXCEPT ![Call(d)] = m]
          /\ arg' = [arg EXCEPT ![Call(d)] = IF m \in {"join", "push"} THEN Watches[d] ELSE None]
          /\ presence!Forget(Call(d)) /\ UNCHANGED <<snapshot, frames, roster>>
      BY <3>1 DEF Start, Goto
    <3>3. Own(Call(d)) /\ Shape' /\ pc'[Call(d)] = m
      BY <2>0, <3>1, <3>2, Answering DEF Own, Shape, presence!Forget
    <3>4. UNCHANGED <<session, selection, holder>>
      BY <3>2 DEF presence!Forget, presence!registry
    <3>5. \A c \in Connections : pc'[Disconnect(c)] = pc[Disconnect(c)]
      BY <2>0, <3>2
    <3>6. \A c \in Connections, k \in Kinds : Owes(c, k)' => Owes(c, k)
      BY <3>1, <3>5 DEF Owes, Alive
    <3>7. m \in {"join", "push", "select", "claim", "release"}
      BY HubAssumption
    <3>8. m \in {"join", "push"} => arg'[Call(d)] = Watches[d]
      BY <2>0, <3>2 DEF Shape
    <3>9. QED
      BY <2>0, <3>1, <3>2, <3>3, <3>4, <3>6, <3>7, <3>8 DEF At
  <2>2. CASE LoseConnection(d)
    <3>1. /\ Alive(d) /\ Start(Disconnect(d), "leave", None)
          /\ groups' = [s \in Sessions |-> groups[s] \ {d}]
          /\ missed' = [missed EXCEPT ![d] = {}]
      BY <2>2 DEF LoseConnection
    <3>2. /\ pc' = [pc EXCEPT ![Disconnect(d)] = "leave"]
          /\ arg' = [arg EXCEPT ![Disconnect(d)] = None]
          /\ presence!Forget(Disconnect(d)) /\ UNCHANGED <<snapshot, frames, roster>>
      BY <3>1 DEF Start, Goto
    <3>3. Own(Disconnect(d)) /\ Shape' /\ pc'[Disconnect(d)] = "leave"
      BY <2>0, <3>1, <3>2, Answering DEF Own, Shape, presence!Forget
    <3>4. UNCHANGED <<session, selection, holder>>
      BY <3>2 DEF presence!Forget, presence!registry
    <3>5. \A c \in Connections : c # d => pc'[Disconnect(c)] = pc[Disconnect(c)]
      BY <2>0, <3>2
    <3>6. \A c \in Connections, k \in Kinds : Owes(c, k)' => Owes(c, k)
      <4> SUFFICES ASSUME NEW c \in Connections, NEW k \in Kinds, Owes(c, k)'
                   PROVE  Owes(c, k)
        OBVIOUS
      <4>1. Watches[c] \in Sessions
        BY HubAssumption
      <4>2. c # d
        BY <3>3 DEF Owes, Alive
      <4>3. groups'[Watches[c]] = groups[Watches[c]] \ {d}
        BY <3>1, <4>1
      <4>4. missed'[c] = missed[c]
        BY <2>0, <3>1, <4>2 DEF Shape
      <4>5. QED
        BY <3>5, <4>2, <4>3, <4>4 DEF Owes, Alive
    <3>7. pc[Disconnect(d)] = "idle"
      BY <3>1 DEF Alive
    <3>8. PICK t \in Threads : t = Disconnect(d)
      BY <2>0
    <3>9. t \in {Call(d), Disconnect(d)} /\ t # Call(d)
      BY <2>0, <3>8
    <3>10. QED
      BY <3>2, <3>3, <3>4, <3>6, <3>7, <3>8, <3>9
  <2>3. QED
    BY <2>1, <2>2
<1>2. \A c \in Connections : /\ presence!Roster(Watches[c])' = presence!Roster(Watches[c])
                             /\ presence!LocksOf(Watches[c])' = presence!LocksOf(Watches[c])
  BY <1>1 DEF presence!Roster, presence!LocksOf
<1>3. \A c \in Connections : /\ ~BringsFrames(t, c) /\ ~BringsRoster(t, c)
                             /\ ~BringsGrants(t, c) /\ ~BringsLocks(t, c)
  BY <1>1 DEF BringsFrames, BringsRoster, BringsGrants, BringsLocks, BeforeRoster, BeforeLocks
<1>4. FramesOwed'
  <2> SUFFICES ASSUME NEW c \in Connections, Owes(c, "frames")' PROVE FramesToCome(c)'
    BY DEF FramesOwed
  <2>1. FramesToCome(c)
    BY <1>1 DEF OwedInv, FramesOwed, Kinds
  <2>2. QED
    BY <1>1, <1>3, <2>1, FramesKept
<1>5. RosterOwed'
  <2> SUFFICES ASSUME NEW c \in Connections, Owes(c, "roster")' PROVE RosterToCome(c)'
    BY DEF RosterOwed
  <2>1. RosterToCome(c)
    BY <1>1 DEF OwedInv, RosterOwed, Kinds
  <2>2. \E u \in Threads : BringsRoster(u, c)'
    BY <1>1, <1>2, <1>3, <2>1, RosterKept
  <2>3. Call(c) \in Threads
    BY DEF Threads, Call, presence!Threads, presence!Call
  <2>4. QED
    BY <2>2, <2>3 DEF RosterToCome, BringsRoster, BeforeRoster
<1>6. GrantsOwed'
  <2> SUFFICES ASSUME NEW c \in Connections, Owes(c, "granted")' PROVE GrantsToCome(c)'
    BY DEF GrantsOwed
  <2>1. GrantsToCome(c)
    BY <1>1 DEF OwedInv, GrantsOwed, Kinds
  <2>2. PICK u \in Threads : BringsGrants(u, c)
    BY <2>1, GrantsCarried
  <2>3. BringsGrants(u, c)'
    BY <1>1, <1>3, <2>2, GrantsKept
  <2>4. Call(c) \in Threads
    BY DEF Threads, Call, presence!Threads, presence!Call
  <2>5. QED
    BY <2>3, <2>4 DEF GrantsToCome, BringsGrants, BeforeLocks
<1>7. LocksOwed'
  <2> SUFFICES ASSUME \A c \in Connections : Alive(c)', NEW c \in Connections,
                      Owes(c, "locks")'
               PROVE  LocksToCome(c)'
    BY DEF LocksOwed
  <2>1. \A e \in Connections : Alive(e)
    <3>1. ASSUME NEW e \in Connections PROVE Alive(e)
      <4>1. CASE t = Disconnect(e)
        BY <1>1, <4>1 DEF Alive
      <4>2. CASE t # Disconnect(e)
        BY <1>1, <4>2, ThreadCases DEF Alive, Own
      <4>3. QED
        BY <4>1, <4>2
    <3>2. QED
      BY <3>1
  <2>2. LocksToCome(c)
    BY <1>1, <2>1 DEF OwedInv, LocksOwed, Kinds
  <2>3. PICK u \in Threads : BringsLocks(u, c)
    BY <2>2, LocksCarried
  <2>4. BringsLocks(u, c)'
    BY <1>1, <1>2, <1>3, <2>3, LocksKept
  <2>5. Call(c) \in Threads
    BY DEF Threads, Call, presence!Threads, presence!Call
  <2>6. QED
    BY <2>4, <2>5 DEF LocksToCome, BringsLocks, BeforeLocks
<1>8. JoinsWatch'
  <2>1. ASSUME NEW c \in Connections, pc'[Call(c)] \in JoinSteps \cup {"push", "push:frames"}
        PROVE  /\ arg'[Call(c)] = Watches[c]
               /\ pc'[Call(c)] \in {"join:getlocks", "join:locks", "join:roster"} /\ Alive(c)'
                    => session'[c] = Watches[c]
    <3>1. CASE t = Call(c)
      <4>1. t[1] = c /\ (t = Call(d) => c = d) /\ (t = Disconnect(d) => FALSE)
        BY <3>1, ThreadCases
      <4>2. QED
        BY <1>1, <2>1, <3>1, <4>1 DEF JoinSteps
    <3>2. CASE t # Call(c)
      <4>1. pc'[Call(c)] = pc[Call(c)] /\ arg'[Call(c)] = arg[Call(c)]
        BY <1>1, <3>2, ThreadCases DEF Own
      <4>2. Alive(c)' => Alive(c)
        BY <1>1, ThreadCases DEF Alive, Own
      <4>3. QED
        BY <1>1, <2>1, <4>1, <4>2 DEF OwedInv, JoinsWatch
    <3>3. QED
      BY <3>1, <3>2
  <2>2. QED
    BY <2>1 DEF JoinsWatch, JoinSteps
<1>9. GhostInv'
  BY InvokeInv DEF OwedInv
<1>10. DOMAIN selection' = Connections
  BY <1>1 DEF OwedInv
<1>11. QED
  BY <1>1, <1>4, <1>5, <1>6, <1>7, <1>8, <1>9, <1>10 DEF OwedInv

\* Nobody misses anything at first.
LEMMA OwedInit ==
  Init => OwedInv
<1> SUFFICES ASSUME Init PROVE OwedInv
  OBVIOUS
<1>1. Shape /\ DOMAIN selection = Connections
  BY DEF Init, Shape, presence!Init, presence!NobodyPresent
<1>2. \A c \in Connections, k \in Kinds : ~Owes(c, k)
  BY DEF Init, Owes
<1>3. FramesOwed /\ RosterOwed /\ GrantsOwed /\ LocksOwed
  BY <1>2 DEF FramesOwed, RosterOwed, GrantsOwed, LocksOwed, Kinds
<1>4. \A c \in Connections : pc[Call(c)] = "idle"
  <2>1. pc = [t \in Threads |-> "idle"]
    BY DEF Init
  <2>2. QED
    BY <2>1 DEF Call, presence!Call, Threads, presence!Threads
<1>5. JoinsWatch
  BY <1>4 DEF JoinsWatch, JoinSteps
<1>6. QED
  BY <1>1, <1>3, <1>5, GhostInit DEF OwedInv

\* Every step of the hub keeps what is owed on its way.
LEMMA OwedNext ==
  OwedInv /\ [Next]_vars => OwedInv'
<1> SUFFICES ASSUME OwedInv, [Next]_vars PROVE OwedInv'
  OBVIOUS
<1>1. CASE \E c \in Connections : Invoke(c) \/ LoseConnection(c)
  BY <1>1, StartOwed
<1>2. ASSUME NEW t \in Threads, Step(t)
      PROVE  OwedInv'
  <2>1. GhostInv' /\ Shape' /\ JoinsWatch' /\ DOMAIN selection' = Connections
    BY <1>2, GhostNext, StepOwn, StepJoins DEF OwedInv, OwnStep
  <2>2. FramesOwed' /\ RosterOwed' /\ GrantsOwed'
    BY <1>2, FramesStep, RosterStep, GrantsStep DEF FramesOwed, RosterOwed, GrantsOwed
  <2>3. LocksOwed'
    <3> SUFFICES ASSUME \A c \in Connections : Alive(c)', NEW c \in Connections,
                        Owes(c, "locks")'
                 PROVE  LocksToCome(c)'
      BY DEF LocksOwed
    <3>1. \A d \in Connections : Alive(d)
      BY <1>2, StepAlive DEF OwedInv
    <3>2. QED
      BY <1>2, <3>1, LocksStep
  <2>4. QED
    BY <2>1, <2>2, <2>3 DEF OwedInv
<1>3. CASE UNCHANGED vars
  <2>1. GhostInv'
    BY <1>3, GhostNext DEF OwedInv
  <2>2. UNCHANGED <<session, selection, holder, reply, snapshot, groups, pc, arg, frames,
                    roster, missed>>
    BY <1>3 DEF vars, registry, handler
  <2>3. Shape' /\ JoinsWatch' /\ DOMAIN selection' = Connections
    BY <2>2 DEF OwedInv, Shape, JoinsWatch, Alive
  <2>4. \A c \in Connections, k \in Kinds : Owes(c, k)' => Owes(c, k)
    BY <2>2 DEF Owes, Alive
  <2>5. \A c \in Connections : /\ FramesToCome(c) => FramesToCome(c)'
                               /\ RosterToCome(c) => RosterToCome(c)'
                               /\ GrantsToCome(c) => GrantsToCome(c)'
                               /\ LocksToCome(c) => LocksToCome(c)'
    BY <2>2 DEF FramesToCome, RosterToCome, GrantsToCome, LocksToCome, presence!Roster,
                presence!LocksOf
  <2>6. (\A c \in Connections : Alive(c)') => \A c \in Connections : Alive(c)
    BY <2>2 DEF Alive
  <2>7. FramesOwed' /\ RosterOwed' /\ GrantsOwed' /\ LocksOwed'
    BY <2>4, <2>5, <2>6 DEF OwedInv, FramesOwed, RosterOwed, GrantsOwed, LocksOwed, Kinds
  <2>8. QED
    BY <2>1, <2>3, <2>7 DEF OwedInv
<1>4. QED
  BY <1>1, <1>2, <1>3 DEF Next, Idle

\* At rest no thread has anything in hand.
LEMMA NothingToCome ==
  ASSUME OwedInv, Quiescent, NEW c \in Connections
  PROVE  /\ FramesToCome(c) => snapshot[Watches[c]] = None
         /\ ~RosterToCome(c) /\ ~GrantsToCome(c) /\ ~LocksToCome(c)
<1>1. \A t \in Threads : pc[t] \in {"idle", "gone"}
  BY DEF Quiescent
<1>2. Call(c) \in Threads
  BY DEF Threads, Call, presence!Threads, presence!Call
<1>3. QED
  BY <1>1, <1>2 DEF FramesToCome, RosterToCome, GrantsToCome, LocksToCome, BeforeLocks

\* What is owed stays on its way.
LEMMA OwedInvHolds == Spec => []OwedInv
BY OwedInit, OwedNext, PTL DEF Spec

\* Nobody is left behind: every member of a session is sent the snapshot that is
\* stored, and every change of its roster (ReportPreviewHub.cs:63-76).
THEOREM NoMissedUpdatesHolds == Spec => []NoMissedUpdates
<1>1. OwedInv => NoMissedUpdates
  <2> SUFFICES ASSUME OwedInv, Quiescent
               PROVE  /\ \A c \in Missing("frames") : snapshot[Watches[c]] = None
                      /\ Missing("roster") = {}
    BY DEF NoMissedUpdates
  <2>0. \A c \in Connections : /\ FramesToCome(c) => snapshot[Watches[c]] = None
                               /\ ~RosterToCome(c)
    BY NothingToCome
  <2>1. FramesOwed /\ RosterOwed
    BY Zenon DEF OwedInv
  <2>2. \A c \in Connections : /\ Owes(c, "frames") => snapshot[Watches[c]] = None
                               /\ ~Owes(c, "roster")
    BY <2>0, <2>1, Zenon DEF FramesOwed, RosterOwed
  <2>3. QED
    BY <2>2, Zenon DEF Missing, Owes
<1>2. QED
  BY <1>1, OwedInvHolds, PTL

\* Every grant of a lock is announced to every member of the session, whoever leaves
\* meanwhile; so is every release as long as nobody does (ReportPreviewHub.cs:150-186).
THEOREM NoMissedLocksHolds == Spec => []NoMissedLocks
<1>1. OwedInv => NoMissedLocks
  <2> SUFFICES ASSUME OwedInv, Quiescent
               PROVE  /\ Missing("granted") = {}
                      /\ (\A c \in Connections : Alive(c)) => Missing("locks") = {}
    BY DEF NoMissedLocks
  <2>0. \A c \in Connections : ~GrantsToCome(c) /\ ~LocksToCome(c)
    BY NothingToCome
  <2>1. GrantsOwed /\ LocksOwed
    BY Zenon DEF OwedInv
  <2>2. /\ \A c \in Connections : ~Owes(c, "granted")
        /\ (\A c \in Connections : Alive(c)) => \A c \in Connections : ~Owes(c, "locks")
    BY <2>0, <2>1, Zenon DEF GrantsOwed, LocksOwed
  <2>3. QED
    BY <2>2, Zenon DEF Missing, Owes
<1>2. QED
  BY <1>1, OwedInvHolds, PTL
=============================================================================
