-------------------------- MODULE PresenceRegistry --------------------------
(***************************************************************************)
(* What IReportPreviewPresence promises its callers, with every operation  *)
(* one atomic step that has its effect (PresenceState) and answers.        *)
(*                                                                         *)
(* PreviewPresence, the concurrent in-memory implementation, is shown to   *)
(* implement this module; PreviewHub is built on it.                       *)
(***************************************************************************)
EXTENDS PresenceState

Threads == Connections \X {"call", "leave"}   \* a hub invocation, OnDisconnected
Call(c)       == <<c, "call">>
Disconnect(c) == <<c, "leave">>

VARIABLE reply   \* reply[t]: what thread t's last operation returned

Reply(t, value) == reply' = [reply EXCEPT ![t] = value]

-----------------------------------------------------------------------------
Init == NobodyPresent /\ reply = [t \in Threads |-> None]

Join(c, s) == Enrol(c, s) /\ Reply(Call(c), [roster |-> Roster(s)'])

\* An untracked caller changes nothing. The documentation promises it an empty
\* list; the implementation may hand it the roster of the session it just left.
UpdateSelection(c, elements) ==
  /\ Select(c, elements)
  /\ \/ session[c] # None /\ Reply(Call(c), [roster |-> Roster(session[c])'])
     \/ /\ session[c] = None
        /\ \E r \in {NoRoster} \cup {Roster(s) : s \in Sessions} :
             Reply(Call(c), [roster |-> r])

\* The answer is the lock as it now stands, the caller's or another's.
ClaimElement(c, e) ==
  /\ Claim(c, e)
  /\ Reply(Call(c), [holder |-> IF session[c] = None THEN None
                                ELSE holder'[session[c]][e]])

ReleaseElement(c, e) ==
  /\ Release(c, e)
  /\ Reply(Call(c), [released |-> Holds(c, e)])

\* Removes the participant and every lock it held, and reports who is left.
Leave(c) ==
  \/ \E s \in Sessions :
     /\ s = session[c]
     /\ Drop(c)
     /\ Reply(Disconnect(c), [left |-> s, survivors |-> Roster(s)',
                              freed |-> {e \in Elements : holder[s][e] = c}])
  \/ /\ session[c] = None
     /\ Reply(Disconnect(c), [left |-> None, survivors |-> NoRoster, freed |-> {}])
     /\ UNCHANGED registry

\* The current list. Only if the session is emptied and joined again between the
\* look-up and the read is the list empty instead, so never while one of those
\* who were present when the call began is still there.
GetLocks(t, s, present) ==
  /\ \/ Reply(t, [locks |-> LocksOf(s)])
     \/ /\ \A c \in present : session[c] # s
        /\ Reply(t, [locks |-> {}])
  /\ UNCHANGED registry

GetParticipants(t, s, present) ==
  /\ \/ Reply(t, [roster |-> Roster(s)])
     \/ /\ \A c \in present : session[c] # s
        /\ Reply(t, [roster |-> NoRoster])
  /\ UNCHANGED registry

\* A thread starts its next operation, or forgets what the last one returned.
Forget(t) == Reply(t, None) /\ UNCHANGED registry

Next ==
  \/ \E c \in Connections :
       \/ \E s \in Sessions : Join(c, s)
       \/ \E elements \in SUBSET Elements : UpdateSelection(c, elements)
       \/ \E e \in Elements : ClaimElement(c, e) \/ ReleaseElement(c, e)
       \/ Leave(c)
  \/ \E t \in Threads :
       \/ \E s \in Sessions : GetLocks(t, s, {t[1]}) \/ GetParticipants(t, s, {t[1]})
       \/ Forget(t)

Spec == Init /\ [][Next]_<<session, selection, holder, reply>>
=============================================================================
