---------------------------- MODULE PresenceState ----------------------------
(***************************************************************************)
(* The state behind IReportPreviewPresence, with the effect of every       *)
(* operation as one atomic step: who takes part in which live preview      *)
(* session, what each participant has selected and which advisory          *)
(* soft-locks are held. PresenceRegistry adds what the callers are told.   *)
(*                                                                         *)
(* A connection takes part in at most one session: both React screens open *)
(* a connection per session and call JoinSession with that session only.   *)
(***************************************************************************)
CONSTANTS
  Connections,   \* SignalR connection ids
  Sessions,      \* preview session ids (Report Template ids)
  Elements,      \* report element ids
  None           \* C#'s null: no session, no holder

VARIABLES
  session,       \* session[c]: the session c has joined, or None
  selection,     \* selection[c]: the element ids c has selected
  holder         \* holder[s][e]: the connection with the soft-lock on e, or None

registry == <<session, selection, holder>>

\* The participant list of a session, and its lock list, as the callers get them.
Roster(s)  == [c \in {d \in Connections : session[d] = s} |-> selection[c]]
NoRoster   == [c \in {} |-> {}]
LocksOf(s) == {l \in Elements \X Connections : holder[s][l[1]] = l[2]}

Holds(c, e) == session[c] # None /\ holder[session[c]][e] = c
Free(c, e)  == session[c] # None /\ holder[session[c]][e] = None

-----------------------------------------------------------------------------
NobodyPresent ==
  /\ session   = [c \in Connections |-> None]
  /\ selection = [c \in Connections |-> {}]
  /\ holder    = [s \in Sessions |-> [e \in Elements |-> None]]

\* Adds or replaces the participant: a replayed join starts with an empty selection.
Enrol(c, s) ==
  /\ session[c] \in {s, None}
  /\ session'   = [session EXCEPT ![c] = s]
  /\ selection' = [selection EXCEPT ![c] = {}]
  /\ UNCHANGED holder

Select(c, elements) ==
  /\ \/ session[c] # None /\ selection' = [selection EXCEPT ![c] = elements]
     \/ session[c] = None /\ UNCHANGED selection
  /\ UNCHANGED <<session, holder>>

\* Grants a free element or one the caller already holds; never steals.
Claim(c, e) ==
  /\ \/ Free(c, e) /\ holder' = [holder EXCEPT ![session[c]][e] = c]
     \/ ~Free(c, e) /\ UNCHANGED holder
  /\ UNCHANGED <<session, selection>>

Release(c, e) ==
  /\ \/ Holds(c, e) /\ holder' = [holder EXCEPT ![session[c]][e] = None]
     \/ ~Holds(c, e) /\ UNCHANGED holder
  /\ UNCHANGED <<session, selection>>

\* Removes the participant and every lock it held.
Drop(c) ==
  /\ session'   = [session EXCEPT ![c] = None]
  /\ selection' = [selection EXCEPT ![c] = {}]
  /\ holder'    = [s \in Sessions |->
                     [e \in Elements |->
                        IF s = session[c] /\ holder[s][e] = c THEN None
                        ELSE holder[s][e]]]
=============================================================================
