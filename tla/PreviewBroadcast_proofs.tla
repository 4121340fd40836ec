------------------------ MODULE PreviewBroadcast_proofs ------------------------
(***************************************************************************)
(* Proofs about the live-preview channel, for any elements, any number of  *)
(* edits, selections, renewals and failures.                               *)
(*                                                                         *)
(* What the properties say of a channel at rest, BroadcastInv says of one  *)
(* with calls on their way: the last publication among them is of the      *)
(* selection (Told), and every lock or claim that ought not to stay is     *)
(* followed by its release (Followed). At most one connection, the newest, *)
(* is neither lost nor still to come, so that the others leave no trace.   *)
(* The parts: sequences of calls, the calls, the steps of the editor and   *)
(* of the connection, the serving of a call, the theorems.                 *)
(***************************************************************************)
EXTENDS PreviewBroadcast, TLAPS

-----------------------------------------------------------------------------
(* Calls on their way                                                      *)

Has(q, call) == \E i \in 1 .. Len(q) : q[i] = call

\* Every such call is followed by the other one.
Followed(q, call, other) ==
  \A i \in 1 .. Len(q) : q[i] = call => \E j \in i + 1 .. Len(q) : q[j] = other

IsPublication(call) == call.kind \in {"select", "replay"}

\* The server is told, last of all, that ids are selected; it has been if nothing is on
\* its way and it takes `now` for the selection.
Told(q, now, ids) ==
  /\ \A i \in 1 .. Len(q) :
       IsPublication(q[i]) /\ (\A j \in i + 1 .. Len(q) : ~IsPublication(q[j])) => q[i].ids = ids
  /\ (\A i \in 1 .. Len(q) : ~IsPublication(q[i])) => now = ids

NoJoin(q) == \A i \in 1 .. Len(q) : q[i].kind # "join"

-----------------------------------------------------------------------------
(* The invariant                                                           *)

BroadcastTypes ==
  /\ rdl \in Nat /\ selectedIds \in SUBSET Elements
  /\ {claimedRef, heldRef} \subseteq Elements \cup {None}
  /\ refreshes \in 0 .. MaxRefreshes /\ outages \in 0 .. MaxOutages
  /\ link \in Links /\ chain \in Chains /\ conn \in Connections \cup {None}
  /\ waiting = [rdl |-> waiting.rdl, ids |-> waiting.ids]
  /\ waiting.ids # None => waiting.ids \in SUBSET Elements
  /\ {ready, pushTimer, selectionTimer, granted} \subseteq BOOLEAN
  /\ wire \in [Connections -> Seq(Calls)]
  /\ lost \in [Connections -> BOOLEAN] /\ left \in [Connections -> BOOLEAN]
  /\ session \in [Connections -> {Session, None}]
  /\ selection \in [Connections -> SUBSET Elements]
  /\ holder \in [{Session} -> [Elements -> Connections \cup {None}]]

Newest == 1 + refreshes + outages
Up(c) == link = "connected" /\ c = conn

\* A connection that was never opened.
Untouched(c) == wire[c] = <<>> /\ ~lost[c] /\ ~left[c] /\ session[c] = None

\* At most one connection, the newest, is neither lost nor still to come; and who has
\* left, or holds no place in the roster, holds no lock.
ConnectionsInv ==
  /\ link = "connected" => conn = Newest /\ ~lost[conn]
  /\ link = "starting" => conn = None
  /\ conn # None /\ link # "connected" => lost[conn] /\ conn < Newest
  /\ \A c \in Connections : ~Up(c) => Untouched(c) \/ (lost[c] /\ c < Newest)
  /\ \A c \in Connections : left[c] => lost[c] /\ session[c] = None /\ wire[c] = <<>>
  /\ \A e \in Elements : holder[Session][e] # None => session[holder[Session][e]] = Session

\* What the editor means to push, publish and claim, and what it still waits to send.
EditorInv ==
  /\ claimedRef = Sole(selectedIds)
  /\ heldRef \in {None, claimedRef} /\ (refreshes = 0 => heldRef = claimedRef)
  /\ link # "connected" => chain = "none"
  /\ ready <=> link # "starting" /\ chain # "start"
  /\ ~ready /\ ~selectionTimer => waiting.ids = selectedIds
  /\ ~ready /\ ~pushTimer => waiting.rdl = rdl
  /\ outages = 0 => link \in {"starting", "connected"}
  /\ outages = 0 /\ ready /\ ~pushTimer => pushed = rdl
  /\ granted => claimedRef # None /\ (refreshes = 0 => ready)

\* The join comes first and once, and once it is answered the last publication on its
\* way, if the last change of the selection has settled, is of that selection.
PublicationsInv(q) ==
  /\ chain \in {"start", "join"} => session[conn] = None /\ q # <<>> /\ Head(q) = Join /\ NoJoin(Tail(q))
  /\ chain \in {"none", "select"} =>
       /\ session[conn] = Session /\ connectionId = conn /\ NoJoin(q)
       /\ ~selectionTimer => Told(q, selection[conn], selectedIds)

\* A claim of any element but the selected one is followed by its release, and so is a
\* lock on it; a release of the selected one is followed by a claim.
LocksInv(q) ==
  /\ \A e \in Elements \ {claimedRef} :
       /\ Followed(q, Claim(e), Release(e))
       /\ holder[Session][e] = conn => Has(q, Release(e))
  /\ claimedRef # None => Followed(q, Release(claimedRef), Claim(claimedRef))
  /\ refreshes = 0 /\ granted /\ chain = "none" =>
       \/ Has(q, Claim(claimedRef))
       \/ holder[Session][claimedRef] = conn /\ ~Has(q, Release(claimedRef))

CallsInv == link = "connected" => PublicationsInv(wire[conn]) /\ LocksInv(wire[conn])

BroadcastInv == BroadcastTypes /\ ConnectionsInv /\ EditorInv /\ CallsInv

-----------------------------------------------------------------------------
(* What serving and sending do to the calls on their way                   *)

\* The call at the head has gone.
LEMMA TailCalls ==
  ASSUME NEW q \in Seq(Calls), q # <<>>
  PROVE  /\ Tail(q) \in Seq(Calls) /\ Head(q) \in Calls
         /\ \A call : Has(q, call) => Head(q) = call \/ Has(Tail(q), call)
         /\ \A call : Has(Tail(q), call) => Has(q, call)
         /\ \A call, other : Followed(q, call, other) =>
              /\ Followed(Tail(q), call, other)
              /\ Head(q) = call => Has(Tail(q), other)
         /\ NoJoin(q) => NoJoin(Tail(q)) /\ Head(q).kind # "join"
         /\ \A now, ids : Told(q, now, ids) =>
              Told(Tail(q), IF IsPublication(Head(q)) THEN Head(q).ids ELSE now, ids)
<1>1. /\ Len(q) \in Nat \ {0} /\ Head(q) = q[1] /\ Tail(q) \in Seq(Calls)
      /\ Len(Tail(q)) = Len(q) - 1 /\ \A i \in 1 .. Len(q) - 1 : Tail(q)[i] = q[i + 1]
      /\ Head(q) \in Calls
  OBVIOUS
<1>2. PICK t : t = Tail(q)
  OBVIOUS
<1>3. Len(t) = Len(q) - 1 /\ \A i \in 1 .. Len(t) : t[i] = q[i + 1]
  BY <1>1, <1>2
<1>4. \A i \in 1 .. Len(q) : i = 1 \/ i - 1 \in 1 .. Len(t)
  BY <1>1, <1>3
<1>5. ASSUME NEW call, Has(q, call)
      PROVE  Head(q) = call \/ Has(t, call)
  <2>1. PICK i \in 1 .. Len(q) : q[i] = call
    BY <1>5 DEF Has
  <2>2. CASE i = 1
    BY <1>1, <2>1, <2>2
  <2>3. CASE i - 1 \in 1 .. Len(t)
    <3>1. t[i - 1] = call
      BY <1>1, <1>3, <2>1, <2>3
    <3>2. QED
      BY <2>3, <3>1 DEF Has
  <2>4. QED
    BY <1>4, <2>2, <2>3
<1>6. ASSUME NEW call, Has(t, call)
      PROVE  Has(q, call)
  BY <1>1, <1>3, <1>6 DEF Has
<1>7. ASSUME NEW call, NEW other, Followed(q, call, other)
      PROVE  Followed(t, call, other)
  <2>1. SUFFICES ASSUME NEW i \in 1 .. Len(t), t[i] = call
                 PROVE  \E j \in i + 1 .. Len(t) : t[j] = other
    BY DEF Followed
  <2>2. i + 1 \in 1 .. Len(q) /\ q[i + 1] = call
    BY <1>1, <1>3, <2>1
  <2>3. PICK j \in i + 2 .. Len(q) : q[j] = other
    BY <1>1, <1>7, <2>2 DEF Followed
  <2>4. j - 1 \in i + 1 .. Len(t) /\ t[j - 1] = other
    BY <1>1, <1>3, <2>3
  <2>5. QED
    BY <2>4
<1>8. ASSUME NEW call, NEW other, Followed(q, call, other), Head(q) = call
      PROVE  Has(t, other)
  <2>1. PICK j \in 1 + 1 .. Len(q) : q[j] = other
    BY <1>1, <1>8 DEF Followed
  <2>2. j - 1 \in 1 .. Len(t) /\ t[j - 1] = other
    BY <1>1, <1>3, <2>1
  <2>3. QED
    BY <2>2 DEF Has
<1>9. NoJoin(q) => NoJoin(t) /\ Head(q).kind # "join"
  BY <1>1, <1>3 DEF NoJoin
<1>10. ASSUME NEW now, NEW ids, Told(q, now, ids), NEW new,
              new = IF IsPublication(Head(q)) THEN Head(q).ids ELSE now
       PROVE  Told(t, new, ids)
  <2>1. ASSUME NEW i \in 1 .. Len(t), IsPublication(t[i]),
               \A j \in i + 1 .. Len(t) : ~IsPublication(t[j])
        PROVE  t[i].ids = ids
    <3>1. i + 1 \in 1 .. Len(q) /\ q[i + 1] = t[i]
      BY <1>1, <1>3, <2>1
    <3>2. \A j \in i + 2 .. Len(q) : ~IsPublication(q[j])
      <4>1. \A j \in i + 2 .. Len(q) : j - 1 \in i + 1 .. Len(t) /\ t[j - 1] = q[j]
        BY <1>1, <1>3, <2>1
      <4>2. QED
        BY <2>1, <4>1
    <3>3. QED
      BY <1>10, <2>1, <3>1, <3>2 DEF Told
  <2>2. ASSUME \A i \in 1 .. Len(t) : ~IsPublication(t[i])
        PROVE  new = ids
    <3>1. \A i \in 1 + 1 .. Len(q) : ~IsPublication(q[i])
      <4>1. \A i \in 1 + 1 .. Len(q) : i - 1 \in 1 .. Len(t) /\ t[i - 1] = q[i]
        BY <1>1, <1>3
      <4>2. QED
        BY <2>2, <4>1
    <3>2. CASE IsPublication(Head(q))
      BY <1>1, <1>10, <3>1, <3>2 DEF Told
    <3>3. CASE ~IsPublication(Head(q))
      <4>1. \A i \in 1 .. Len(q) : ~IsPublication(q[i])
        BY <1>1, <3>1, <3>3
      <4>2. QED
        BY <1>10, <3>3, <4>1 DEF Told
    <3>4. QED
      BY <3>2, <3>3
  <2>3. QED
    BY <2>1, <2>2 DEF Told
<1>11. QED
  BY <1>1, <1>2, <1>5, <1>6, <1>7, <1>8, <1>9, <1>10

\* Calls follow.
LEMMA SentCalls ==
  ASSUME NEW q \in Seq(Calls), NEW more \in Seq(Calls), NEW new, new = q \o more
  PROVE  /\ new \in Seq(Calls)
         /\ \A call : Has(new, call) <=> Has(q, call) \/ Has(more, call)
         /\ \A call, other : ~Has(more, call) /\ (Followed(q, call, other) \/ Has(more, other))
                               => Followed(new, call, other)
         /\ NoJoin(q) /\ NoJoin(more) => NoJoin(new)
         /\ \A now, ids : Told(q, now, ids) /\ (\A i \in 1 .. Len(more) : ~IsPublication(more[i]))
                            => Told(new, now, ids)
<1>1. /\ Len(q) \in Nat /\ Len(more) \in Nat /\ new \in Seq(Calls)
      /\ Len(new) = Len(q) + Len(more)
      /\ \A i \in 1 .. Len(q) : new[i] = q[i]
      /\ \A i \in 1 .. Len(more) : new[Len(q) + i] = more[i]
  OBVIOUS
<1>2. \A i \in 1 .. Len(new) :
        i \in 1 .. Len(q) \/ (i - Len(q) \in 1 .. Len(more) /\ new[i] = more[i - Len(q)])
  <2>1. \A i \in 1 .. Len(new) : i \in 1 .. Len(q) \/ (i - Len(q) \in 1 .. Len(more) /\ Len(q) + (i - Len(q)) = i)
    BY <1>1
  <2>2. ASSUME NEW i \in 1 .. Len(new), i - Len(q) \in 1 .. Len(more), Len(q) + (i - Len(q)) = i
        PROVE  new[i] = more[i - Len(q)]
    <3>1. new[Len(q) + (i - Len(q))] = more[i - Len(q)]
      BY <1>1, <2>2
    <3>2. QED
      BY <2>2, <3>1
  <2>3. QED
    BY <2>1, <2>2
<1>3. ASSUME NEW call
      PROVE  Has(new, call) <=> Has(q, call) \/ Has(more, call)
  <2>1. Has(new, call) => Has(q, call) \/ Has(more, call)
    BY <1>1, <1>2 DEF Has
  <2>2. Has(q, call) => Has(new, call)
    BY <1>1 DEF Has
  <2>3. ASSUME Has(more, call) PROVE Has(new, call)
    <3>1. PICK i \in 1 .. Len(more) : more[i] = call
      BY <2>3 DEF Has
    <3>2. Len(q) + i \in 1 .. Len(new) /\ new[Len(q) + i] = call
      BY <1>1, <3>1
    <3>3. QED
      BY <3>2 DEF Has
  <2>4. QED
    BY <2>1, <2>2, <2>3
<1>4. ASSUME NEW call, NEW other, ~Has(more, call), Followed(q, call, other) \/ Has(more, other)
      PROVE  Followed(new, call, other)
  <2>1. SUFFICES ASSUME NEW i \in 1 .. Len(new), new[i] = call
                 PROVE  \E j \in i + 1 .. Len(new) : new[j] = other
    BY DEF Followed
  <2>2. i \in 1 .. Len(q) /\ q[i] = call
    BY <1>1, <1>2, <1>4, <2>1 DEF Has
  <2>3. CASE Has(more, other)
    <3>1. PICK j \in 1 .. Len(more) : more[j] = other
      BY <2>3 DEF Has
    <3>2. Len(q) + j \in i + 1 .. Len(new) /\ new[Len(q) + j] = other
      BY <1>1, <2>2, <3>1
    <3>3. QED
      BY <3>2
  <2>4. CASE Followed(q, call, other)
    <3>1. PICK j \in i + 1 .. Len(q) : q[j] = other
      BY <2>2, <2>4 DEF Followed
    <3>2. j \in i + 1 .. Len(new) /\ new[j] = other
      BY <1>1, <2>2, <3>1
    <3>3. QED
      BY <3>2
  <2>5. QED
    BY <1>4, <2>3, <2>4
<1>5. NoJoin(q) /\ NoJoin(more) => NoJoin(new)
  BY <1>1, <1>2 DEF NoJoin
<1>6. ASSUME NEW now, NEW ids, Told(q, now, ids), \A i \in 1 .. Len(more) : ~IsPublication(more[i])
      PROVE  Told(new, now, ids)
  <2>1. \A i \in 1 .. Len(new) : IsPublication(new[i]) => i \in 1 .. Len(q) /\ new[i] = q[i]
    BY <1>1, <1>2, <1>6
  <2>2. \A i \in 1 .. Len(q) : i \in 1 .. Len(new) /\ new[i] = q[i]
    BY <1>1
  <2>3. ASSUME NEW i \in 1 .. Len(new), IsPublication(new[i]),
               \A j \in i + 1 .. Len(new) : ~IsPublication(new[j])
        PROVE  new[i].ids = ids
    <3>1. i \in 1 .. Len(q) /\ new[i] = q[i]
      BY <2>1, <2>3
    <3>2. \A j \in i + 1 .. Len(q) : ~IsPublication(q[j])
      BY <1>1, <2>2, <2>3
    <3>3. QED
      BY <1>6, <2>3, <3>1, <3>2 DEF Told
  <2>4. ASSUME \A i \in 1 .. Len(new) : ~IsPublication(new[i])
        PROVE  now = ids
    BY <1>6, <2>2, <2>4 DEF Told
  <2>5. QED
    BY <2>3, <2>4 DEF Told
<1>7. QED
  BY <1>1, <1>3, <1>4, <1>5, <1>6

\* The last call is a publication.
LEMMA LastIsTold ==
  ASSUME NEW q \in Seq(Calls), NEW call \in Calls, IsPublication(call), NEW new, new = q \o <<call>>
  PROVE  \A now : Told(new, now, call.ids)
<1>1. /\ Len(q) \in Nat /\ Len(new) = Len(q) + 1 /\ new[Len(q) + 1] = call
      /\ \A i \in 1 .. Len(q) : new[i] = q[i]
  OBVIOUS
<1>2. Len(q) + 1 \in 1 .. Len(new)
  BY <1>1
<1>3. \A i \in 1 .. Len(new) : i = Len(q) + 1 \/ Len(q) + 1 \in i + 1 .. Len(new)
  BY <1>1
<1>4. QED
  BY <1>1, <1>2, <1>3 DEF Told

-----------------------------------------------------------------------------
(* The calls                                                               *)

\* What a call is.
LEMMA CallFacts ==
  /\ Join \in Calls /\ Join.kind = "join"
  /\ \A ids \in SUBSET Elements :
       /\ Publish(ids) \in Calls /\ Publish(ids).kind = "select" /\ Publish(ids).ids = ids
       /\ Replay(ids) \in Calls /\ Replay(ids).kind = "replay" /\ Replay(ids).ids = ids
  /\ \A e \in Elements :
       /\ Claim(e) \in Calls /\ Claim(e).kind = "claim" /\ Claim(e).element = e
       /\ Release(e) \in Calls /\ Release(e).kind = "release" /\ Release(e).element = e
BY DEF Calls, Join, Publish, Replay, Claim, Release

\* And nothing else is.
LEMMA CallCases ==
  ASSUME NEW call \in Calls
  PROVE  \/ call = Join
         \/ \E ids \in SUBSET Elements : call = Publish(ids) \/ call = Replay(ids)
         \/ \E e \in Elements : call = Claim(e) \/ call = Release(e)
BY DEF Calls

\* A call that may be missing.
LEMMA MaybeCalls ==
  ASSUME NEW x
  PROVE  /\ x = None => /\ Maybe(Claim, x) = <<>> /\ Maybe(Release, x) = <<>>
                        /\ Maybe(Publish, x) = <<>>
         /\ x # None => /\ Maybe(Claim, x) = <<Claim(x)>> /\ Maybe(Release, x) = <<Release(x)>>
                        /\ Maybe(Publish, x) = <<Publish(x)>>
BY DEF Maybe

\* The sole element is one, or none.
LEMMA SoleIsElement ==
  ASSUME NEW ids
  PROVE  Sole(ids) \in Elements \cup {None}
BY DEF Sole

\* One call, or none, at the end.
LEMMA OneCall ==
  ASSUME NEW call \in Calls
  PROVE  /\ <<call>> \in Seq(Calls) /\ \A other : Has(<<call>>, other) <=> other = call
         /\ call.kind # "join" => NoJoin(<<call>>)
         /\ ~IsPublication(call) => \A i \in 1 .. Len(<<call>>) : ~IsPublication(<<call>>[i])
         /\ <<>> \in Seq(Calls) /\ (\A other : ~Has(<<>>, other)) /\ NoJoin(<<>>)
         /\ \A i \in 1 .. Len(<<>>) : ~IsPublication(<<>>[i])
BY DEF Has, NoJoin

-----------------------------------------------------------------------------
(* The steps of the editor and of the connection                           *)

\* Nothing happens to the connections.
LEMMA ConnectionsStay ==
  ASSUME ConnectionsInv, UNCHANGED <<link, conn, refreshes, outages, wire, lost, left, session, holder>>
  PROVE  ConnectionsInv'
BY DEF ConnectionsInv, Up, Untouched, Newest

\* Nor to the calls and to what they are judged by.
LEMMA CallsStay ==
  ASSUME CallsInv, UNCHANGED <<link, conn, chain, connectionId, selectionTimer, selectedIds, claimedRef,
                               refreshes, granted, wire, session, selection, holder>>
  PROVE  CallsInv'
BY DEF CallsInv, PublicationsInv, LocksInv

\* Initially nothing is connected, and both timers run.
LEMMA InitBroadcast ==
  ASSUME Init
  PROVE  BroadcastInv
<1>1. Sole({}) = None
  BY DEF Sole
<1>2. BroadcastTypes
  <2>1. waiting = [rdl |-> waiting.rdl, ids |-> waiting.ids] /\ waiting.ids = None
    BY DEF Init, Nothing
  <2>2. /\ session \in [Connections -> {Session, None}]
        /\ selection \in [Connections -> SUBSET Elements]
        /\ holder \in [{Session} -> [Elements -> Connections \cup {None}]]
    BY DEF Init, presence!NobodyPresent
  <2>3. wire \in [Connections -> Seq(Calls)]
    BY DEF Init
  <2>4. refreshes \in 0 .. MaxRefreshes /\ outages \in 0 .. MaxOutages /\ rdl \in Nat
    BY BroadcastAssumption DEF Init
  <2>5. lost \in [Connections -> BOOLEAN] /\ left \in [Connections -> BOOLEAN]
    BY DEF Init
  <2>6. QED
    BY <2>1, <2>2, <2>3, <2>4, <2>5 DEF Init, BroadcastTypes, Links, Chains
<1>3. ConnectionsInv
  BY DEF Init, ConnectionsInv, Untouched, Up, Newest, presence!NobodyPresent
<1>4. EditorInv /\ CallsInv
  BY <1>1 DEF Init, EditorInv, CallsInv
<1>5. QED
  BY <1>2, <1>3, <1>4 DEF BroadcastInv

\* The document changes.
LEMMA EditStep ==
  ASSUME BroadcastInv, Edit
  PROVE  BroadcastInv'
<1>1. BroadcastTypes'
  BY DEF BroadcastInv, BroadcastTypes, Edit, hub, refs, bounds, server, registry
<1>2. ConnectionsInv'
  BY ConnectionsStay DEF BroadcastInv, Edit, hub, refs, bounds, server, registry
<1>3. EditorInv'
  BY DEF BroadcastInv, EditorInv, Edit, hub, refs, bounds, server, registry
<1>4. CallsInv'
  BY CallsStay DEF BroadcastInv, Edit, hub, refs, bounds, server, registry
<1>5. QED
  BY <1>1, <1>2, <1>3, <1>4 DEF BroadcastInv

\* The document is pushed, or waits to be.
LEMMA PushStep ==
  ASSUME BroadcastInv, PushSettled
  PROVE  BroadcastInv'
<1>1. /\ pushTimer' = FALSE
      /\ UNCHANGED <<rdl, selectedIds, claimedRef, selectionTimer, link, conn, ready, chain, heldRef,
                     connectionId, selects, refreshes, outages, wire, lost, left, granted,
                     session, selection, holder>>
      /\ waiting' = waiting \/ waiting' = [waiting EXCEPT !.rdl = rdl]
  BY DEF PushSettled, editor, refs, bounds, registry
<1>2. /\ waiting' = [rdl |-> waiting'.rdl, ids |-> waiting'.ids] /\ waiting'.ids = waiting.ids
      /\ ~ready => waiting'.rdl = rdl
  BY <1>1 DEF BroadcastInv, BroadcastTypes, PushSettled
<1>3. BroadcastTypes'
  BY <1>1, <1>2 DEF BroadcastInv, BroadcastTypes
<1>4. ConnectionsInv' /\ CallsInv'
  BY <1>1, ConnectionsStay, CallsStay DEF BroadcastInv
<1>5. outages = 0 /\ ready => pushed' = rdl
  BY BroadcastAssumption DEF BroadcastInv, BroadcastTypes, EditorInv, PushSettled, InvokePush
<1>6. EditorInv'
  BY <1>1, <1>2, <1>5 DEF BroadcastInv, EditorInv
<1>7. QED
  BY <1>3, <1>4, <1>6 DEF BroadcastInv

\* A connection that is given up.
LEMMA GaveUpStep ==
  ASSUME BroadcastInv, GaveUp
  PROVE  BroadcastInv'
<1>1. /\ link = "reconnecting" /\ link' = "closed"
      /\ UNCHANGED <<rdl, selectedIds, claimedRef, pushTimer, selectionTimer, conn, ready, waiting, chain,
                     heldRef, connectionId, selects, refreshes, outages, wire, lost, left, pushed,
                     granted, session, selection, holder>>
  BY DEF GaveUp, editor, timers, refs, bounds, server, registry
<1>2. BroadcastTypes'
  BY <1>1 DEF BroadcastInv, BroadcastTypes, Links
<1>3. ConnectionsInv'
  BY <1>1 DEF BroadcastInv, ConnectionsInv, Up, Untouched, Newest
<1>4. EditorInv' /\ CallsInv'
  BY <1>1 DEF BroadcastInv, EditorInv, CallsInv
<1>5. QED
  BY <1>2, <1>3, <1>4 DEF BroadcastInv

\* A start that fails.
LEMMA StartFailedStep ==
  ASSUME BroadcastInv, StartFailed
  PROVE  BroadcastInv'
<1>1. /\ link = "starting" /\ link' = "closed" /\ outages < MaxOutages /\ outages' = outages + 1
      /\ ready' = TRUE /\ waiting' = Nothing
      /\ UNCHANGED <<rdl, selectedIds, claimedRef, pushTimer, selectionTimer, conn, chain,
                     heldRef, connectionId, selects, refreshes, wire, lost, left, pushed,
                     granted, session, selection, holder>>
  BY DEF StartFailed, editor, timers, refs, server, registry
<1>2. refreshes \in Nat /\ outages \in Nat /\ outages' \in 0 .. MaxOutages
  BY <1>1, BroadcastAssumption DEF BroadcastInv, BroadcastTypes
<1>3. BroadcastTypes'
  BY <1>1, <1>2 DEF BroadcastInv, BroadcastTypes, Links, Nothing
<1>4. ConnectionsInv'
  BY <1>1, <1>2 DEF BroadcastInv, ConnectionsInv, Up, Untouched, Newest, Connections
<1>5. EditorInv' /\ CallsInv'
  BY <1>1, <1>2 DEF BroadcastInv, EditorInv, CallsInv
<1>6. QED
  BY <1>3, <1>4, <1>5 DEF BroadcastInv

\* A connection that fails.
LEMMA DroppedStep ==
  ASSUME BroadcastInv, Dropped
  PROVE  BroadcastInv'
<1>1. /\ link = "connected" /\ link' = "reconnecting" /\ outages < MaxOutages /\ outages' = outages + 1
      /\ ready' = TRUE /\ waiting' = Nothing /\ chain' = "none" /\ pushed' = None
      /\ lost' = [c \in Connections |-> lost[c] \/ c = conn]
      /\ UNCHANGED <<rdl, selectedIds, claimedRef, pushTimer, selectionTimer, conn,
                     heldRef, connectionId, selects, refreshes, wire, left,
                     granted, session, selection, holder>>
  BY DEF Dropped, Lose, editor, timers, refs, registry
<1>2. refreshes \in Nat /\ outages \in Nat /\ outages' \in 0 .. MaxOutages
  BY <1>1, BroadcastAssumption DEF BroadcastInv, BroadcastTypes
<1>3. BroadcastTypes'
  <2>1. lost' \in [Connections -> BOOLEAN]
    BY <1>1 DEF BroadcastInv, BroadcastTypes
  <2>2. QED
    BY <1>1, <1>2, <2>1 DEF BroadcastInv, BroadcastTypes, Links, Nothing, Chains
<1>4. ConnectionsInv'
  <2>1. \A c \in Connections : lost'[c] <=> lost[c] \/ c = conn
    BY <1>1
  <2>2. \A c \in Connections : Untouched(c)' \/ (lost'[c] /\ c < Newest')
    <3>1. SUFFICES ASSUME NEW c \in Connections
                   PROVE  Untouched(c)' \/ (lost'[c] /\ c < Newest')
      OBVIOUS
    <3>2. CASE c = conn
      BY <1>1, <1>2, <2>1, <3>2 DEF BroadcastInv, ConnectionsInv, Newest, Connections
    <3>3. CASE c # conn
      BY <1>1, <1>2, <2>1, <3>3 DEF BroadcastInv, ConnectionsInv, Up, Untouched, Newest, Connections
    <3>4. QED
      BY <3>2, <3>3
  <2>3. conn < Newest'
    BY <1>1, <1>2 DEF BroadcastInv, ConnectionsInv, Newest
  <2>4. conn \in Connections
    BY <1>1, <1>2, BroadcastAssumption DEF BroadcastInv, BroadcastTypes, ConnectionsInv, Newest
  <2>5. QED
    BY <1>1, <2>1, <2>2, <2>3, <2>4 DEF BroadcastInv, ConnectionsInv
<1>5. EditorInv' /\ CallsInv'
  BY <1>1, <1>2 DEF BroadcastInv, EditorInv, CallsInv
<1>6. QED
  BY <1>3, <1>4, <1>5 DEF BroadcastInv

\* A new access token.
LEMMA RefreshStep ==
  ASSUME BroadcastInv, RefreshToken
  PROVE  BroadcastInv'
<1>1. /\ refreshes < MaxRefreshes /\ refreshes' = refreshes + 1
      /\ link' = "starting" /\ conn' = None /\ ready' = FALSE /\ waiting' = Nothing /\ chain' = "none"
      /\ heldRef' = None /\ connectionId' = None /\ pushTimer' = TRUE /\ selectionTimer' = TRUE
      /\ lost' = [c \in Connections |-> lost[c] \/ c = conn]
      /\ UNCHANGED <<rdl, selectedIds, claimedRef, selects, outages, wire, left, granted,
                     session, selection, holder>>
  BY DEF RefreshToken, Lose, editor, registry
<1>2. refreshes \in Nat /\ outages \in Nat /\ refreshes' \in 0 .. MaxRefreshes
  BY <1>1, BroadcastAssumption DEF BroadcastInv, BroadcastTypes
<1>3. BroadcastTypes'
  <2>1. lost' \in [Connections -> BOOLEAN]
    BY <1>1 DEF BroadcastInv, BroadcastTypes
  <2>2. QED
    BY <1>1, <1>2, <2>1 DEF BroadcastInv, BroadcastTypes, Links, Nothing, Chains
<1>4. ConnectionsInv'
  <2>1. \A c \in Connections : lost'[c] <=> lost[c] \/ c = conn
    BY <1>1
  <2>2. \A c \in Connections : Untouched(c)' \/ (lost'[c] /\ c < Newest')
    <3>1. SUFFICES ASSUME NEW c \in Connections
                   PROVE  Untouched(c)' \/ (lost'[c] /\ c < Newest')
      OBVIOUS
    <3>2. CASE Up(c)
      BY <1>1, <1>2, <2>1, <3>2 DEF BroadcastInv, ConnectionsInv, Up, Newest, Connections
    <3>3. CASE ~Up(c) /\ lost[c] /\ c < Newest
      BY <1>1, <1>2, <2>1, <3>3 DEF Newest, Connections
    <3>4. CASE ~Up(c) /\ Untouched(c) /\ c # conn
      BY <1>1, <2>1, <3>4 DEF Untouched
    <3>5. CASE ~Up(c) /\ Untouched(c) /\ c = conn
      <4>1. conn # None /\ link # "connected" /\ ~lost[conn]
        BY <3>5, BroadcastAssumption DEF Up, Untouched, Connections
      <4>2. QED
        BY <4>1 DEF BroadcastInv, ConnectionsInv
    <3>6. QED
      BY <3>2, <3>3, <3>4, <3>5 DEF BroadcastInv, ConnectionsInv
  <2>3. QED
    BY <1>1, <2>1, <2>2 DEF BroadcastInv, ConnectionsInv
<1>5. EditorInv' /\ CallsInv'
  BY <1>1, <1>2 DEF BroadcastInv, EditorInv, CallsInv
<1>6. QED
  BY <1>3, <1>4, <1>5 DEF BroadcastInv

\* What is never sent needs no answer.
LEMMA NeverSent ==
  ASSUME NEW q, NEW call, ~Has(q, call), NEW other
  PROVE  Followed(q, call, other)
BY DEF Has, Followed

\* The join stays the first call.
LEMMA JoinStaysFirst ==
  ASSUME NEW q \in Seq(Calls), q # <<>>, Head(q) = Join, NoJoin(Tail(q)),
         NEW more \in Seq(Calls), NoJoin(more), NEW new, new = q \o more
  PROVE  new # <<>> /\ Head(new) = Join /\ NoJoin(Tail(new))
<1>1. /\ Len(q) \in Nat \ {0} /\ Len(more) \in Nat /\ Head(q) = q[1] /\ Tail(q) \in Seq(Calls)
      /\ Len(Tail(q)) = Len(q) - 1 /\ \A i \in 1 .. Len(q) - 1 : Tail(q)[i] = q[i + 1]
  OBVIOUS
<1>2. /\ new \in Seq(Calls) /\ Len(new) = Len(q) + Len(more)
      /\ \A i \in 1 .. Len(q) : new[i] = q[i]
      /\ \A i \in 1 .. Len(more) : new[Len(q) + i] = more[i]
  OBVIOUS
<1>3. PICK t : t = Tail(new)
  OBVIOUS
<1>4. new # <<>> /\ Head(new) = Join /\ Len(t) = Len(new) - 1 /\ \A i \in 1 .. Len(t) : t[i] = new[i + 1]
  BY <1>1, <1>2, <1>3
<1>5. ASSUME NEW i \in 1 .. Len(t)
      PROVE  t[i].kind # "join"
  <2>1. CASE i \in 1 .. Len(Tail(q))
    <3>1. t[i] = Tail(q)[i]
      BY <1>1, <1>2, <1>4, <2>1
    <3>2. QED
      BY <2>1, <3>1 DEF NoJoin
  <2>2. CASE i \notin 1 .. Len(Tail(q))
    <3>1. i + 1 - Len(q) \in 1 .. Len(more) /\ Len(q) + (i + 1 - Len(q)) = i + 1
      BY <1>1, <1>2, <1>4, <2>2
    <3>2. new[Len(q) + (i + 1 - Len(q))] = more[i + 1 - Len(q)]
      BY <1>2, <3>1
    <3>3. t[i] = more[i + 1 - Len(q)]
      BY <1>4, <3>1, <3>2
    <3>4. QED
      BY <3>1, <3>3 DEF NoJoin
  <2>3. QED
    BY <2>1, <2>2
<1>6. QED
  BY <1>3, <1>4, <1>5 DEF NoJoin

\* The connection is up.
LEMMA OpenStep ==
  ASSUME BroadcastInv, NEW from, NEW awaiting, Open(from, awaiting),
         \/ from = "starting" /\ awaiting = "start"
         \/ from = "reconnecting" /\ awaiting = "join"
  PROVE  BroadcastInv'
<1>1. /\ link = from /\ link' = "connected" /\ conn' = Newest /\ chain' = awaiting
      /\ wire' = [wire EXCEPT ![Newest] = <<Join>>]
      /\ UNCHANGED <<rdl, selectedIds, claimedRef, pushTimer, selectionTimer, ready, waiting,
                     heldRef, connectionId, selects, refreshes, outages, lost, left, pushed,
                     granted, session, selection, holder>>
  BY DEF Open, Newest, editor, timers, refs, bounds, server, registry
<1>2. refreshes \in Nat /\ outages \in Nat /\ Newest \in Connections /\ Newest # None
  BY BroadcastAssumption DEF BroadcastInv, BroadcastTypes, Newest, Connections
<1>3. Untouched(Newest)
  <2>1. ~Up(Newest) /\ ~(Newest < Newest)
    BY <1>1, <1>2 DEF Up, Connections
  <2>2. QED
    BY <1>2, <2>1 DEF BroadcastInv, ConnectionsInv
<1>4. /\ Join \in Calls /\ <<Join>> \in Seq(Calls) /\ <<Join>> # <<>> /\ Head(<<Join>>) = Join
      /\ NoJoin(Tail(<<Join>>)) /\ \A e \in Elements : Claim(e) # Join /\ Release(e) # Join
  <2>1. Join \in Calls /\ \A e \in Elements : Claim(e) # Join /\ Release(e) # Join
    BY CallFacts
  <2>2. PICK join : join = Join
    OBVIOUS
  <2>3. Tail(<<join>>) = <<>> /\ <<join>> # <<>> /\ Head(<<join>>) = join
    OBVIOUS
  <2>4. <<join>> \in Seq(Calls) /\ NoJoin(<<>>)
    BY <2>1, <2>2, OneCall
  <2>5. QED
    BY <2>1, <2>2, <2>3, <2>4
<1>5. wire'[Newest] = <<Join>> /\ \A c \in Connections \ {Newest} : wire'[c] = wire[c]
  BY <1>1, <1>2 DEF BroadcastInv, BroadcastTypes
<1>6. BroadcastTypes'
  <2>1. wire' \in [Connections -> Seq(Calls)]
    BY <1>1, <1>4 DEF BroadcastInv, BroadcastTypes
  <2>2. QED
    BY <1>1, <1>2, <2>1 DEF BroadcastInv, BroadcastTypes, Links, Chains
<1>7. ConnectionsInv'
  <2>1. \A c \in Connections : ~Up(c)' => Untouched(c)' \/ (lost'[c] /\ c < Newest')
    <3>1. SUFFICES ASSUME NEW c \in Connections, c # Newest
                   PROVE  Untouched(c)' \/ (lost'[c] /\ c < Newest')
      BY <1>1 DEF Up
    <3>2. ~Up(c)
      BY <1>1 DEF Up
    <3>3. Untouched(c) \/ (lost[c] /\ c < Newest)
      BY <3>2 DEF BroadcastInv, ConnectionsInv
    <3>4. QED
      BY <1>1, <1>5, <3>1, <3>3 DEF Untouched, Newest
  <2>2. \A c \in Connections : left[c] => wire'[c] = wire[c]
    BY <1>3, <1>5 DEF Untouched
  <2>3. ~lost[Newest]
    BY <1>3 DEF Untouched
  <2>4. Newest' = Newest
    BY <1>1 DEF Newest
  <2>5. QED
    BY <1>1, <1>2, <2>1, <2>2, <2>3, <2>4 DEF BroadcastInv, ConnectionsInv
<1>8. EditorInv'
  BY <1>1 DEF BroadcastInv, EditorInv
<1>9. CallsInv'
  <2>1. PICK q : q = wire'[Newest]
    OBVIOUS
  <2>2. \A e \in Elements : ~Has(q, Claim(e)) /\ ~Has(q, Release(e))
    BY <1>4, <1>5, <2>1, OneCall
  <2>3. \A e \in Elements : holder[Session][e] # Newest
    BY <1>2, <1>3, BroadcastAssumption DEF BroadcastInv, ConnectionsInv, Untouched
  <2>4. session[Newest] = None
    BY <1>3 DEF Untouched
  <2>5. PublicationsInv(q)'
    BY <1>1, <1>4, <1>5, <2>1, <2>4 DEF PublicationsInv
  <2>6. claimedRef \in Elements \cup {None}
    BY DEF BroadcastInv, BroadcastTypes
  <2>7. LocksInv(q)'
    BY <1>1, <2>2, <2>3, <2>6, NeverSent DEF LocksInv
  <2>8. QED
    BY <1>1, <2>1, <2>5, <2>7 DEF CallsInv
<1>10. QED
  BY <1>6, <1>7, <1>8, <1>9 DEF BroadcastInv

\* Calls are sent on a connection that is up.
LEMMA Invoked ==
  ASSUME BroadcastInv, NEW calls \in Seq(Calls), Invoke(calls)
  PROVE  /\ wire' \in [Connections -> Seq(Calls)]
         /\ \A c \in Connections : ~Up(c) => wire'[c] = wire[c]
         /\ link = "connected" => conn \in Connections /\ wire'[conn] = wire[conn] \o calls
<1>1. wire \in [Connections -> Seq(Calls)]
  BY DEF BroadcastInv, BroadcastTypes
<1>2. CASE link # "connected"
  BY <1>1, <1>2 DEF Invoke
<1>3. CASE link = "connected"
  <2>1. conn \in Connections
    BY <1>3, BroadcastAssumption DEF BroadcastInv, BroadcastTypes, ConnectionsInv, Newest
  <2>2. wire[conn] \o calls \in Seq(Calls)
    BY <1>1, <2>1
  <2>3. wire' = [wire EXCEPT ![conn] = wire[conn] \o calls]
    BY <1>3 DEF Invoke
  <2>4. QED
    BY <1>1, <1>3, <2>1, <2>2, <2>3 DEF Up
<1>4. QED
  BY <1>2, <1>3

\* That leaves the connections as they are.
LEMMA InvokedConnections ==
  ASSUME BroadcastInv, NEW calls \in Seq(Calls), Invoke(calls),
         UNCHANGED <<link, conn, refreshes, outages, lost, left, session, holder>>
  PROVE  ConnectionsInv'
<1>1. \A c \in Connections : ~Up(c) => wire'[c] = wire[c]
  BY Invoked
<1>2. \A c \in Connections : left[c] => ~Up(c)
  BY DEF BroadcastInv, ConnectionsInv, Up
<1>3. \A c \in Connections : (Up(c)' <=> Up(c)) /\ (~Up(c) => (Untouched(c)' <=> Untouched(c)))
  BY <1>1 DEF Up, Untouched
<1>4. Newest' = Newest
  BY DEF Newest
<1>5. QED
  BY <1>1, <1>2, <1>3, <1>4 DEF BroadcastInv, ConnectionsInv

\* And the join first on its way.
LEMMA InvokedPublications ==
  ASSUME BroadcastInv, link = "connected", NEW calls \in Seq(Calls), Invoke(calls), NoJoin(calls),
         UNCHANGED <<link, conn, chain, connectionId, session, selection>>,
         NEW new, new = wire[conn] \o calls,
         chain \in {"none", "select"} /\ ~selectionTimer' => Told(new, selection[conn], selectedIds')
  PROVE  PublicationsInv(new)'
<1>1. PICK q : q = wire[conn]
  OBVIOUS
<1>2. q \in Seq(Calls) /\ new = q \o calls
  BY <1>1, Invoked DEF BroadcastInv, BroadcastTypes
<1>3. PublicationsInv(q)
  BY <1>1 DEF BroadcastInv, CallsInv
<1>4. chain \in {"start", "join"} => new # <<>> /\ Head(new) = Join /\ NoJoin(Tail(new))
  BY <1>2, <1>3, JoinStaysFirst DEF PublicationsInv
<1>5. NoJoin(q) => NoJoin(new)
  BY <1>2, SentCalls
<1>6. QED
  BY <1>3, <1>4, <1>5 DEF PublicationsInv

\* The selection is published, or waits to be.
LEMMA SelectionSettledStep ==
  ASSUME BroadcastInv, SelectionSettled
  PROVE  BroadcastInv'
<1>1. /\ selectionTimer' = FALSE
      /\ UNCHANGED <<rdl, selectedIds, claimedRef, pushTimer, link, conn, ready, chain, heldRef,
                     connectionId, selects, refreshes, outages, lost, left, pushed, granted,
                     session, selection, holder>>
      /\ \/ ready /\ Invoke(<<Publish(selectedIds)>>) /\ UNCHANGED waiting
         \/ ~ready /\ waiting' = [waiting EXCEPT !.ids = selectedIds] /\ UNCHANGED wire
  BY DEF SelectionSettled, editor, refs, bounds, server, registry
<1>2. PICK call : call = Publish(selectedIds)
  OBVIOUS
<1>3. /\ call \in Calls /\ call.kind = "select" /\ IsPublication(call) /\ call.ids = selectedIds
      /\ \A e \in Elements : call # Claim(e) /\ call # Release(e)
  BY <1>2, CallFacts DEF BroadcastInv, BroadcastTypes, IsPublication
<1>4. /\ waiting' = [rdl |-> waiting'.rdl, ids |-> waiting'.ids] /\ waiting'.rdl = waiting.rdl
      /\ waiting'.ids \in {waiting.ids, selectedIds} /\ (~ready => waiting'.ids = selectedIds)
  BY <1>1 DEF BroadcastInv, BroadcastTypes
<1>5. EditorInv'
  BY <1>1, <1>4 DEF BroadcastInv, EditorInv
<1>6. CASE ready /\ Invoke(<<Publish(selectedIds)>>)
  <2>1. <<call>> \in Seq(Calls) /\ Invoke(<<call>>) /\ NoJoin(<<call>>)
        /\ \A other : Has(<<call>>, other) <=> other = call
    BY <1>2, <1>3, <1>6, OneCall
  <2>2. /\ wire' \in [Connections -> Seq(Calls)]
        /\ link = "connected" => conn \in Connections /\ wire'[conn] = wire[conn] \o <<call>>
    BY <2>1, Invoked
  <2>3. BroadcastTypes'
    BY <1>1, <1>4, <2>2 DEF BroadcastInv, BroadcastTypes
  <2>4. ConnectionsInv'
    BY <1>1, <2>1, InvokedConnections
  <2>5. CallsInv'
    <3>1. SUFFICES ASSUME link = "connected", NEW new, new = wire[conn] \o <<call>>
                   PROVE  PublicationsInv(new)' /\ LocksInv(new)'
      BY <1>1, <2>2 DEF CallsInv
    <3>2. PICK q : q = wire[conn]
      OBVIOUS
    <3>3. q \in Seq(Calls) /\ new = q \o <<call>> /\ LocksInv(q)
      BY <2>2, <3>1, <3>2 DEF BroadcastInv, BroadcastTypes, CallsInv
    <3>4. \A now : Told(new, now, call.ids)
      BY <1>3, <3>3, LastIsTold
    <3>5. PublicationsInv(new)'
      <4>1. Told(new, selection[conn], selectedIds')
        BY <1>1, <1>3, <3>4
      <4>2. QED
        BY <1>1, <2>1, <3>1, <4>1, InvokedPublications
    <3>6. /\ \A e \in Elements : (Has(new, Claim(e)) <=> Has(q, Claim(e)))
                                 /\ (Has(new, Release(e)) <=> Has(q, Release(e)))
          /\ \A e \in Elements : /\ Followed(q, Claim(e), Release(e)) => Followed(new, Claim(e), Release(e))
                                 /\ Followed(q, Release(e), Claim(e)) => Followed(new, Release(e), Claim(e))
      BY <1>3, <2>1, <3>3, SentCalls
    <3>7. LocksInv(new)'
      <4>1. claimedRef \in Elements \cup {None} /\ granted => claimedRef # None
        BY DEF BroadcastInv, BroadcastTypes, EditorInv
      <4>2. claimedRef \in Elements \cup {None}
        BY DEF BroadcastInv, BroadcastTypes
      <4>3. QED
        BY <1>1, <3>3, <3>6, <4>1, <4>2 DEF LocksInv
    <3>8. QED
      BY <3>5, <3>7
  <2>6. QED
    BY <1>5, <2>3, <2>4, <2>5 DEF BroadcastInv
<1>7. CASE ~ready /\ UNCHANGED wire
  <2>1. BroadcastTypes'
    BY <1>1, <1>4, <1>7 DEF BroadcastInv, BroadcastTypes
  <2>2. ConnectionsInv'
    BY <1>1, <1>7, ConnectionsStay DEF BroadcastInv
  <2>3. CallsInv'
    <3>1. link = "connected" => chain = "start"
      BY <1>7 DEF BroadcastInv, EditorInv
    <3>2. QED
      BY <1>1, <1>7, <3>1 DEF BroadcastInv, CallsInv, PublicationsInv, LocksInv
  <2>4. QED
    BY <1>5, <2>1, <2>2, <2>3 DEF BroadcastInv
<1>8. QED
  BY <1>1, <1>6, <1>7

\* A call that may be missing, as calls on their way.
LEMMA MaybeSent ==
  ASSUME NEW x, NEW call, x # None => call \in Calls /\ call.kind # "join" /\ ~IsPublication(call),
         NEW q, x = None => q = <<>>, x # None => q = <<call>>
  PROVE  /\ q \in Seq(Calls) /\ NoJoin(q)
         /\ \A other : Has(q, other) <=> x # None /\ other = call
<1>1. CASE x = None
  BY <1>1 DEF Has, NoJoin
<1>2. CASE x # None
  BY <1>2, OneCall
<1>3. QED
  BY <1>1, <1>2

\* Calls that release the old element and claim the new one, and nothing else.
Moves(calls, old, new) ==
  /\ calls \in Seq(Calls) /\ NoJoin(calls)
  /\ \A i \in 1 .. Len(calls) : ~IsPublication(calls[i])
  /\ \A e \in Elements : (Has(calls, Claim(e)) <=> e = new) /\ (Has(calls, Release(e)) <=> e = old)

\* What a change of the selection sends: the release of the old element, the claim of the
\* new one.
LEMMA MovedCalls ==
  ASSUME NEW old \in Elements \cup {None}, NEW new \in Elements \cup {None}, old # new,
         NEW first, old = None => first = <<>>, old # None => first = <<Release(old)>>,
         NEW second, new = None => second = <<>>, new # None => second = <<Claim(new)>>,
         NEW calls, calls = first \o second
  PROVE  Moves(calls, old, new)
<1>1. None \notin Elements
  BY BroadcastAssumption
<1>2. PICK release : release = Release(old)
  OBVIOUS
<1>3. PICK claim : claim = Claim(new)
  OBVIOUS
<1>4. /\ old # None => /\ release \in Calls /\ release.kind = "release" /\ ~IsPublication(release)
                       /\ \A e \in Elements : release # Claim(e) /\ (release = Release(e) <=> e = old)
      /\ new # None => /\ claim \in Calls /\ claim.kind = "claim" /\ ~IsPublication(claim)
                       /\ \A e \in Elements : claim # Release(e) /\ (claim = Claim(e) <=> e = new)
  BY <1>2, <1>3, CallFacts DEF IsPublication
<1>5. /\ old = None => first = <<>>
      /\ old # None => first = <<release>>
      /\ new = None => second = <<>>
      /\ new # None => second = <<claim>>
  BY <1>2, <1>3
<1>6. /\ first \in Seq(Calls) /\ NoJoin(first)
      /\ \A other : Has(first, other) <=> old # None /\ other = release
  BY <1>4, <1>5, MaybeSent
<1>7. /\ second \in Seq(Calls) /\ NoJoin(second)
       /\ \A other : Has(second, other) <=> new # None /\ other = claim
  BY <1>4, <1>5, MaybeSent
<1>8. /\ calls \in Seq(Calls) /\ NoJoin(calls)
       /\ \A other : Has(calls, other) <=> (old # None /\ other = release) \/ (new # None /\ other = claim)
  BY <1>6, <1>7, SentCalls
<1>9. \A i \in 1 .. Len(calls) : ~IsPublication(calls[i])
  <2>1. SUFFICES ASSUME NEW i \in 1 .. Len(calls), NEW call, call = calls[i]
                 PROVE  ~IsPublication(call)
    OBVIOUS
  <2>2. Has(calls, call)
    BY <2>1 DEF Has
  <2>3. (old # None /\ call = release) \/ (new # None /\ call = claim)
    BY <1>8, <2>2
  <2>4. QED
    BY <1>4, <2>3
<1>10. ASSUME NEW e \in Elements
       PROVE  (Has(calls, Claim(e)) <=> e = new) /\ (Has(calls, Release(e)) <=> e = old)
  <2>1. PICK c : c = Claim(e)
    OBVIOUS
  <2>2. PICK r : r = Release(e)
    OBVIOUS
  <2>3. e # None /\ (old # None => release # c /\ (release = r <=> e = old))
        /\ (new # None => claim # r /\ (claim = c <=> e = new))
    BY <1>1, <1>4, <2>1, <2>2
  <2>4. (Has(calls, c) <=> e = new) /\ (Has(calls, r) <=> e = old)
    BY <1>8, <2>3
  <2>5. QED
    BY <2>1, <2>2, <2>4
<1>11. QED
  BY <1>8, <1>9, <1>10 DEF Moves

\* The selection changes.
LEMMA SelectStep ==
  ASSUME BroadcastInv, NEW ids \in SUBSET Elements, Select(ids)
  PROVE  BroadcastInv'
<1>1. PICK soleId : soleId = Sole(ids)
  OBVIOUS
<1>2. /\ selectedIds' = ids /\ selectionTimer' = TRUE /\ claimedRef' = soleId
      /\ heldRef' = IF soleId = claimedRef THEN heldRef
                    ELSE IF soleId # None THEN soleId
                    ELSE IF heldRef = claimedRef THEN None ELSE heldRef
      /\ soleId = claimedRef => Invoke(<<>>) /\ granted' = granted
      /\ soleId # claimedRef => /\ Invoke(Maybe(Release, claimedRef) \o Maybe(Claim, soleId))
                                /\ granted' = FALSE
      /\ UNCHANGED <<rdl, pushTimer, link, conn, ready, waiting, chain, connectionId, refreshes,
                     outages, lost, left, pushed, session, selection, holder>>
  BY <1>1 DEF Select, hub, registry, BroadcastInv, BroadcastTypes
<1>3. {claimedRef, soleId, heldRef} \subseteq Elements \cup {None} /\ granted \in BOOLEAN
  BY <1>1, SoleIsElement DEF BroadcastInv, BroadcastTypes
<1>4. PICK calls : /\ soleId = claimedRef => calls = <<>>
                   /\ soleId # claimedRef => calls = Maybe(Release, claimedRef) \o Maybe(Claim, soleId)
  OBVIOUS
<1>5. Invoke(calls)
  BY <1>2, <1>4
<1>6. /\ calls \in Seq(Calls) /\ NoJoin(calls) /\ \A i \in 1 .. Len(calls) : ~IsPublication(calls[i])
      /\ \A e \in Elements : /\ Has(calls, Claim(e)) <=> soleId # claimedRef /\ e = soleId
                             /\ Has(calls, Release(e)) <=> soleId # claimedRef /\ e = claimedRef
  <2>1. CASE soleId = claimedRef
    BY <1>4, <2>1 DEF Has, NoJoin
  <2>2. CASE soleId # claimedRef
    <3>1. PICK old \in Elements \cup {None} : old = claimedRef
      BY <1>3
    <3>2. soleId \in Elements \cup {None} /\ old # soleId
      BY <1>3, <2>2, <3>1
    <3>3. PICK first : first = Maybe(Release, old)
      OBVIOUS
    <3>4. PICK second : second = Maybe(Claim, soleId)
      OBVIOUS
    <3>5. calls = first \o second
      BY <1>4, <2>2, <3>1, <3>3, <3>4
    <3>6. /\ old = None => first = <<>>
          /\ old # None => first = <<Release(old)>>
          /\ soleId = None => second = <<>>
          /\ soleId # None => second = <<Claim(soleId)>>
      BY <3>3, <3>4 DEF Maybe
    <3>7. Moves(calls, old, soleId)
      BY <3>2, <3>5, <3>6, MovedCalls
    <3>8. QED
      BY <2>2, <3>1, <3>7 DEF Moves
  <2>3. QED
    BY <2>1, <2>2
<1>7. /\ wire' \in [Connections -> Seq(Calls)]
      /\ link = "connected" => conn \in Connections /\ wire'[conn] = wire[conn] \o calls
  BY <1>5, <1>6, Invoked
<1>8. BroadcastTypes'
  <2>1. heldRef' \in Elements \cup {None} /\ granted' \in BOOLEAN
    BY <1>2, <1>3
  <2>2. QED
    BY <1>2, <1>3, <1>7, <2>1 DEF BroadcastInv, BroadcastTypes
<1>9. ConnectionsInv'
  BY <1>2, <1>5, <1>6, InvokedConnections
<1>10. EditorInv'
  <2>1. claimedRef' = Sole(selectedIds)'
    BY <1>1, <1>2
  <2>2. heldRef' \in {None, claimedRef'} /\ (refreshes = 0 => heldRef' = claimedRef')
    BY <1>2, <1>3 DEF BroadcastInv, EditorInv
  <2>3. granted' => claimedRef' # None /\ (refreshes = 0 => ready)
    BY <1>2, <1>3 DEF BroadcastInv, EditorInv
  <2>4. QED
    BY <1>2, <2>1, <2>2, <2>3 DEF BroadcastInv, EditorInv
<1>11. CallsInv'
  <2>1. SUFFICES ASSUME link = "connected", NEW new, new = wire[conn] \o calls
                 PROVE  PublicationsInv(new)' /\ LocksInv(new)'
    BY <1>2, <1>7 DEF CallsInv
  <2>2. PICK q : q = wire[conn]
    OBVIOUS
  <2>3. q \in Seq(Calls) /\ new = q \o calls /\ LocksInv(q)
    BY <1>7, <2>1, <2>2 DEF BroadcastInv, BroadcastTypes, CallsInv
  <2>4. PublicationsInv(new)'
    BY <1>2, <1>5, <1>6, <2>1, InvokedPublications
  <2>5. /\ \A call : Has(new, call) <=> Has(q, call) \/ Has(calls, call)
        /\ \A call, other : ~Has(calls, call) /\ (Followed(q, call, other) \/ Has(calls, other))
                              => Followed(new, call, other)
    BY <1>6, <2>3, SentCalls
  <2>6. LocksInv(new)'
    <3>1. ASSUME NEW e \in Elements, e # soleId
          PROVE  /\ Followed(new, Claim(e), Release(e))
                 /\ holder[Session][e] = conn => Has(new, Release(e))
      BY <1>6, <2>3, <2>5, <3>1 DEF LocksInv
    <3>2. soleId # None => Followed(new, Release(soleId), Claim(soleId))
      BY <1>3, <1>6, <2>3, <2>5 DEF LocksInv
    <3>3. refreshes = 0 /\ granted' /\ chain = "none" =>
            \/ Has(new, Claim(soleId))
            \/ holder[Session][soleId] = conn /\ ~Has(new, Release(soleId))
      BY <1>2, <1>3, <1>6, <2>3, <2>5 DEF LocksInv, BroadcastInv, EditorInv
    <3>4. QED
      BY <1>2, <3>1, <3>2, <3>3 DEF LocksInv
  <2>7. QED
    BY <2>4, <2>6
<1>12. QED
  BY <1>8, <1>9, <1>10, <1>11 DEF BroadcastInv

-----------------------------------------------------------------------------
(* Serving a call                                                          *)

\* What a call does to the registry: it touches the place and the locks of its own
\* connection only.
Registers(c, call) ==
  /\ session' \in [Connections -> {Session, None}] /\ selection' \in [Connections -> SUBSET Elements]
  /\ holder' \in [{Session} -> [Elements -> Connections \cup {None}]]
  /\ \A d \in Connections \ {c} : session'[d] = session[d] /\ selection'[d] = selection[d]
  /\ session'[c] = IF call.kind = "join" THEN Session ELSE session[c]
  /\ IsPublication(call) /\ session[c] = Session => selection'[c] = call.ids
  /\ ~IsPublication(call) /\ call.kind # "join" => selection'[c] = selection[c]
  /\ \A e \in Elements :
       holder'[Session][e] = IF call = Claim(e) /\ session[c] = Session /\ holder[Session][e] = None THEN c
                             ELSE IF call = Release(e) /\ holder[Session][e] = c THEN None
                             ELSE holder[Session][e]

\* A claim changes the lock of its element only, if that is free.
LEMMA ClaimRegisters ==
  ASSUME BroadcastInv, NEW c \in Connections, NEW e \in Elements, NEW call, call = Claim(e),
         presence!Claim(c, e)
  PROVE  Registers(c, call)
<1>1. /\ session \in [Connections -> {Session, None}] /\ selection \in [Connections -> SUBSET Elements]
      /\ holder \in [{Session} -> [Elements -> Connections \cup {None}]]
  BY DEF BroadcastInv, BroadcastTypes
<1>2. Session # None /\ c # None
  BY BroadcastAssumption DEF Connections
<1>3. UNCHANGED <<session, selection>>
  BY DEF presence!Claim
<1>4. /\ call.kind = "claim"
      /\ \A d \in Elements : (call = Claim(d) <=> d = e) /\ call # Release(d)
  BY CallFacts
<1>5. /\ session[c] = Session /\ holder[Session][e] = None => holder' = [holder EXCEPT ![Session][e] = c]
      /\ ~(session[c] = Session /\ holder[Session][e] = None) => holder' = holder
  BY <1>1, <1>2 DEF presence!Claim, presence!Free
<1>6. /\ holder' \in [{Session} -> [Elements -> Connections \cup {None}]]
      /\ \A d \in Elements :
           holder'[Session][d] = IF d = e /\ session[c] = Session /\ holder[Session][d] = None THEN c
                                 ELSE holder[Session][d]
  <2>1. CASE session[c] = Session /\ holder[Session][e] = None
    BY <1>1, <1>5, <2>1
  <2>2. CASE ~(session[c] = Session /\ holder[Session][e] = None)
    BY <1>1, <1>5, <2>2
  <2>3. QED
    BY <2>1, <2>2
<1>7. QED
  BY <1>1, <1>3, <1>4, <1>6 DEF Registers, IsPublication

\* A release changes the lock of its element only, if the caller holds it.
LEMMA ReleaseRegisters ==
  ASSUME BroadcastInv, NEW c \in Connections, NEW e \in Elements, NEW call, call = Release(e),
         presence!Release(c, e)
  PROVE  Registers(c, call)
<1>1. /\ session \in [Connections -> {Session, None}] /\ selection \in [Connections -> SUBSET Elements]
      /\ holder \in [{Session} -> [Elements -> Connections \cup {None}]]
  BY DEF BroadcastInv, BroadcastTypes
<1>2. Session # None /\ c # None
  BY BroadcastAssumption DEF Connections
<1>3. UNCHANGED <<session, selection>>
  BY DEF presence!Release
<1>4. /\ call.kind = "release"
      /\ \A d \in Elements : (call = Release(d) <=> d = e) /\ call # Claim(d)
  BY CallFacts
<1>5. holder[Session][e] = c => session[c] = Session
  BY <1>2 DEF BroadcastInv, ConnectionsInv
<1>6. /\ holder[Session][e] = c => holder' = [holder EXCEPT ![Session][e] = None]
      /\ holder[Session][e] # c => holder' = holder
  BY <1>1, <1>2, <1>5 DEF presence!Release, presence!Holds
<1>7. /\ holder' \in [{Session} -> [Elements -> Connections \cup {None}]]
      /\ \A d \in Elements :
           holder'[Session][d] = IF d = e /\ holder[Session][d] = c THEN None ELSE holder[Session][d]
  <2>1. CASE holder[Session][e] = c
    BY <1>1, <1>6, <2>1
  <2>2. CASE holder[Session][e] # c
    BY <1>1, <1>6, <2>2
  <2>3. QED
    BY <2>1, <2>2
<1>8. QED
  BY <1>1, <1>3, <1>4, <1>7 DEF Registers, IsPublication

\* A publication and a join change no lock.
LEMMA PlaceRegisters ==
  ASSUME BroadcastInv, NEW c \in Connections, NEW call \in Calls,
         \/ call = Join /\ presence!Enrol(c, Session)
         \/ IsPublication(call) /\ presence!Select(c, call.ids)
  PROVE  Registers(c, call)
<1>1. /\ session \in [Connections -> {Session, None}] /\ selection \in [Connections -> SUBSET Elements]
      /\ holder \in [{Session} -> [Elements -> Connections \cup {None}]]
  BY DEF BroadcastInv, BroadcastTypes
<1>2. Session # None /\ c # None
  BY BroadcastAssumption DEF Connections
<1>3. \A e \in Elements : call # Claim(e) /\ call # Release(e)
  <2>1. call.kind \in {"join", "select", "replay"}
    BY CallFacts DEF IsPublication
  <2>2. \A e \in Elements : Claim(e).kind = "claim" /\ Release(e).kind = "release"
    BY CallFacts
  <2>3. QED
    BY <2>1, <2>2
<1>4. UNCHANGED holder
  BY DEF presence!Enrol, presence!Select
<1>5. CASE call = Join /\ presence!Enrol(c, Session)
  <2>1. call.kind = "join" /\ ~IsPublication(call)
    BY <1>5, CallFacts DEF IsPublication
  <2>2. /\ session' = [session EXCEPT ![c] = Session]
        /\ selection' = [selection EXCEPT ![c] = {}]
    BY <1>5 DEF presence!Enrol
  <2>3. /\ session' \in [Connections -> {Session, None}] /\ selection' \in [Connections -> SUBSET Elements]
        /\ session'[c] = Session
        /\ \A d \in Connections \ {c} : session'[d] = session[d] /\ selection'[d] = selection[d]
    BY <1>1, <2>2
  <2>4. QED
    BY <1>1, <1>3, <1>4, <2>1, <2>3 DEF Registers
<1>6. CASE IsPublication(call) /\ presence!Select(c, call.ids)
  <2>1. call.ids \in SUBSET Elements /\ call.kind # "join"
    BY <1>6, CallCases, CallFacts DEF IsPublication
  <2>2. session' = session /\ selection' \in {selection, [selection EXCEPT ![c] = call.ids]}
        /\ (session[c] # None => selection' = [selection EXCEPT ![c] = call.ids])
    BY <1>6 DEF presence!Select
  <2>3. /\ selection' \in [Connections -> SUBSET Elements]
        /\ session[c] = Session => selection'[c] = call.ids
        /\ \A d \in Connections \ {c} : selection'[d] = selection[d]
    BY <1>1, <1>2, <2>1, <2>2
  <2>4. QED
    BY <1>1, <1>3, <1>4, <1>6, <2>1, <2>2, <2>3 DEF Registers
<1>7. QED
  BY <1>5, <1>6

\* What a served call makes the client do. On a connection that is not up, nothing.
ServedLost(c) ==
  /\ ~Up(c) /\ lost[c] /\ c < Newest /\ Served(c, <<>>)
  /\ UNCHANGED <<ready, waiting, chain, connectionId, pushed>>
StartJoined(c, call) ==
  /\ chain = "start" /\ call = Join /\ Served(c, Maybe(Publish, waiting.ids))
  /\ InvokePush(waiting.rdl)
  /\ ready' = TRUE /\ waiting' = Nothing /\ connectionId' = c /\ chain' = "none"
ReconnectJoined(c, call) ==
  /\ chain = "join" /\ call = Join /\ Served(c, <<Replay(selectedIds)>>)
  /\ chain' = "select" /\ connectionId' = c
  /\ UNCHANGED <<ready, waiting, pushed>>
Replayed(c, call) ==
  /\ chain \in {"none", "select"} /\ call.kind = "replay" /\ Served(c, Maybe(Claim, heldRef))
  /\ chain' = "none"
  /\ UNCHANGED <<ready, waiting, connectionId, pushed>>
Done(c, call) ==
  /\ chain \in {"none", "select"} /\ call.kind \in {"select", "claim", "release"} /\ Served(c, <<>>)
  /\ UNCHANGED <<ready, waiting, chain, connectionId, pushed>>

LEMMA ServeCases ==
  ASSUME BroadcastInv, NEW c \in Connections, Serve(c), NEW call, call = Head(wire[c])
  PROVE  /\ call \in Calls /\ wire[c] \in Seq(Calls) /\ wire[c] # <<>> /\ ~left[c] /\ Registers(c, call)
         /\ heldRef' = heldRef
         /\ granted' = IF c = conn /\ claimedRef # None /\ call = Claim(claimedRef)
                       THEN holder'[Session][claimedRef] = conn ELSE granted
         /\ \/ ServedLost(c)
            \/ Up(c) /\ c = conn /\ (StartJoined(c, call) \/ ReconnectJoined(c, call) \/ Replayed(c, call) \/ Done(c, call))
<1>1. wire[c] \in Seq(Calls) /\ wire[c] # <<>> /\ ~left[c] /\ heldRef' = heldRef
  BY DEF Serve, BroadcastInv, BroadcastTypes
<1>2. call \in Calls
  BY <1>1, TailCalls
<1>3. /\ granted' = IF call.kind = "claim" /\ call.element = Sole(selectedIds) /\ c = conn
                    THEN holder'[Session][call.element] = conn ELSE granted
      /\ \/ call.kind = "join" /\ presence!Enrol(c, Session) /\ AnswerJoin(c)
         \/ call.kind = "replay" /\ AnswerReplay(c, call.ids)
         \/ /\ call.kind \in {"select", "claim", "release"} /\ Served(c, <<>>)
            /\ UNCHANGED <<ready, waiting, chain, connectionId, pushed>>
            /\ \/ call.kind = "select" /\ presence!Select(c, call.ids)
               \/ call.kind = "claim" /\ presence!Claim(c, call.element)
               \/ call.kind = "release" /\ presence!Release(c, call.element)
  BY DEF Serve
<1>4. /\ call.kind \in {"join", "select", "replay", "claim", "release"}
      /\ call.kind = "join" => call = Join
      /\ call.kind = "claim" => call.element \in Elements /\ call = Claim(call.element)
      /\ call.kind = "release" => call.element \in Elements /\ call = Release(call.element)
  BY <1>2, CallCases, CallFacts
<1>5. Registers(c, call)
  <2>1. CASE call.kind = "join"
    BY <1>2, <1>3, <1>4, <2>1, PlaceRegisters
  <2>2. CASE call.kind \in {"replay", "select"}
    <3>1. presence!Select(c, call.ids)
      BY <1>3, <2>2 DEF AnswerReplay
    <3>2. QED
      BY <1>2, <2>2, <3>1, PlaceRegisters DEF IsPublication
  <2>3. CASE call.kind = "claim"
    BY <1>3, <1>4, <2>3, ClaimRegisters
  <2>4. CASE call.kind = "release"
    BY <1>3, <1>4, <2>4, ReleaseRegisters
  <2>5. QED
    BY <1>4, <2>1, <2>2, <2>3, <2>4
<1>6. granted' = IF c = conn /\ claimedRef # None /\ call = Claim(claimedRef)
                 THEN holder'[Session][claimedRef] = conn ELSE granted
  <2>1. claimedRef = Sole(selectedIds) /\ claimedRef \in Elements \cup {None} /\ None \notin Elements
    BY BroadcastAssumption DEF BroadcastInv, EditorInv, BroadcastTypes
  <2>2. claimedRef # None => Claim(claimedRef).kind = "claim" /\ Claim(claimedRef).element = claimedRef
    BY <2>1, CallFacts
  <2>3. (call.kind = "claim" /\ call.element = Sole(selectedIds)) <=> (claimedRef # None /\ call = Claim(claimedRef))
    BY <1>4, <2>1, <2>2
  <2>4. QED
    BY <1>3, <2>1, <2>2, <2>3
<1>7. CASE ~Up(c)
  <2>1. lost[c] /\ c < Newest
    BY <1>1, <1>7 DEF BroadcastInv, ConnectionsInv, Untouched
  <2>2. Served(c, <<>>) /\ UNCHANGED <<ready, waiting, chain, connectionId, pushed>>
    BY <1>3, <2>1 DEF AnswerJoin, AnswerReplay
  <2>3. QED
    BY <1>1, <1>2, <1>5, <1>6, <1>7, <2>1, <2>2 DEF ServedLost
<1>8. CASE Up(c)
  <2>1. c = conn /\ ~lost[c] /\ PublicationsInv(wire[c]) /\ chain \in Chains
    BY <1>8 DEF Up, BroadcastInv, ConnectionsInv, CallsInv, BroadcastTypes
  <2>2. NoJoin(wire[c]) => call.kind # "join"
    BY <1>1, TailCalls
  <2>3. \/ chain \in {"start", "join"} /\ call = Join /\ call.kind = "join"
        \/ chain \in {"none", "select"} /\ call.kind # "join"
    BY <2>1, <2>2, CallFacts DEF PublicationsInv, Chains
  <2>4. StartJoined(c, call) \/ ReconnectJoined(c, call) \/ Replayed(c, call) \/ Done(c, call)
    BY <1>3, <1>4, <2>1, <2>3 DEF StartJoined, ReconnectJoined, Replayed, Done, AnswerJoin, AnswerReplay
  <2>5. QED
    BY <1>1, <1>2, <1>5, <1>6, <1>8, <2>1, <2>4
<1>9. QED
  BY <1>7, <1>8

\* The served call has left its queue, and the client's calls follow.
LEMMA ServedWire ==
  ASSUME BroadcastInv, NEW c \in Connections, wire[c] # <<>>, NEW follow \in Seq(Calls), Served(c, follow)
  PROVE  /\ wire' \in [Connections -> Seq(Calls)] /\ wire'[c] = Tail(wire[c]) \o follow
         /\ \A d \in Connections \ {c} : wire'[d] = wire[d]
         /\ UNCHANGED <<rdl, selectedIds, claimedRef, pushTimer, selectionTimer, link, conn, selects,
                        refreshes, outages, lost, left>>
<1>1. wire \in [Connections -> Seq(Calls)] /\ wire[c] \in Seq(Calls)
  BY DEF BroadcastInv, BroadcastTypes
<1>2. Tail(wire[c]) \in Seq(Calls)
  BY <1>1, TailCalls
<1>3. Tail(wire[c]) \o follow \in Seq(Calls)
  BY <1>2
<1>4. wire' = [wire EXCEPT ![c] = Tail(wire[c]) \o follow]
  BY DEF Served
<1>5. QED
  BY <1>1, <1>3, <1>4 DEF Served, editor, timers, bounds

\* The connections, after a call is served.
LEMMA ServedConnections ==
  ASSUME BroadcastInv, NEW c \in Connections, NEW call, Registers(c, call),
         ~left[c], Up(c) \/ (lost[c] /\ c < Newest),
         \A d \in Connections \ {c} : wire'[d] = wire[d],
         UNCHANGED <<link, conn, refreshes, outages, lost, left>>
  PROVE  ConnectionsInv'
<1>1. Newest' = Newest /\ \A d : Up(d)' <=> Up(d)
  BY DEF Newest, Up
<1>2. \A d \in Connections \ {c} : session'[d] = session[d]
  BY DEF Registers
<1>3. ASSUME NEW d \in Connections, ~Up(d)
      PROVE  Untouched(d)' \/ (lost'[d] /\ d < Newest')
  <2>1. CASE d = c
    BY <1>1, <1>3, <2>1
  <2>2. CASE d # c
    BY <1>1, <1>2, <1>3, <2>2 DEF Untouched, BroadcastInv, ConnectionsInv
  <2>3. QED
    BY <2>1, <2>2
<1>4. \A d \in Connections : left'[d] => lost'[d] /\ session'[d] = None /\ wire'[d] = <<>>
  BY <1>2 DEF BroadcastInv, ConnectionsInv
<1>5. ASSUME NEW e \in Elements, holder'[Session][e] # None
      PROVE  session'[holder'[Session][e]] = Session
  <2>1. PICK d : d = holder'[Session][e]
    OBVIOUS
  <2>2. d \in Connections
    BY <1>5, <2>1 DEF Registers
  <2>3. session[d] = Session
    BY <1>5, <2>1 DEF Registers, BroadcastInv, ConnectionsInv
  <2>4. session'[d] = Session
    BY <2>2, <2>3 DEF Registers
  <2>5. QED
    BY <2>1, <2>4
<1>6. /\ link' = "connected" => conn' = Newest' /\ ~lost'[conn']
      /\ link' = "starting" => conn' = None
      /\ conn' # None /\ link' # "connected" => lost'[conn'] /\ conn' < Newest'
  BY <1>1 DEF BroadcastInv, ConnectionsInv
<1>7. QED
  BY <1>1, <1>3, <1>4, <1>5, <1>6 DEF ConnectionsInv

\* The locks, after a call of the current connection is served.
LEMMA ServedLocks ==
  ASSUME BroadcastInv, Up(conn), conn \in Connections, NEW call, call = Head(wire[conn]), wire[conn] # <<>>,
         Registers(conn, call), session[conn] = Session \/ call = Join,
         NEW follow \in Seq(Calls), NEW new, new = Tail(wire[conn]) \o follow,
         \A e \in Elements : ~Has(follow, Release(e)) /\ (Has(follow, Claim(e)) => e = claimedRef),
         granted' = IF claimedRef # None /\ call = Claim(claimedRef)
                    THEN holder'[Session][claimedRef] = conn ELSE granted,
         UNCHANGED <<conn, claimedRef, refreshes>>,
         refreshes = 0 /\ granted /\ chain' = "none" =>
           chain = "none" \/ Has(follow, Claim(claimedRef))
  PROVE  LocksInv(new)'
<1>1. PICK q : q = wire[conn]
  OBVIOUS
<1>2. PICK t : t = Tail(q)
  OBVIOUS
<1>3. q \in Seq(Calls) /\ q # <<>> /\ call = Head(q) /\ LocksInv(q)
  BY <1>1 DEF BroadcastInv, BroadcastTypes, Up, CallsInv
<1>4. /\ t \in Seq(Calls)
      /\ \A other : Has(q, other) => call = other \/ Has(t, other)
      /\ \A other : Has(t, other) => Has(q, other)
      /\ \A one, other : Followed(q, one, other) =>
           /\ Followed(t, one, other)
           /\ call = one => Has(t, other)
  BY <1>2, <1>3, TailCalls
<1>5. new = t \o follow
  BY <1>1, <1>2
<1>6. /\ \A other : Has(new, other) <=> Has(t, other) \/ Has(follow, other)
      /\ \A one, other : ~Has(follow, one) /\ (Followed(t, one, other) \/ Has(follow, other))
                           => Followed(new, one, other)
  BY <1>4, <1>5, SentCalls
<1>7. /\ \A e \in Elements : Claim(e) # Release(e) /\ Claim(e) # Join /\ Release(e) # Join
      /\ None \notin Elements /\ conn # None /\ claimedRef \in Elements \cup {None}
  BY CallFacts, BroadcastAssumption DEF Connections, BroadcastInv, BroadcastTypes
<1>8. \A e \in Elements :
        holder'[Session][e] = IF call = Claim(e) /\ session[conn] = Session /\ holder[Session][e] = None THEN conn
                              ELSE IF call = Release(e) /\ holder[Session][e] = conn THEN None
                              ELSE holder[Session][e]
  BY DEF Registers
<1>9. ASSUME NEW e \in Elements, e # claimedRef
      PROVE  /\ Followed(new, Claim(e), Release(e))
             /\ holder'[Session][e] = conn => Has(new, Release(e))
  <2>1. Followed(q, Claim(e), Release(e)) /\ (holder[Session][e] = conn => Has(q, Release(e)))
    BY <1>3, <1>9 DEF LocksInv
  <2>2. ~Has(follow, Claim(e))
    BY <1>9
  <2>3. Followed(new, Claim(e), Release(e))
    BY <1>4, <1>6, <2>1, <2>2
  <2>4. ASSUME holder'[Session][e] = conn
        PROVE  Has(new, Release(e))
    <3>1. CASE call = Claim(e)
      BY <1>4, <1>6, <2>1, <3>1
    <3>2. CASE call # Claim(e)
      <4>1. holder[Session][e] = conn /\ call # Release(e)
        BY <1>7, <1>8, <2>4, <3>2
      <4>2. QED
        BY <1>4, <1>6, <2>1, <4>1
    <3>3. QED
      BY <3>1, <3>2
  <2>5. QED
    BY <2>3, <2>4
<1>10. ASSUME claimedRef # None
       PROVE  Followed(new, Release(claimedRef), Claim(claimedRef))
  <2>1. Followed(q, Release(claimedRef), Claim(claimedRef)) /\ ~Has(follow, Release(claimedRef))
    BY <1>3, <1>7, <1>10 DEF LocksInv
  <2>2. QED
    BY <1>4, <1>6, <2>1
<1>11. ASSUME refreshes = 0, granted', chain' = "none"
       PROVE  \/ Has(new, Claim(claimedRef))
              \/ holder'[Session][claimedRef] = conn /\ ~Has(new, Release(claimedRef))
  <2>1. CASE claimedRef # None /\ call = Claim(claimedRef)
    <3>1. holder'[Session][claimedRef] = conn
      BY <1>11, <2>1
    <3>2. Followed(q, Release(claimedRef), Claim(claimedRef)) /\ ~Has(follow, Release(claimedRef))
      BY <1>3, <1>7, <2>1 DEF LocksInv
    <3>3. Has(t, Release(claimedRef)) => Has(t, Claim(claimedRef))
      <4>1. Followed(t, Release(claimedRef), Claim(claimedRef))
        BY <1>4, <3>2
      <4>2. QED
        BY <4>1, <1>4 DEF Has, Followed
    <3>4. QED
      BY <1>6, <3>1, <3>2, <3>3
  <2>2. CASE ~(claimedRef # None /\ call = Claim(claimedRef))
    <3>1. granted /\ claimedRef # None /\ claimedRef \in Elements /\ call # Claim(claimedRef)
      BY <1>7, <1>11, <2>2 DEF BroadcastInv, EditorInv
    <3>2. CASE Has(follow, Claim(claimedRef))
      BY <1>6, <3>2
    <3>3. CASE chain = "none"
      <4>1. Has(q, Claim(claimedRef)) \/ (holder[Session][claimedRef] = conn /\ ~Has(q, Release(claimedRef)))
        BY <1>3, <1>11, <3>1, <3>3 DEF LocksInv
      <4>2. CASE Has(q, Claim(claimedRef))
        BY <1>4, <1>6, <3>1, <4>2
      <4>3. CASE holder[Session][claimedRef] = conn /\ ~Has(q, Release(claimedRef))
        <5>1. call # Release(claimedRef)
          BY <1>3, <4>3, TailCalls DEF Has
        <5>2. holder'[Session][claimedRef] = conn
          BY <1>7, <1>8, <3>1, <4>3, <5>1
        <5>3. ~Has(new, Release(claimedRef))
          BY <1>4, <1>6, <3>1, <4>3
        <5>4. QED
          BY <5>2, <5>3
      <4>4. QED
        BY <4>1, <4>2, <4>3
    <3>4. QED
      BY <1>11, <3>1, <3>2, <3>3
  <2>3. QED
    BY <2>1, <2>2
<1>12. QED
  BY <1>9, <1>10, <1>11 DEF LocksInv

\* A call is served on a connection that is lost.
LEMMA ServedLostStep ==
  ASSUME BroadcastInv, NEW c \in Connections, Serve(c), ServedLost(c)
  PROVE  BroadcastInv'
<1>1. PICK call : call = Head(wire[c])
  OBVIOUS
<1>2. /\ wire[c] # <<>> /\ ~left[c] /\ Registers(c, call) /\ heldRef' = heldRef
      /\ granted' = IF c = conn /\ claimedRef # None /\ call = Claim(claimedRef)
                    THEN holder'[Session][claimedRef] = conn ELSE granted
  BY <1>1, ServeCases
<1>3. /\ ~Up(c) /\ lost[c] /\ c < Newest /\ Served(c, <<>>) /\ <<>> \in Seq(Calls)
      /\ UNCHANGED <<ready, waiting, chain, connectionId, pushed>>
  BY DEF ServedLost
<1>4. /\ wire' \in [Connections -> Seq(Calls)]
      /\ \A d \in Connections \ {c} : wire'[d] = wire[d]
      /\ UNCHANGED <<rdl, selectedIds, claimedRef, pushTimer, selectionTimer, link, conn, selects,
                     refreshes, outages, lost, left>>
  BY <1>2, <1>3, ServedWire
<1>5. granted' \in BOOLEAN
  BY <1>2 DEF BroadcastInv, BroadcastTypes
<1>6. BroadcastTypes'
  BY <1>2, <1>3, <1>4, <1>5 DEF BroadcastInv, BroadcastTypes, Registers
<1>7. ConnectionsInv'
  BY <1>2, <1>3, <1>4, ServedConnections
<1>8. EditorInv'
  <2>1. c = conn => conn # None /\ link # "connected"
    BY <1>3, BroadcastAssumption DEF Up, Connections
  <2>2. c = conn => ready
    BY <2>1 DEF BroadcastInv, ConnectionsInv, EditorInv
  <2>3. granted' => claimedRef # None /\ (refreshes = 0 => ready)
    BY <1>2, <2>2 DEF BroadcastInv, EditorInv
  <2>4. QED
    BY <1>2, <1>3, <1>4, <2>3 DEF BroadcastInv, EditorInv
<1>9. CallsInv'
  <2>1. SUFFICES ASSUME link = "connected"
                 PROVE  PublicationsInv(wire[conn])' /\ LocksInv(wire[conn])'
    BY <1>4 DEF CallsInv
  <2>2. conn \in Connections /\ c # conn /\ conn # None
    BY <1>3, <2>1, BroadcastAssumption DEF Up, BroadcastInv, BroadcastTypes, ConnectionsInv, Newest, Connections
  <2>3. /\ wire'[conn] = wire[conn] /\ session'[conn] = session[conn] /\ selection'[conn] = selection[conn]
        /\ granted' = granted
    BY <1>2, <1>4, <2>2 DEF Registers
  <2>4. \A e \in Elements : holder'[Session][e] = conn <=> holder[Session][e] = conn
    BY <1>2, <2>2 DEF Registers
  <2>5. PublicationsInv(wire[conn]) /\ LocksInv(wire[conn])
    BY <2>1 DEF BroadcastInv, CallsInv
  <2>6. claimedRef \in Elements \cup {None} /\ (granted => claimedRef # None)
    BY DEF BroadcastInv, BroadcastTypes, EditorInv
  <2>7. PublicationsInv(wire[conn])'
    BY <1>3, <1>4, <2>3, <2>5 DEF PublicationsInv
  <2>8. LocksInv(wire[conn])'
    BY <1>3, <1>4, <2>3, <2>4, <2>5, <2>6 DEF LocksInv
  <2>9. QED
    BY <2>7, <2>8
<1>10. QED
  BY <1>6, <1>7, <1>8, <1>9 DEF BroadcastInv

\* What holds of every call served on the current connection.
LEMMA ServedUp ==
  ASSUME BroadcastInv, NEW c \in Connections, Serve(c), Up(c), NEW call, call = Head(wire[c]),
         NEW follow \in Seq(Calls), Served(c, follow), NEW new, new = Tail(wire[c]) \o follow,
         \A e \in Elements : ~Has(follow, Release(e)) /\ (Has(follow, Claim(e)) => e = claimedRef),
         refreshes = 0 /\ granted /\ chain' = "none" =>
           chain = "none" \/ Has(follow, Claim(claimedRef))
  PROVE  /\ c = conn /\ link = "connected" /\ wire[c] \in Seq(Calls) /\ wire[c] # <<>>
         /\ wire' \in [Connections -> Seq(Calls)] /\ wire'[conn'] = new /\ heldRef' = heldRef
         /\ UNCHANGED <<rdl, selectedIds, claimedRef, pushTimer, selectionTimer, link, conn, selects,
                        refreshes, outages, lost, left>>
         /\ granted' \in BOOLEAN /\ (granted' => claimedRef # None)
         /\ call.kind # "claim" => granted' = granted
         /\ Registers(c, call) /\ ConnectionsInv' /\ LocksInv(new)'
<1>1. c = conn /\ Up(conn) /\ link = "connected"
  BY DEF Up
<1>2. /\ call \in Calls /\ wire[c] \in Seq(Calls) /\ wire[c] # <<>> /\ ~left[c] /\ Registers(c, call)
      /\ heldRef' = heldRef
      /\ granted' = IF claimedRef # None /\ call = Claim(claimedRef)
                    THEN holder'[Session][claimedRef] = conn ELSE granted
  BY <1>1, ServeCases
<1>3. /\ wire' \in [Connections -> Seq(Calls)] /\ wire'[c] = Tail(wire[c]) \o follow
      /\ \A d \in Connections \ {c} : wire'[d] = wire[d]
      /\ UNCHANGED <<rdl, selectedIds, claimedRef, pushTimer, selectionTimer, link, conn, selects,
                     refreshes, outages, lost, left>>
  BY <1>2, ServedWire
<1>4. ConnectionsInv'
  BY <1>2, <1>3, ServedConnections
<1>5. session[conn] = Session \/ call = Join
  BY <1>1, <1>2 DEF BroadcastInv, BroadcastTypes, CallsInv, PublicationsInv, Chains
<1>6. LocksInv(new)'
  BY <1>1, <1>2, <1>3, <1>5, ServedLocks
<1>7. /\ granted' \in BOOLEAN /\ (granted' => claimedRef # None)
      /\ call.kind # "claim" => granted' = granted
  <2>1. granted \in BOOLEAN /\ (granted => claimedRef # None) /\ claimedRef \in Elements \cup {None}
    BY DEF BroadcastInv, BroadcastTypes, EditorInv
  <2>2. claimedRef # None => Claim(claimedRef).kind = "claim"
    BY <2>1, CallFacts
  <2>3. QED
    BY <1>2, <2>1, <2>2
<1>8. QED
  BY <1>1, <1>2, <1>3, <1>4, <1>6, <1>7

\* The start is answered: the waiting calls follow.
LEMMA StartJoinedStep ==
  ASSUME BroadcastInv, NEW c \in Connections, Serve(c), Up(c), NEW call, call = Head(wire[c]),
         StartJoined(c, call)
  PROVE  BroadcastInv'
<1>1. /\ chain = "start" /\ call = Join /\ Served(c, Maybe(Publish, waiting.ids)) /\ InvokePush(waiting.rdl)
      /\ ready' = TRUE /\ waiting' = Nothing /\ connectionId' = c /\ chain' = "none"
  BY DEF StartJoined
<1>2. PICK follow : follow = Maybe(Publish, waiting.ids)
  OBVIOUS
<1>3. PICK publish : publish = Publish(waiting.ids)
  OBVIOUS
<1>4. ~ready /\ (waiting.ids # None => waiting.ids \in SUBSET Elements)
      /\ (~selectionTimer => waiting.ids = selectedIds) /\ (~pushTimer => waiting.rdl = rdl)
      /\ selectedIds # None /\ selectedIds \in SUBSET Elements
  BY <1>1, BroadcastAssumption DEF BroadcastInv, BroadcastTypes, EditorInv
<1>5. waiting.ids # None => /\ publish \in Calls /\ publish.kind = "select" /\ IsPublication(publish)
                            /\ publish.ids = waiting.ids
                            /\ \A e \in Elements : publish # Claim(e) /\ publish # Release(e)
  BY <1>3, <1>4, CallFacts DEF IsPublication
<1>6. (waiting.ids = None => follow = <<>>) /\ (waiting.ids # None => follow = <<publish>>)
  BY <1>2, <1>3 DEF Maybe
<1>7. /\ follow \in Seq(Calls) /\ NoJoin(follow)
      /\ \A e \in Elements : ~Has(follow, Release(e)) /\ ~Has(follow, Claim(e))
  <2>1. CASE waiting.ids = None
    BY <1>6, <2>1 DEF Has, NoJoin
  <2>2. CASE waiting.ids # None
    <3>1. /\ <<publish>> \in Seq(Calls) /\ NoJoin(<<publish>>)
          /\ \A other : Has(<<publish>>, other) <=> other = publish
      BY <1>5, <2>2, OneCall
    <3>2. QED
      BY <1>5, <1>6, <2>2, <3>1
  <2>3. QED
    BY <2>1, <2>2
<1>8. refreshes = 0 => ~granted
  BY <1>4 DEF BroadcastInv, EditorInv
<1>9. Served(c, follow)
  BY <1>1, <1>2
<1>10. PICK new : new = Tail(wire[c]) \o follow
  OBVIOUS
<1>11. /\ c = conn /\ link = "connected" /\ wire[c] \in Seq(Calls) /\ wire[c] # <<>>
       /\ wire' \in [Connections -> Seq(Calls)] /\ wire'[conn'] = new /\ heldRef' = heldRef
       /\ UNCHANGED <<rdl, selectedIds, claimedRef, pushTimer, selectionTimer, link, conn, selects,
                      refreshes, outages, lost, left>>
       /\ granted' \in BOOLEAN /\ (granted' => claimedRef # None)
       /\ call.kind # "claim" => granted' = granted
       /\ Registers(c, call) /\ ConnectionsInv' /\ LocksInv(new)'
  BY <1>7, <1>8, <1>9, <1>10, ServedUp
<1>12. BroadcastTypes'
  BY <1>1, <1>11 DEF BroadcastInv, BroadcastTypes, Registers, Nothing, Chains
<1>13. EditorInv'
  <2>1. outages = 0 /\ ~pushTimer => pushed' = rdl
    BY <1>1, <1>4, <1>11, BroadcastAssumption DEF InvokePush, BroadcastInv, BroadcastTypes
  <2>2. QED
    BY <1>1, <1>11, <2>1 DEF BroadcastInv, EditorInv
<1>14. PublicationsInv(new)'
  <2>1. call.kind = "join"
    BY <1>1, CallFacts
  <2>2. session'[conn'] = Session
    BY <1>11, <2>1 DEF Registers
  <2>3. PICK t : t = Tail(wire[c])
    OBVIOUS
  <2>4. t \in Seq(Calls) /\ NoJoin(t) /\ new = t \o follow
    BY <1>1, <1>10, <1>11, <2>3, TailCalls DEF BroadcastInv, CallsInv, PublicationsInv
  <2>5. NoJoin(new)
    BY <1>7, <2>4, SentCalls
  <2>6. ~selectionTimer => \A now : Told(new, now, selectedIds)
    BY <1>4, <1>5, <1>6, <2>4, LastIsTold
  <2>7. QED
    BY <1>1, <1>11, <2>2, <2>5, <2>6 DEF PublicationsInv
<1>15. QED
  BY <1>11, <1>12, <1>13, <1>14 DEF BroadcastInv, CallsInv

\* The join after a reconnect is answered: the selection is replayed.
LEMMA ReconnectJoinedStep ==
  ASSUME BroadcastInv, NEW c \in Connections, Serve(c), Up(c), NEW call, call = Head(wire[c]),
         ReconnectJoined(c, call)
  PROVE  BroadcastInv'
<1>1. PICK replay : replay = Replay(selectedIds)
  OBVIOUS
<1>2. PICK follow : follow = <<replay>>
  OBVIOUS
<1>3. /\ chain = "join" /\ call = Join /\ Served(c, follow)
      /\ chain' = "select" /\ connectionId' = c /\ UNCHANGED <<ready, waiting, pushed>>
  BY <1>1, <1>2 DEF ReconnectJoined
<1>4. /\ replay \in Calls /\ replay.kind = "replay" /\ IsPublication(replay) /\ replay.ids = selectedIds
      /\ \A e \in Elements : replay # Claim(e) /\ replay # Release(e)
  BY <1>1, CallFacts DEF IsPublication, BroadcastInv, BroadcastTypes
<1>5. /\ follow \in Seq(Calls) /\ NoJoin(follow)
      /\ \A e \in Elements : ~Has(follow, Release(e)) /\ ~Has(follow, Claim(e))
  BY <1>2, <1>4, OneCall
<1>6. PICK new : new = Tail(wire[c]) \o follow
  OBVIOUS
<1>7. /\ c = conn /\ link = "connected" /\ wire[c] \in Seq(Calls) /\ wire[c] # <<>>
      /\ wire' \in [Connections -> Seq(Calls)] /\ wire'[conn'] = new /\ heldRef' = heldRef
      /\ UNCHANGED <<rdl, selectedIds, claimedRef, pushTimer, selectionTimer, link, conn, selects,
                     refreshes, outages, lost, left>>
      /\ granted' \in BOOLEAN /\ (granted' => claimedRef # None)
      /\ call.kind # "claim" => granted' = granted
      /\ Registers(c, call) /\ ConnectionsInv' /\ LocksInv(new)'
  BY <1>3, <1>5, <1>6, ServedUp
<1>8. call.kind = "join"
  BY <1>3, CallFacts
<1>9. BroadcastTypes'
  BY <1>3, <1>7 DEF BroadcastInv, BroadcastTypes, Registers, Chains
<1>10. EditorInv'
  BY <1>3, <1>7, <1>8 DEF BroadcastInv, EditorInv
<1>11. PublicationsInv(new)'
  <2>1. session'[conn'] = Session
    BY <1>7, <1>8 DEF Registers
  <2>2. PICK t : t = Tail(wire[c])
    OBVIOUS
  <2>3. t \in Seq(Calls) /\ NoJoin(t) /\ new = t \o <<replay>>
    BY <1>2, <1>3, <1>6, <1>7, <2>2, TailCalls DEF BroadcastInv, CallsInv, PublicationsInv
  <2>4. NoJoin(new)
    BY <1>2, <1>5, <2>3, SentCalls
  <2>5. \A now : Told(new, now, selectedIds)
    BY <1>4, <2>3, LastIsTold
  <2>6. QED
    BY <1>3, <1>7, <2>1, <2>4, <2>5 DEF PublicationsInv
<1>12. QED
  BY <1>7, <1>9, <1>10, <1>11 DEF BroadcastInv, CallsInv

\* The replay is answered: the lock is claimed again.
LEMMA ReplayedStep ==
  ASSUME BroadcastInv, NEW c \in Connections, Serve(c), Up(c), NEW call, call = Head(wire[c]),
         Replayed(c, call)
  PROVE  BroadcastInv'
<1>1. PICK claim : claim = Claim(heldRef)
  OBVIOUS
<1>2. PICK follow : follow = Maybe(Claim, heldRef)
  OBVIOUS
<1>3. /\ chain \in {"none", "select"} /\ call.kind = "replay" /\ Served(c, follow)
      /\ chain' = "none" /\ UNCHANGED <<ready, waiting, connectionId, pushed>>
  BY <1>2 DEF Replayed
<1>4. /\ heldRef = None => follow = <<>>
      /\ heldRef # None => follow = <<claim>>
      /\ heldRef \in {None, claimedRef} /\ claimedRef \in Elements \cup {None}
      /\ refreshes = 0 => heldRef = claimedRef
      /\ granted => claimedRef # None
  BY <1>1, <1>2 DEF Maybe, BroadcastInv, BroadcastTypes, EditorInv
<1>5. heldRef # None => /\ claim \in Calls /\ claim.kind = "claim" /\ ~IsPublication(claim)
                        /\ \A e \in Elements : claim # Release(e) /\ (claim = Claim(e) <=> e = claimedRef)
  BY <1>1, <1>4, CallFacts DEF IsPublication
<1>6. /\ follow \in Seq(Calls) /\ NoJoin(follow)
      /\ \A other : Has(follow, other) <=> heldRef # None /\ other = claim
  BY <1>4, <1>5, MaybeSent
<1>7. ASSUME NEW e \in Elements
      PROVE  ~Has(follow, Release(e)) /\ (Has(follow, Claim(e)) => e = claimedRef)
  <2>1. PICK again : again = Claim(e)
    OBVIOUS
  <2>2. PICK release : release = Release(e)
    OBVIOUS
  <2>3. heldRef # None => claim # release /\ (claim = again <=> e = claimedRef)
    BY <1>5, <2>1, <2>2
  <2>4. ~Has(follow, release) /\ (Has(follow, again) => e = claimedRef)
    BY <1>6, <2>3
  <2>5. QED
    BY <2>1, <2>2, <2>4
<1>8. refreshes = 0 /\ granted => Has(follow, Claim(claimedRef))
  BY <1>1, <1>4, <1>6
<1>9. \A i \in 1 .. Len(follow) : ~IsPublication(follow[i])
  <2>1. SUFFICES ASSUME NEW i \in 1 .. Len(follow), NEW other, other = follow[i]
                 PROVE  ~IsPublication(other)
    OBVIOUS
  <2>2. Has(follow, other)
    BY <2>1 DEF Has
  <2>3. QED
    BY <1>5, <1>6, <2>2
<1>10. PICK new : new = Tail(wire[c]) \o follow
  OBVIOUS
<1>11. /\ c = conn /\ link = "connected" /\ wire[c] \in Seq(Calls) /\ wire[c] # <<>>
       /\ wire' \in [Connections -> Seq(Calls)] /\ wire'[conn'] = new /\ heldRef' = heldRef
       /\ UNCHANGED <<rdl, selectedIds, claimedRef, pushTimer, selectionTimer, link, conn, selects,
                      refreshes, outages, lost, left>>
       /\ granted' \in BOOLEAN /\ (granted' => claimedRef # None)
       /\ call.kind # "claim" => granted' = granted
       /\ Registers(c, call) /\ ConnectionsInv' /\ LocksInv(new)'
  BY <1>3, <1>6, <1>7, <1>8, <1>10, ServedUp
<1>12. BroadcastTypes'
  BY <1>3, <1>11 DEF BroadcastInv, BroadcastTypes, Registers, Chains
<1>13. EditorInv'
  BY <1>3, <1>11 DEF BroadcastInv, EditorInv
<1>14. PublicationsInv(new)'
  <2>1. PublicationsInv(wire[c])
    BY <1>11 DEF BroadcastInv, CallsInv
  <2>2. PICK t : t = Tail(wire[c])
    OBVIOUS
  <2>3. session'[conn'] = Session /\ selection'[conn'] = call.ids /\ IsPublication(call)
    BY <1>3, <1>11, <2>1 DEF Registers, IsPublication, PublicationsInv
  <2>4. /\ t \in Seq(Calls) /\ NoJoin(t) /\ new = t \o follow
        /\ ~selectionTimer => Told(t, call.ids, selectedIds)
    BY <1>3, <1>10, <1>11, <2>1, <2>2, <2>3, TailCalls DEF PublicationsInv
  <2>5. NoJoin(new) /\ (~selectionTimer => Told(new, call.ids, selectedIds))
    BY <1>6, <1>9, <2>4, SentCalls
  <2>6. QED
    BY <1>3, <1>11, <2>1, <2>3, <2>5 DEF PublicationsInv
<1>15. QED
  BY <1>11, <1>12, <1>13, <1>14 DEF BroadcastInv, CallsInv

\* Any other call is answered: nothing follows.
LEMMA DoneStep ==
  ASSUME BroadcastInv, NEW c \in Connections, Serve(c), Up(c), NEW call, call = Head(wire[c]),
         Done(c, call)
  PROVE  BroadcastInv'
<1>1. PICK follow : follow \in Seq(Calls) /\ follow = <<>>
  <2>1. <<>> \in Seq(Calls)
    OBVIOUS
  <2>2. QED
    BY <2>1
<1>2. /\ chain \in {"none", "select"} /\ call.kind \in {"select", "claim", "release"} /\ Served(c, follow)
      /\ UNCHANGED <<ready, waiting, chain, connectionId, pushed>>
  BY <1>1 DEF Done
<1>3. /\ NoJoin(follow) /\ (\A other : ~Has(follow, other))
      /\ \A i \in 1 .. Len(follow) : ~IsPublication(follow[i])
  BY <1>1 DEF NoJoin, Has
<1>4. \A e \in Elements : ~Has(follow, Release(e)) /\ (Has(follow, Claim(e)) => e = claimedRef)
  BY <1>3
<1>5. chain' = chain /\ Served(c, follow)
  BY <1>2
<1>6. PICK new : new = Tail(wire[c]) \o follow
  OBVIOUS
<1>7. /\ c = conn /\ link = "connected" /\ wire[c] \in Seq(Calls) /\ wire[c] # <<>>
      /\ wire' \in [Connections -> Seq(Calls)] /\ wire'[conn'] = new /\ heldRef' = heldRef
      /\ UNCHANGED <<rdl, selectedIds, claimedRef, pushTimer, selectionTimer, link, conn, selects,
                     refreshes, outages, lost, left>>
      /\ granted' \in BOOLEAN /\ (granted' => claimedRef # None)
      /\ call.kind # "claim" => granted' = granted
      /\ Registers(c, call) /\ ConnectionsInv' /\ LocksInv(new)'
  BY <1>1, <1>4, <1>5, <1>6, ServedUp
<1>8. BroadcastTypes'
  BY <1>2, <1>7 DEF BroadcastInv, BroadcastTypes, Registers
<1>9. EditorInv'
  <2>1. ready
    BY <1>2, <1>7 DEF BroadcastInv, EditorInv
  <2>2. QED
    BY <1>2, <1>7, <2>1 DEF BroadcastInv, EditorInv
<1>10. PublicationsInv(new)'
  <2>1. PublicationsInv(wire[c])
    BY <1>7 DEF BroadcastInv, CallsInv
  <2>2. PICK t : t = Tail(wire[c])
    OBVIOUS
  <2>3. PICK now : now = IF IsPublication(call) THEN call.ids ELSE selection[c]
    OBVIOUS
  <2>4. session'[conn'] = Session /\ selection'[conn'] = now
    BY <1>2, <1>7, <2>1, <2>3 DEF Registers, IsPublication, PublicationsInv
  <2>5. NoJoin(wire[c]) /\ (~selectionTimer => Told(wire[c], selection[c], selectedIds))
    BY <1>2, <1>7, <2>1 DEF PublicationsInv
  <2>6. t \in Seq(Calls) /\ NoJoin(t) /\ new = t \o follow
    BY <1>6, <1>7, <2>2, <2>5, TailCalls
  <2>7. ~selectionTimer => Told(t, now, selectedIds)
    BY <1>7, <2>2, <2>3, <2>5, TailCalls
  <2>8. NoJoin(new) /\ (~selectionTimer => Told(new, now, selectedIds))
    BY <1>1, <1>3, <2>6, <2>7, SentCalls
  <2>9. QED
    BY <1>2, <1>7, <2>1, <2>4, <2>8 DEF PublicationsInv
<1>11. QED
  BY <1>7, <1>8, <1>9, <1>10 DEF BroadcastInv, CallsInv

\* The server serves a call.
LEMMA ServeStep ==
  ASSUME BroadcastInv, NEW c \in Connections, Serve(c)
  PROVE  BroadcastInv'
<1>1. PICK call : call = Head(wire[c])
  OBVIOUS
<1>2. \/ ServedLost(c)
      \/ Up(c) /\ (StartJoined(c, call) \/ ReconnectJoined(c, call) \/ Replayed(c, call) \/ Done(c, call))
  BY <1>1, ServeCases
<1>3. QED
  BY <1>1, <1>2, ServedLostStep, StartJoinedStep, ReconnectJoinedStep, ReplayedStep, DoneStep

\* The server notices that a connection is lost.
LEMMA DisconnectStep ==
  ASSUME BroadcastInv, NEW c \in Connections, Disconnect(c)
  PROVE  BroadcastInv'
<1>1. /\ lost[c] /\ ~left[c] /\ left' = [left EXCEPT ![c] = TRUE] /\ wire' = [wire EXCEPT ![c] = <<>>]
      /\ UNCHANGED <<rdl, selectedIds, claimedRef, pushTimer, selectionTimer, link, conn, ready, waiting,
                     chain, heldRef, connectionId, selects, refreshes, outages, lost, pushed, granted>>
  BY DEF Disconnect, editor, timers, hub, refs, bounds
<1>2. /\ wire \in [Connections -> Seq(Calls)] /\ left \in [Connections -> BOOLEAN]
      /\ session \in [Connections -> {Session, None}] /\ selection \in [Connections -> SUBSET Elements]
      /\ holder \in [{Session} -> [Elements -> Connections \cup {None}]]
  BY DEF BroadcastInv, BroadcastTypes
<1>3. <<>> \in Seq(Calls) /\ {} \in SUBSET Elements /\ Session # None /\ c # None
  BY BroadcastAssumption DEF Connections
<1>4. \A e \in Elements : holder[Session][e] = c => session[c] = Session
  BY <1>3 DEF BroadcastInv, ConnectionsInv
<1>5. /\ session' = [session EXCEPT ![c] = None] /\ selection' = [selection EXCEPT ![c] = {}]
      /\ holder' = [s \in {Session} |->
                      [e \in Elements |->
                         IF s = session[c] /\ holder[s][e] = c THEN None ELSE holder[s][e]]]
  BY DEF Disconnect, presence!Drop
<1>6. /\ holder' \in [{Session} -> [Elements -> Connections \cup {None}]]
      /\ \A e \in Elements : holder'[Session][e] = IF holder[Session][e] = c THEN None ELSE holder[Session][e]
  <2>1. \A e \in Elements :
          holder'[Session][e] = IF Session = session[c] /\ holder[Session][e] = c THEN None
                                ELSE holder[Session][e]
    BY <1>5
  <2>2. holder' \in [{Session} -> [Elements -> Connections \cup {None}]]
    BY <1>2, <1>5
  <2>3. QED
    BY <1>4, <2>1, <2>2
<1>7. /\ wire' \in [Connections -> Seq(Calls)] /\ wire'[c] = <<>>
      /\ left' \in [Connections -> BOOLEAN] /\ left'[c]
      /\ session' \in [Connections -> {Session, None}] /\ session'[c] = None
      /\ selection' \in [Connections -> SUBSET Elements]
      /\ \A d \in Connections \ {c} : /\ wire'[d] = wire[d] /\ left'[d] = left[d]
                                      /\ session'[d] = session[d] /\ selection'[d] = selection[d]
  BY <1>1, <1>2, <1>3, <1>5
<1>8. ~Up(c)
  BY <1>1 DEF Up, BroadcastInv, ConnectionsInv
<1>9. BroadcastTypes'
  BY <1>1, <1>6, <1>7 DEF BroadcastInv, BroadcastTypes
<1>10. ConnectionsInv'
  <2>1. Newest' = Newest /\ \A d : Up(d)' <=> Up(d)
    BY <1>1 DEF Newest, Up
  <2>2. ASSUME NEW d \in Connections, ~Up(d)
        PROVE  Untouched(d)' \/ (lost'[d] /\ d < Newest')
    <3>1. CASE d = c
      BY <1>1, <1>8, <2>1, <3>1 DEF BroadcastInv, ConnectionsInv, Untouched
    <3>2. CASE d # c
      BY <1>1, <1>7, <2>1, <2>2, <3>2 DEF BroadcastInv, ConnectionsInv, Untouched
    <3>3. QED
      BY <3>1, <3>2
  <2>3. \A d \in Connections : left'[d] => lost'[d] /\ session'[d] = None /\ wire'[d] = <<>>
    BY <1>1, <1>7 DEF BroadcastInv, ConnectionsInv
  <2>4. ASSUME NEW e \in Elements, holder'[Session][e] # None
        PROVE  session'[holder'[Session][e]] = Session
    <3>1. PICK d : d = holder'[Session][e]
      OBVIOUS
    <3>2. d \in Connections \ {c} /\ d = holder[Session][e] /\ d # None
      BY <1>2, <1>3, <1>6, <2>4, <3>1
    <3>3. session'[d] = Session
      BY <1>7, <3>2 DEF BroadcastInv, ConnectionsInv
    <3>4. QED
      BY <3>1, <3>3
  <2>5. QED
    BY <1>1, <2>1, <2>2, <2>3, <2>4 DEF BroadcastInv, ConnectionsInv
<1>11. EditorInv'
  BY <1>1 DEF BroadcastInv, EditorInv
<1>12. CallsInv'
  <2>1. SUFFICES ASSUME link = "connected"
                 PROVE  PublicationsInv(wire[conn])' /\ LocksInv(wire[conn])'
    BY <1>1 DEF CallsInv
  <2>2. conn \in Connections /\ c # conn /\ conn # None
    BY <1>8, <2>1, BroadcastAssumption DEF Up, BroadcastInv, BroadcastTypes, ConnectionsInv, Newest, Connections
  <2>3. wire'[conn] = wire[conn] /\ session'[conn] = session[conn] /\ selection'[conn] = selection[conn]
    BY <1>7, <2>2
  <2>4. \A e \in Elements : holder'[Session][e] = conn <=> holder[Session][e] = conn
    BY <1>6, <2>2
  <2>5. PublicationsInv(wire[conn]) /\ LocksInv(wire[conn])
    BY <2>1 DEF BroadcastInv, CallsInv
  <2>6. claimedRef \in Elements \cup {None} /\ (granted => claimedRef # None)
    BY DEF BroadcastInv, BroadcastTypes, EditorInv
  <2>7. PublicationsInv(wire[conn])'
    BY <1>1, <2>3, <2>5 DEF PublicationsInv
  <2>8. LocksInv(wire[conn])'
    BY <1>1, <2>3, <2>4, <2>5, <2>6 DEF LocksInv
  <2>9. QED
    BY <2>7, <2>8
<1>13. QED
  BY <1>9, <1>10, <1>11, <1>12 DEF BroadcastInv

-----------------------------------------------------------------------------
(* The theorems                                                            *)

\* The invariant holds in every reachable state: what is on its way to the server,
\* together with what it already knows, amounts to what the builder shows.
THEOREM BroadcastInvHolds == Spec => []BroadcastInv
<1>1. Init => BroadcastInv
  BY InitBroadcast
<1>2. BroadcastInv /\ [Next]_vars => BroadcastInv'
  <2>1. SUFFICES ASSUME BroadcastInv, [Next]_vars
                 PROVE  BroadcastInv'
    OBVIOUS
  <2>2. CASE Edit
    BY <2>1, <2>2, EditStep
  <2>3. ASSUME NEW ids \in SUBSET Elements, Select(ids)
        PROVE  BroadcastInv'
    BY <2>1, <2>3, SelectStep
  <2>4. CASE PushSettled
    BY <2>1, <2>4, PushStep
  <2>5. CASE SelectionSettled
    BY <2>1, <2>5, SelectionSettledStep
  <2>6. CASE RefreshToken
    BY <2>1, <2>6, RefreshStep
  <2>7. CASE Started
    BY <2>1, <2>7, OpenStep DEF Started
  <2>8. CASE Reconnected
    BY <2>1, <2>8, OpenStep DEF Reconnected
  <2>9. CASE StartFailed
    BY <2>1, <2>9, StartFailedStep
  <2>10. CASE Dropped
    BY <2>1, <2>10, DroppedStep
  <2>11. CASE GaveUp
    BY <2>1, <2>11, GaveUpStep
  <2>12. ASSUME NEW c \in Connections, Serve(c)
         PROVE  BroadcastInv'
    BY <2>1, <2>12, ServeStep
  <2>13. ASSUME NEW c \in Connections, Disconnect(c)
         PROVE  BroadcastInv'
    BY <2>1, <2>13, DisconnectStep
  <2>14. CASE UNCHANGED vars
    <3>1. /\ UNCHANGED <<rdl, selectedIds, claimedRef, pushTimer, selectionTimer, link, conn, ready, waiting>>
          /\ UNCHANGED <<chain, heldRef, connectionId, selects, refreshes, outages, wire, lost, left>>
          /\ UNCHANGED <<pushed, granted, session, selection, holder>>
      BY <2>14 DEF vars, editor, timers, hub, refs, bounds, server, registry
    <3>2. BroadcastTypes' /\ EditorInv'
      BY <2>1, <3>1 DEF BroadcastInv, BroadcastTypes, EditorInv
    <3>3. ConnectionsInv' /\ CallsInv'
      BY <2>1, <3>1, ConnectionsStay, CallsStay DEF BroadcastInv
    <3>4. QED
      BY <3>2, <3>3 DEF BroadcastInv
  <2>15. QED
    BY <2>1, <2>2, <2>3, <2>4, <2>5, <2>6, <2>7, <2>8, <2>9, <2>10, <2>11, <2>12, <2>13, <2>14
    DEF Next, Rest
<1>3. QED
  BY <1>1, <1>2, PTL DEF Spec

\* At rest nothing is on its way and every other connection has left.
LEMMA RestFacts ==
  ASSUME BroadcastInv, AtRest
  PROVE  /\ link = "connected" /\ conn \in Connections /\ chain = "none" /\ ~pushTimer /\ ~selectionTimer
         /\ ready /\ wire[conn] = <<>>
         /\ \A c \in Connections : session[c] # None <=> c = conn
<1>1. link = "connected" /\ chain = "none" /\ ~pushTimer /\ ~selectionTimer /\ wire[conn] = <<>> /\ ready
  BY DEF AtRest, BroadcastInv, EditorInv
<1>2. conn \in Connections /\ Session # None
  BY <1>1, BroadcastAssumption DEF BroadcastInv, BroadcastTypes, ConnectionsInv, Newest
<1>3. session[conn] = Session
  BY <1>1 DEF BroadcastInv, CallsInv, PublicationsInv
<1>4. \A c \in Connections : c # conn => session[c] = None
  BY <1>1 DEF AtRest, BroadcastInv, ConnectionsInv, Up, Untouched
<1>5. QED
  BY <1>1, <1>2, <1>3, <1>4

\* Each change of the document reaches the watchers as long as the connection never
\* fails (usePreviewBroadcast.ts:38, 217-230).
THEOREM EditsArePushedHolds == Spec => []EditsArePushed
<1>1. BroadcastInv => EditsArePushed
  BY RestFacts DEF EditsArePushed, BroadcastInv, EditorInv
<1>2. QED
  BY <1>1, BroadcastInvHolds, PTL

\* Once everything has settled the server knows the editor's selection, under the one
\* connection that is up, and the editor knows which connection that is.
THEOREM SelectionIsPublishedHolds == Spec => []SelectionIsPublished
<1>1. ASSUME BroadcastInv
      PROVE  SelectionIsPublished
  <2>1. SUFFICES ASSUME AtRest
                 PROVE  /\ session[conn] = Session /\ selection[conn] = selectedIds
                        /\ {c \in Connections : session[c] # None} = {conn}
                        /\ connectionId = conn
    BY DEF SelectionIsPublished
  <2>2. /\ link = "connected" /\ conn \in Connections /\ chain = "none" /\ ~selectionTimer
        /\ wire[conn] = <<>> /\ \A c \in Connections : session[c] # None <=> c = conn
    BY <1>1, <2>1, RestFacts
  <2>3. session[conn] = Session /\ connectionId = conn /\ Told(wire[conn], selection[conn], selectedIds)
    BY <1>1, <2>2 DEF BroadcastInv, CallsInv, PublicationsInv
  <2>4. selection[conn] = selectedIds
    BY <2>2, <2>3 DEF Told
  <2>5. QED
    BY <2>2, <2>3, <2>4
<1>2. QED
  BY <1>1, BroadcastInvHolds, PTL

\* Once everything has settled the editor locks nothing but its sole selected element,
\* whatever was replayed, answered late or dropped on the way.
THEOREM NoStrayLockHolds == Spec => []NoStrayLock
<1>1. ASSUME BroadcastInv
      PROVE  NoStrayLock
  <2>1. SUFFICES ASSUME AtRest, NEW e \in Elements, holder[Session][e] # None
                 PROVE  holder[Session][e] = conn /\ e = Sole(selectedIds)
    BY DEF NoStrayLock
  <2>2. /\ link = "connected" /\ wire[conn] = <<>>
        /\ \A c \in Connections : session[c] # None <=> c = conn
    BY <1>1, <2>1, RestFacts
  <2>3. holder[Session][e] \in Connections /\ session[holder[Session][e]] = Session /\ Session # None
    BY <1>1, <2>1, BroadcastAssumption DEF BroadcastInv, BroadcastTypes, ConnectionsInv
  <2>4. holder[Session][e] = conn
    BY <2>2, <2>3
  <2>5. ~Has(wire[conn], Release(e))
    BY <2>2 DEF Has
  <2>6. e = claimedRef
    BY <1>1, <2>2, <2>4, <2>5 DEF BroadcastInv, CallsInv, LocksInv
  <2>7. QED
    BY <1>1, <2>4, <2>6 DEF BroadcastInv, EditorInv
<1>2. QED
  BY <1>1, BroadcastInvHolds, PTL

\* A granted lock is held again once everything has settled after a reconnect, as long
\* as its element is the sole selection (usePreviewBroadcast.ts:171-181, 198).
THEOREM LockIsKeptHolds == Spec => []LockIsKept
<1>1. ASSUME BroadcastInv
      PROVE  LockIsKept
  <2>1. SUFFICES ASSUME AtRest, granted, refreshes = 0
                 PROVE  holder[Session][Sole(selectedIds)] = conn
    BY DEF LockIsKept
  <2>2. link = "connected" /\ wire[conn] = <<>> /\ chain = "none"
    BY <1>1, <2>1, RestFacts
  <2>3. ~Has(wire[conn], Claim(claimedRef))
    BY <2>2 DEF Has
  <2>4. claimedRef = Sole(selectedIds) /\ holder[Session][claimedRef] = conn
    BY <1>1, <2>1, <2>2, <2>3 DEF BroadcastInv, EditorInv, CallsInv, LocksInv
  <2>5. QED
    BY <2>4
<1>2. QED
  BY <1>1, BroadcastInvHolds, PTL
=============================================================================
