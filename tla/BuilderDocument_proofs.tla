------------------------ MODULE BuilderDocument_proofs ------------------------
(***************************************************************************)
(* Proofs about the builder's document: its types, that the editor only    *)
(* holds versions of the template in its route, that undo and redo run     *)
(* through the edits in order, that what is shown as loading is loaded,    *)
(* that a document is created once, and that a load never replaces edits   *)
(* that are not saved.                                                     *)
(*                                                                         *)
(* DocumentInv is one invariant for the first four: whether the editor     *)
(* shows its template depends on whose loads are current, and the order of *)
(* the history on no document being newer than the last edit. CreationInv  *)
(* keeps account of what was created for the document in the editor.       *)
(***************************************************************************)
EXTENDS BuilderDocument, SequenceTheorems, FiniteSetTheorems, TLAPS

Routes == Ids \cup {"new"}

\* The documents the first n edits can have produced, and those of one template.
DocumentsUpTo(n) == [of : Routes, edit : 0 .. n]
DocumentsOf(r)   == {d \in DocumentsUpTo(edits) : d.of = r}

SavesOf(n) == [n : Nat, to : Routes, doc : DocumentsUpTo(n), mine : BOOLEAN,
               created : Ids \cup {None}, served : BOOLEAN]

\* Everything in the history is one of S.
HistoryIn(S) == past \in Seq(S) /\ present \in S /\ future \in Seq(S)

Increasing(s) == \A i, j \in 1 .. Len(s) : i < j => s[i].edit < s[j].edit

Chronological ==
  /\ Increasing(past) /\ Increasing(future)
  /\ \A i \in 1 .. Len(past) : past[i].edit < present.edit
  /\ \A i \in 1 .. Len(future) : present.edit < future[i].edit

HistoryInv ==
  /\ edits \in 0 .. MaxEdits
  /\ HistoryIn(DocumentsUpTo(edits))
  /\ Len(past) + Len(future) <= HistoryLimit
  /\ tag \in Tags \cup {None}
  /\ Chronological

LoadsOf(n) == [id : Ids, current : BOOLEAN, read : 0 .. n \cup {None}]

\* What the server has read for a load is there; nothing takes it away.
ReadsExist == \A l \in loads : l.read # None => stored[l.id] # None

RequestInv ==
  /\ route \in Routes \cup {"away"}
  /\ {loading, loadError, saving} \subseteq BOOLEAN
  /\ loads \subseteq LoadsOf(edits) /\ ReadsExist
  /\ stored \in [Ids -> 0 .. edits \cup {None}]
  /\ requests \in Nat
  /\ saves \subseteq SavesOf(edits)
  /\ \A s \in saves : s.served /\ s.to = "new" => s.created \in Ids

\* Only the load of the template in the route is current.
CurrentLoads == \A l \in loads : l.current => l.id = route

ShowsItsTemplate == Visible => HistoryIn(DocumentsOf(route))

DocumentInv ==
  /\ HistoryInv /\ RequestInv
  /\ CurrentLoads /\ ShowsItsTemplate /\ LoadingIsUnderWay

-----------------------------------------------------------------------------
(* The operations of history.ts                                            *)

\* A fresh history has nothing to undo or redo.
LEMMA SeedHistory ==
  ASSUME NEW S, NEW document \in S, Seed(document)
  PROVE  /\ HistoryIn(S)' /\ Chronological'
         /\ Len(past') + Len(future') = 0 /\ tag' = None
BY DEF Seed, HistoryIn, Chronological, Increasing

\* The cap keeps the last HISTORY_LIMIT of a sequence.
LEMMA CappedLast ==
  ASSUME NEW S, NEW s \in Seq(S)
  PROVE  /\ Capped(s) \in Seq(S)
         /\ Len(Capped(s)) <= HistoryLimit /\ (Len(s) > 0 => Len(Capped(s)) > 0)
         /\ \E k \in Nat : /\ Len(Capped(s)) + k = Len(s)
                           /\ \A i \in 1 .. Len(Capped(s)) : Capped(s)[i] = s[i + k]
<1>1. CASE Len(s) > HistoryLimit
  <2> DEFINE m == Len(s) - HistoryLimit + 1
  <2>1. m \in Int /\ Len(s) \in Int /\ m >= 1 /\ m <= Len(s)
    BY <1>1, LenProperties, DocumentAssumption
  <2>2. \A i \in m .. Len(s) : s[i] \in S
    BY <2>1, ElementOfSeq
  <2> HIDE DEF m
  <2>3. /\ SubSeq(s, m, Len(s)) \in Seq(S)
        /\ Len(SubSeq(s, m, Len(s))) = Len(s) - m + 1
        /\ \A i \in 1 .. Len(s) - m + 1 : SubSeq(s, m, Len(s))[i] = s[m + i - 1]
    BY <2>1, <2>2, SubSeqProperties
  <2>4. Capped(s) = SubSeq(s, m, Len(s))
    BY <1>1 DEF Capped, m
  <2>5. Len(s) - m + 1 = HistoryLimit /\ m - 1 \in Nat
    BY <2>1, DocumentAssumption DEF m
  <2>6. \A i \in 1 .. Len(Capped(s)) : Capped(s)[i] = s[i + (m - 1)]
    BY <2>1, <2>3, <2>4
  <2>7. /\ Len(Capped(s)) + (m - 1) = Len(s) /\ Len(Capped(s)) <= HistoryLimit
        /\ Len(Capped(s)) > 0
    BY <2>1, <2>3, <2>4, <2>5, DocumentAssumption
  <2>8. QED
    BY <2>3, <2>4, <2>5, <2>6, <2>7
<1>2. CASE ~(Len(s) > HistoryLimit)
  <2>1. Capped(s) = s /\ Len(s) \in Nat
    BY <1>2, LenProperties DEF Capped
  <2>2. Len(Capped(s)) + 0 = Len(s) /\ 0 \in Nat
    BY <2>1
  <2>3. \A i \in 1 .. Len(Capped(s)) : Capped(s)[i] = s[i + 0]
    BY <2>1
  <2>4. /\ Capped(s) \in Seq(S) /\ Len(Capped(s)) <= HistoryLimit
        /\ Len(s) > 0 => Len(Capped(s)) > 0
    BY <1>2, <2>1, DocumentAssumption
  <2>5. QED
    BY <2>2, <2>3, <2>4, Zenon
<1>3. QED
  BY <1>1, <1>2

\* The last of a sequence is the last of what the cap keeps of it.
LEMMA CappedEndsWithTheLast ==
  ASSUME NEW S, NEW s \in Seq(S), Len(s) > 0
  PROVE  /\ Len(Capped(s)) \in 1 .. Len(Capped(s))
         /\ Capped(s)[Len(Capped(s))] = s[Len(s)]
<1>1. PICK c : c = Capped(s)
  OBVIOUS
<1>2. /\ c \in Seq(S) /\ Len(c) > 0 /\ Len(c) \in Nat
      /\ \E k \in Nat : Len(c) + k = Len(s) /\ \A i \in 1 .. Len(c) : c[i] = s[i + k]
  BY <1>1, CappedLast, LenProperties
<1>3. QED
  BY <1>1, <1>2

\* A sequence of documents stays in order with a newer one at its end.
LEMMA AppendInOrder ==
  ASSUME NEW S, NEW s \in Seq(S), NEW d \in S, Increasing(s),
         \A i \in 1 .. Len(s) : s[i].edit < d.edit
  PROVE  Increasing(Append(s, d))
<1>1. /\ Len(s) \in Nat /\ Len(Append(s, d)) = Len(s) + 1
      /\ \A i \in 1 .. Len(s) : Append(s, d)[i] = s[i]
      /\ Append(s, d)[Len(s) + 1] = d
  BY AppendProperties, LenProperties
<1>2. SUFFICES ASSUME NEW i \in 1 .. Len(s) + 1, NEW j \in 1 .. Len(s) + 1, i < j
               PROVE  Append(s, d)[i].edit < Append(s, d)[j].edit
  BY <1>1 DEF Increasing
<1>3. i \in 1 .. Len(s)
  BY <1>1, <1>2
<1>4. CASE j \in 1 .. Len(s)
  BY <1>1, <1>2, <1>3, <1>4 DEF Increasing
<1>5. CASE j = Len(s) + 1
  BY <1>1, <1>3, <1>5
<1>6. QED
  BY <1>1, <1>4, <1>5

\* A recorded document joins the history, in place of what could be redone.
LEMMA RecordIn ==
  ASSUME NEW S, NEW document \in S, NEW t, HistoryIn(S), Record(document, t)
  PROVE  HistoryIn(S)'
<1>1. Append(past, present) \in Seq(S)
  BY DEF HistoryIn
<1>2. past' = past \/ past' = Capped(Append(past, present))
  BY DEF Record
<1>3. past' \in Seq(S)
  BY <1>1, <1>2, CappedLast DEF HistoryIn
<1>4. QED
  BY <1>3 DEF Record, HistoryIn

\* A recorded document that is newer than the history keeps it in order.
LEMMA RecordInOrder ==
  ASSUME HistoryInv, NEW document, NEW t \in Tags \cup {None}, Record(document, t),
         document.edit = edits + 1
  PROVE  /\ Chronological' /\ Len(past') + Len(future') <= HistoryLimit
         /\ tag' \in Tags \cup {None}
<1> DEFINE S == DocumentsUpTo(edits)
<1>0. /\ past \in Seq(S) /\ present \in S /\ Len(past) \in Nat
      /\ edits \in Nat
  BY DEF HistoryInv, HistoryIn
<1>a. \A d \in S : d.edit \in Nat /\ d.edit < edits + 1
  BY <1>0 DEF DocumentsUpTo
<1> HIDE DEF S
<1>1. \A i \in 1 .. Len(past) : past[i] \in S
  BY <1>0, ElementOfSeq
<1>2. future' = <<>> /\ present' = document /\ Len(future') = 0
  BY DEF Record
<1>3. CASE past' = past /\ tag' = tag
  <2>1. Len(past') + Len(future') <= HistoryLimit /\ tag' \in Tags \cup {None}
    <3>1. Len(future) \in Nat /\ Len(past) + Len(future) <= HistoryLimit
      BY LenProperties DEF HistoryInv, HistoryIn
    <3>2. HistoryLimit \in Nat
      BY DocumentAssumption
    <3>3. QED
      BY <1>0, <1>2, <1>3, <3>1, <3>2 DEF HistoryInv
  <2>2. Increasing(past')
    BY <1>3 DEF HistoryInv, Chronological
  <2>3. \A i \in 1 .. Len(past') : past'[i].edit < present'.edit
    BY <1>a, <1>1, <1>2, <1>3
  <2>4. QED
    BY <1>2, <2>1, <2>2, <2>3 DEF Chronological, Increasing
<1>4. CASE past' = Capped(Append(past, present)) /\ tag' = t
  <2> DEFINE s == Append(past, present)
  <2>1. /\ s \in Seq(S) /\ Len(s) = Len(past) + 1
        /\ \A i \in 1 .. Len(past) : s[i] = past[i]
        /\ s[Len(past) + 1] = present
    BY <1>0
  <2> HIDE DEF s
  <2>2. \A i \in 1 .. Len(s) : s[i] \in S
    BY <1>0, <1>1, <2>1
  <2>3. Increasing(s)
    BY <1>0, AppendInOrder DEF HistoryInv, Chronological, s
  <2>4. PICK k \in Nat : /\ Len(Capped(s)) + k = Len(s)
                         /\ \A i \in 1 .. Len(Capped(s)) : Capped(s)[i] = s[i + k]
    BY <2>1, CappedLast
  <2>5. Len(Capped(s)) \in Nat /\ Len(Capped(s)) <= HistoryLimit
    BY <2>1, CappedLast, LenProperties
  <2>6. \A i \in 1 .. Len(Capped(s)) : i + k \in 1 .. Len(s)
    BY <1>0, <2>1, <2>4, <2>5
  <2>7. past' = Capped(s)
    BY <1>4 DEF s
  <2>8. Increasing(Capped(s))
    <3>1. SUFFICES ASSUME NEW i \in 1 .. Len(Capped(s)), NEW j \in 1 .. Len(Capped(s)),
                          i < j
                   PROVE  Capped(s)[i].edit < Capped(s)[j].edit
      BY DEF Increasing
    <3>2. i + k < j + k
      BY <2>4, <2>5, <3>1
    <3>3. QED
      BY <2>3, <2>4, <2>6, <3>2 DEF Increasing
  <2>9. \A i \in 1 .. Len(past') : past'[i].edit < present'.edit
    BY <1>a, <1>2, <2>2, <2>4, <2>6, <2>7
  <2>10. QED
    BY <1>2, <1>4, <2>5, <2>7, <2>8, <2>9, DocumentAssumption DEF Chronological, Increasing
<1>5. QED
  BY <1>3, <1>4 DEF Record

\* Undo moves the present to the future, and the order of the history is kept.
LEMMA UndoKeepsHistory ==
  ASSUME NEW S, \A d \in S : d.edit \in Nat, HistoryIn(S), Undo
  PROVE  /\ HistoryIn(S)' /\ Len(past') + Len(future') = Len(past) + Len(future)
         /\ Chronological => Chronological'
<1> DEFINE n == Len(past) - 1
<1>0. /\ past \in Seq(S) /\ present \in S /\ future \in Seq(S) /\ past # <<>>
      /\ present' = past[Len(past)]
  BY DEF HistoryIn, Undo
<1>1. /\ Len(past) \in Nat \ {0} /\ Len(future) \in Nat
      /\ \A i \in 1 .. Len(past) : past[i] \in S
      /\ \A i \in 1 .. Len(future) : future[i] \in S
  BY <1>0, LenProperties, EmptySeq, ElementOfSeq
<1>2. n \in Nat /\ n + 1 = Len(past) /\ past' = SubSeq(past, 1, n)
  BY <1>1 DEF Undo
<1> HIDE DEF n
<1>3. \A i \in 1 .. n : past[i] \in S
  BY <1>1, <1>2
<1>4. /\ past' \in Seq(S) /\ Len(past') = n
      /\ \A i \in 1 .. n : past'[i] = past[i]
  BY <1>2, <1>3, SubSeqProperties
<1>5. <<present>> \in Seq(S) /\ Len(<<present>>) = 1 /\ future' = <<present>> \o future
  BY <1>0 DEF Undo
<1>6. /\ future' \in Seq(S) /\ Len(future') = 1 + Len(future)
      /\ future'[1] = present
      /\ \A i \in 1 .. Len(future) : future'[i + 1] = future[i]
  BY <1>0, <1>1, <1>5, ConcatProperties
<1>7. HistoryIn(S)'
  BY <1>0, <1>1, <1>4, <1>6 DEF HistoryIn
<1>8. Len(past') + Len(future') = Len(past) + Len(future)
  BY <1>1, <1>2, <1>4, <1>6
<1>9. ASSUME Chronological PROVE Chronological'
  <2>1. Increasing(past')
    BY <1>1, <1>2, <1>4, <1>9 DEF Chronological, Increasing
  <2>2. ASSUME NEW i \in 1 .. Len(past') PROVE past'[i].edit < present'.edit
    <3>1. i \in 1 .. Len(past) /\ Len(past) \in 1 .. Len(past) /\ i < Len(past)
      BY <1>1, <1>2, <1>4
    <3>2. past[i].edit < past[Len(past)].edit
      BY <1>9, <3>1 DEF Chronological, Increasing
    <3>3. QED
      BY <1>0, <1>4, <3>2
  <2>3. /\ present'.edit \in Nat /\ present.edit \in Nat /\ present'.edit < present.edit
        /\ \A i \in 1 .. Len(future) : present.edit < future[i].edit /\ future[i].edit \in Nat
    BY <1>0, <1>1, <1>9 DEF Chronological
  <2>4. ASSUME NEW i \in 1 .. Len(future') PROVE present'.edit < future'[i].edit
    <3>1. CASE i = 1
      BY <1>6, <2>3, <3>1
    <3>2. CASE i - 1 \in 1 .. Len(future)
      <4>1. future'[i] = future[i - 1]
        BY <1>6, <2>4, <3>2
      <4>2. QED
        BY <2>3, <3>2, <4>1
    <3>3. QED
      BY <1>1, <1>6, <3>1, <3>2
  <2>5. Increasing(future')
    <3>1. SUFFICES ASSUME NEW i \in 1 .. Len(future'), NEW j \in 1 .. Len(future'), i < j
                   PROVE  future'[i].edit < future'[j].edit
      BY DEF Increasing
    <3>2. j - 1 \in 1 .. Len(future) /\ future'[j] = future[j - 1]
      BY <1>1, <1>6, <3>1
    <3>3. CASE i = 1
      BY <1>6, <2>3, <3>2, <3>3
    <3>4. CASE i - 1 \in 1 .. Len(future)
      <4>1. future'[i] = future[i - 1] /\ i - 1 < j - 1
        BY <1>1, <1>6, <3>1, <3>4
      <4>2. QED
        BY <1>9, <3>2, <3>4, <4>1 DEF Chronological, Increasing
    <3>5. QED
      BY <1>1, <1>6, <3>3, <3>4
  <2>6. QED
    BY <2>1, <2>2, <2>4, <2>5 DEF Chronological, Increasing
<1>10. QED
  BY <1>7, <1>8, <1>9

\* Redo moves the present to the past, and the order of the history is kept.
LEMMA RedoKeepsHistory ==
  ASSUME NEW S, \A d \in S : d.edit \in Nat, HistoryIn(S), Redo
  PROVE  /\ HistoryIn(S)' /\ Len(past') + Len(future') = Len(past) + Len(future)
         /\ Chronological => Chronological'
<1>0. /\ past \in Seq(S) /\ present \in S /\ future \in Seq(S) /\ future # <<>>
      /\ past' = Append(past, present)
      /\ present' = Head(future) /\ future' = Tail(future)
  BY DEF HistoryIn, Redo
<1>1. /\ Len(past) \in Nat /\ Len(future) \in Nat \ {0}
      /\ \A i \in 1 .. Len(past) : past[i] \in S
      /\ \A i \in 1 .. Len(future) : future[i] \in S
  BY <1>0, LenProperties, EmptySeq, ElementOfSeq
<1>2. /\ past' \in Seq(S) /\ Len(past') = Len(past) + 1
      /\ \A i \in 1 .. Len(past) : past'[i] = past[i]
      /\ past'[Len(past) + 1] = present
  BY <1>0, AppendProperties
<1>3. /\ present' \in S /\ present' = future[1]
      /\ future' \in Seq(S) /\ Len(future') = Len(future) - 1
      /\ \A i \in 1 .. Len(future') : future'[i] = future[i + 1]
  BY <1>0, HeadTailProperties
<1>4. HistoryIn(S)'
  BY <1>2, <1>3 DEF HistoryIn
<1>5. Len(past') + Len(future') = Len(past) + Len(future)
  BY <1>1, <1>2, <1>3
<1>6. ASSUME Chronological PROVE Chronological'
  <2>1. Increasing(past')
    <3>1. Increasing(Append(past, present))
      BY <1>0, <1>6, AppendInOrder DEF Chronological
    <3>2. QED
      BY <1>0, <3>1 DEF Increasing
  <2>2. ASSUME NEW i \in 1 .. Len(past') PROVE past'[i].edit < present'.edit
    <3>1. /\ present.edit \in Nat /\ present'.edit \in Nat
          /\ present.edit < present'.edit
      BY <1>0, <1>1, <1>3, <1>6 DEF Chronological
    <3>2. CASE i = Len(past) + 1
      BY <1>2, <3>1, <3>2
    <3>3. CASE i \in 1 .. Len(past)
      <4>1. past'[i] = past[i] /\ past[i].edit \in Nat /\ past[i].edit < present.edit
        BY <1>1, <1>2, <1>6, <3>3 DEF Chronological
      <4>2. QED
        BY <3>1, <4>1
    <3>4. QED
      BY <1>1, <1>2, <3>2, <3>3
  <2>3. \A i \in 1 .. Len(future') : i + 1 \in 1 .. Len(future)
    BY <1>1, <1>3
  <2>4. \A i \in 1 .. Len(future') : present'.edit < future'[i].edit
    <3>1. SUFFICES ASSUME NEW i \in 1 .. Len(future') PROVE present'.edit < future'[i].edit
      OBVIOUS
    <3>2. 1 \in 1 .. Len(future) /\ i + 1 \in 1 .. Len(future) /\ 1 < i + 1
      BY <1>1, <1>3, <2>3
    <3>3. future[1].edit < future[i + 1].edit
      BY <1>6, <3>2 DEF Chronological, Increasing
    <3>4. QED
      BY <1>3, <3>3
  <2>5. Increasing(future')
    <3>1. SUFFICES ASSUME NEW i \in 1 .. Len(future'), NEW j \in 1 .. Len(future'), i < j
                   PROVE  future'[i].edit < future'[j].edit
      BY DEF Increasing
    <3>2. i + 1 \in 1 .. Len(future) /\ j + 1 \in 1 .. Len(future) /\ i + 1 < j + 1
      BY <1>1, <1>3, <2>3, <3>1
    <3>3. future[i + 1].edit < future[j + 1].edit
      BY <1>6, <3>2 DEF Chronological, Increasing
    <3>4. QED
      BY <1>3, <3>3
  <2>6. QED
    BY <2>1, <2>2, <2>4, <2>5 DEF Chronological, Increasing
<1>7. QED
  BY <1>4, <1>5, <1>6

-----------------------------------------------------------------------------
(* What the actions have in common                                         *)

\* Every document the editor holds came with an edit number.
LEMMA EditsAreNumbers ==
  ASSUME HistoryInv
  PROVE  /\ edits \in Nat
         /\ \A d \in DocumentsUpTo(edits) : d.edit \in Nat
         /\ \A r : \A d \in DocumentsOf(r) : d.edit \in Nat
BY DocumentAssumption DEF HistoryInv, DocumentsUpTo, DocumentsOf

\* The history stays well formed when it is not touched.
LEMMA UntouchedHistory ==
  ASSUME HistoryInv, UNCHANGED <<history, edits>>
  PROVE  HistoryInv'
BY DEF HistoryInv, HistoryIn, Chronological, Increasing, DocumentsUpTo, history

\* The history is well formed after it has been seeded with any known document.
LEMMA SeededHistory ==
  ASSUME HistoryInv, NEW document \in DocumentsUpTo(edits), Seed(document), edits' = edits
  PROVE  HistoryInv'
<1>1. PICK S : S = DocumentsUpTo(edits)
  OBVIOUS
<1>2. S = DocumentsUpTo(edits)'
  BY <1>1 DEF DocumentsUpTo
<1>3. /\ HistoryIn(S)' /\ Chronological'
      /\ Len(past') + Len(future') = 0 /\ tag' = None
  BY <1>1, SeedHistory
<1>4. HistoryIn(DocumentsUpTo(edits))'
  BY <1>2, <1>3 DEF HistoryIn
<1>5. QED
  BY <1>3, <1>4, DocumentAssumption DEF HistoryInv

\* What the editor shows stays of the template in the route when neither changes.
LEMMA UntouchedEditor ==
  ASSUME ShowsItsTemplate, UNCHANGED <<route, history, edits>>, Visible' => Visible
  PROVE  ShowsItsTemplate'
BY DEF ShowsItsTemplate, HistoryIn, DocumentsOf, DocumentsUpTo, history

\* The editor shows the template in the route after being seeded with a version of it.
LEMMA SeededEditor ==
  ASSUME NEW document \in DocumentsUpTo(edits), Seed(document), edits' = edits,
         document.of = route'
  PROVE  ShowsItsTemplate'
<1>1. PICK S : S = DocumentsOf(route)'
  OBVIOUS
<1>2. document \in S
  BY <1>1 DEF DocumentsOf, DocumentsUpTo
<1>3. HistoryIn(S)'
  BY <1>2, SeedHistory
<1>4. HistoryIn(DocumentsOf(route))'
  BY <1>1, <1>3 DEF HistoryIn
<1>5. QED
  BY <1>4 DEF ShowsItsTemplate

\* The sample a new report starts from is a known document.
LEMMA SampleIsKnown ==
  ASSUME HistoryInv
  PROVE  Sample \in DocumentsUpTo(edits) /\ Sample.of = "new"
BY EditsAreNumbers DEF Sample, Document, DocumentsUpTo, Routes

\* The load effect leaves one current load at most: that of its route.
LEMMA LoadEffectKeepsLoads ==
  ASSUME RequestInv, HistoryInv, NEW r, LoadEffect(r), UNCHANGED <<stored, edits>>
  PROVE  /\ loads' \subseteq LoadsOf(edits)' /\ ReadsExist'
         /\ \A l \in loads' : l.current => l.id = r
         /\ r \in Ids => \E l \in loads' : l.id = r /\ l.current
<1>0. PICK new : new = [id |-> r, current |-> TRUE, read |-> None]
  OBVIOUS
<1>1. ASSUME NEW l \in Cancelled
      PROVE  l \in LoadsOf(edits) /\ ~l.current /\ (l.read # None => stored[l.id] # None)
  <2>1. PICK k \in loads : l = [k EXCEPT !.current = FALSE]
    BY DEF Cancelled
  <2>2. k \in LoadsOf(edits) /\ (k.read # None => stored[k.id] # None)
    BY DEF RequestInv, ReadsExist
  <2>3. QED
    BY <2>1, <2>2 DEF LoadsOf
<1>2. \A l \in loads' : l \in Cancelled \/ (r \in Ids /\ l = new)
  BY <1>0 DEF LoadEffect
<1>3. r \in Ids => new \in loads' /\ new.id = r /\ new.current
  BY <1>0 DEF LoadEffect
<1>4. \A l \in loads' : l \in LoadsOf(edits)
  <2>1. r \in Ids => new \in LoadsOf(edits)
    BY <1>0 DEF LoadsOf
  <2>2. QED
    BY <1>1, <1>2, <2>1, Zenon
<1>5. \A l \in loads' : l.current => l.id = r
  BY <1>0, <1>1, <1>2
<1>6. ReadsExist'
  BY <1>0, <1>1, <1>2 DEF ReadsExist
<1>7. LoadsOf(edits)' = LoadsOf(edits)
  BY DEF LoadsOf
<1>8. QED
  BY <1>3, <1>4, <1>5, <1>6, <1>7

\* Opening the builder for a template keeps the history in order, and shows the
\* template's own document or the loading shell of a load under way.
LEMMA OpenKeepsDocument ==
  ASSUME DocumentInv, NEW r \in Routes, Open(r), UNCHANGED <<stored, edits>>
  PROVE  /\ HistoryInv' /\ CurrentLoads' /\ ShowsItsTemplate' /\ LoadingIsUnderWay'
         /\ route' \in Routes /\ {loading', loadError'} \subseteq BOOLEAN
         /\ loads' \subseteq LoadsOf(edits)' /\ ReadsExist'
<1>1. /\ HistoryInv /\ RequestInv /\ ShowsItsTemplate
      /\ route' = r /\ LoadEffect(r) /\ loadError' = FALSE
  BY DEF DocumentInv, Open
<1>2. /\ loads' \subseteq LoadsOf(edits)' /\ ReadsExist'
      /\ CurrentLoads' /\ LoadingIsUnderWay'
  BY <1>1, LoadEffectKeepsLoads DEF CurrentLoads, LoadingIsUnderWay
<1>3. loading' \in BOOLEAN
  BY <1>1 DEF Open, RequestInv
<1>4. CASE Seed(Sample) /\ (r = "new" \/ loading')
  <2>1. HistoryInv'
    BY <1>1, <1>4, SeededHistory, SampleIsKnown
  <2>2. ASSUME r = "new" PROVE ShowsItsTemplate'
    BY <1>1, <1>4, <2>2, SeededEditor, SampleIsKnown
  <2>3. ASSUME r # "new" PROVE ShowsItsTemplate'
    BY <1>1, <1>4, <2>3 DEF ShowsItsTemplate, Visible
  <2>4. QED
    BY <1>1, <1>2, <1>3, <1>4, <2>1, <2>2, <2>3
<1>5. CASE r # "new" /\ loading' = TRUE /\ UNCHANGED history
  <2>1. HistoryInv'
    BY <1>1, <1>5, UntouchedHistory
  <2>2. ShowsItsTemplate'
    BY <1>1, <1>5 DEF ShowsItsTemplate, Visible
  <2>3. QED
    BY <1>1, <1>2, <1>3, <2>1, <2>2
<1>6. QED
  BY <1>4, <1>5 DEF Open

-----------------------------------------------------------------------------
(* The actions                                                             *)

\* An edit is newer than the history, and of the template the editor shows.
LEMMA CommitKeepsDocument ==
  ASSUME DocumentInv, NEW t \in Tags \cup {None}, Commit(t)
  PROVE  DocumentInv'
<1> DEFINE document == Document(present.of, edits + 1)
<1>1. /\ HistoryInv /\ RequestInv /\ CurrentLoads /\ ShowsItsTemplate /\ LoadingIsUnderWay
      /\ Visible /\ edits < MaxEdits /\ edits' = edits + 1
      /\ Record(document, t) /\ document.edit = edits + 1
      /\ UNCHANGED <<route, flags, loads, saves, stored, requests>>
  BY DEF DocumentInv, Commit, Document
<1>2. edits \in Nat /\ edits' \in 0 .. MaxEdits
  BY <1>1, EditsAreNumbers, DocumentAssumption
<1>3. /\ DocumentsUpTo(edits) \subseteq DocumentsUpTo(edits)'
      /\ document \in DocumentsUpTo(edits)'
  BY <1>1, <1>2 DEF DocumentsUpTo, HistoryInv, HistoryIn, Document
<1>4. HistoryIn(DocumentsUpTo(edits))'
  <2>1. PICK S : S = DocumentsUpTo(edits)'
    OBVIOUS
  <2>2. HistoryIn(S)
    BY <1>1, <1>3, <2>1, SeqMonotonic DEF HistoryInv, HistoryIn
  <2>3. HistoryIn(S)'
    BY <1>1, <1>3, <2>1, <2>2, RecordIn
  <2>4. QED
    BY <2>1, <2>3 DEF HistoryIn
<1>5. HistoryInv'
  BY <1>1, <1>2, <1>4, RecordInOrder DEF HistoryInv
<1>6. ShowsItsTemplate'
  <2>1. PICK S : S = DocumentsOf(route)'
    OBVIOUS
  <2>2. DocumentsOf(route) \subseteq S
    BY <1>1, <1>3, <2>1 DEF DocumentsOf
  <2>3. HistoryIn(DocumentsOf(route))
    BY <1>1 DEF ShowsItsTemplate
  <2>4. HistoryIn(S)
    BY <2>2, <2>3, SeqMonotonic DEF HistoryIn
  <2>5. present.of = route
    BY <2>3 DEF HistoryIn, DocumentsOf
  <2>6. document \in S
    BY <1>1, <1>3, <2>1, <2>5 DEF DocumentsOf, Document
  <2>7. HistoryIn(S)'
    BY <1>1, <2>4, <2>6, RecordIn
  <2>8. QED
    BY <2>1, <2>7 DEF HistoryIn, ShowsItsTemplate
<1>7. RequestInv'
  <2>1. SavesOf(edits) \subseteq SavesOf(edits)'
    BY <1>3 DEF SavesOf
  <2>2. stored' \in [Ids -> 0 .. edits' \cup {None}]
    BY <1>1, <1>2 DEF RequestInv
  <2>3. loads' \subseteq LoadsOf(edits)' /\ ReadsExist'
    <3>1. LoadsOf(edits) \subseteq LoadsOf(edits)'
      BY <1>1, <1>2 DEF LoadsOf
    <3>2. QED
      BY <1>1, <3>1 DEF RequestInv, ReadsExist
  <2>4. QED
    BY <1>1, <2>1, <2>2, <2>3 DEF RequestInv, flags
<1>8. QED
  BY <1>1, <1>5, <1>6, <1>7 DEF DocumentInv, CurrentLoads, LoadingIsUnderWay, flags

\* Undo and redo only bring back what the history holds.
LEMMA UndoRedoKeepsDocument ==
  ASSUME DocumentInv, Undo \/ Redo
  PROVE  DocumentInv'
<1>1. /\ HistoryInv /\ RequestInv /\ CurrentLoads /\ ShowsItsTemplate /\ LoadingIsUnderWay
      /\ Visible /\ tag' = None
      /\ UNCHANGED <<route, flags, loads, saves, stored, edits, requests>>
  BY DEF DocumentInv, Undo, Redo, counters
<1>2. HistoryInv'
  <2>1. PICK S : S = DocumentsUpTo(edits)
    OBVIOUS
  <2>2. HistoryIn(S) /\ Chronological /\ \A d \in S : d.edit \in Nat
    BY <1>1, <2>1, EditsAreNumbers DEF HistoryInv
  <2>3. /\ HistoryIn(S)' /\ Len(past') + Len(future') = Len(past) + Len(future)
        /\ Chronological'
    BY <2>2, UndoKeepsHistory, RedoKeepsHistory
  <2>4. HistoryIn(DocumentsUpTo(edits))'
    BY <1>1, <2>1, <2>3 DEF HistoryIn, DocumentsUpTo
  <2>5. QED
    BY <1>1, <2>3, <2>4 DEF HistoryInv
<1>3. ShowsItsTemplate'
  <2>1. PICK S : S = DocumentsOf(route)
    OBVIOUS
  <2>2. HistoryIn(S) /\ \A d \in S : d.edit \in Nat
    BY <1>1, <2>1, EditsAreNumbers DEF ShowsItsTemplate
  <2>3. HistoryIn(S)'
    BY <2>2, UndoKeepsHistory, RedoKeepsHistory
  <2>4. QED
    BY <1>1, <2>1, <2>3 DEF ShowsItsTemplate, HistoryIn, DocumentsOf, DocumentsUpTo
<1>4. SavesOf(edits)' = SavesOf(edits) /\ LoadsOf(edits)' = LoadsOf(edits) /\ ReadsExist'
  BY <1>1 DEF SavesOf, DocumentsUpTo, LoadsOf, RequestInv, ReadsExist
<1>5. QED
  BY <1>1, <1>2, <1>3, <1>4
     DEF DocumentInv, RequestInv, CurrentLoads, LoadingIsUnderWay, flags

\* A change of the route inside the builder is a fresh start for its document.
LEMMA NavigateKeepsDocument ==
  ASSUME DocumentInv, NEW r \in Routes, Navigate(r)
  PROVE  DocumentInv'
<1>1. /\ Open(r) /\ edits' = edits /\ saving' \in BOOLEAN
      /\ UNCHANGED <<saves, stored, requests>>
  BY DEF Navigate, DocumentInv, RequestInv
<1>2. QED
  BY <1>1, OpenKeepsDocument DEF DocumentInv, RequestInv

\* Away from the builder nothing is shown, and no load is current.
LEMMA LeaveKeepsDocument ==
  ASSUME DocumentInv, Leave
  PROVE  DocumentInv'
<1>1. /\ HistoryInv /\ RequestInv
      /\ route' = "away" /\ "away" \notin Routes /\ Seed(Sample) /\ LoadEffect("away")
      /\ loading' = FALSE /\ loadError' = FALSE /\ saving' = FALSE
      /\ saves' = {[s EXCEPT !.mine = FALSE] : s \in saves}
      /\ UNCHANGED <<stored, edits, requests>>
  BY DocumentAssumption DEF DocumentInv, Leave, Routes
<1>2. HistoryInv'
  BY <1>1, SeededHistory, SampleIsKnown
<1>3. /\ loads' \subseteq LoadsOf(edits)' /\ ReadsExist' /\ CurrentLoads'
      /\ ShowsItsTemplate' /\ LoadingIsUnderWay'
  BY <1>1, LoadEffectKeepsLoads
     DEF CurrentLoads, ShowsItsTemplate, Visible, LoadingIsUnderWay, Routes
<1>4. /\ saves' \subseteq SavesOf(edits)'
      /\ \A s \in saves' : s.served /\ s.to = "new" => s.created \in Ids
  <2>1. SavesOf(edits)' = SavesOf(edits)
    BY <1>1 DEF SavesOf, DocumentsUpTo
  <2>2. ASSUME NEW s \in saves
        PROVE  LET q == [s EXCEPT !.mine = FALSE] IN
               /\ q \in SavesOf(edits)
               /\ q.served /\ q.to = "new" => q.created \in Ids
    <3>1. s \in SavesOf(edits) /\ (s.served /\ s.to = "new" => s.created \in Ids)
      BY <1>1 DEF RequestInv
    <3>2. QED
      BY <3>1 DEF SavesOf
  <2>3. QED
    BY <1>1, <2>1, <2>2
<1>5. QED
  BY <1>1, <1>2, <1>3, <1>4 DEF DocumentInv, RequestInv

\* A renewed token cancels the loads and makes the one of the route again.
LEMMA RefreshTokenKeepsDocument ==
  ASSUME DocumentInv, RefreshToken
  PROVE  DocumentInv'
<1>1. /\ HistoryInv /\ RequestInv /\ ShowsItsTemplate /\ LoadEffect(route)
      /\ UNCHANGED <<route, history, flags, saves, stored, edits, requests>>
  BY DEF DocumentInv, RefreshToken
<1>2. HistoryInv' /\ ShowsItsTemplate'
  BY <1>1, UntouchedHistory, UntouchedEditor DEF Visible, flags
<1>3. /\ loads' \subseteq LoadsOf(edits)' /\ ReadsExist'
      /\ CurrentLoads' /\ LoadingIsUnderWay'
  BY <1>1, LoadEffectKeepsLoads DEF CurrentLoads, LoadingIsUnderWay
<1>4. QED
  BY <1>1, <1>2, <1>3 DEF DocumentInv, RequestInv, flags

\* The answer to a current load seeds the document of the route; a late one, nothing.
LEMMA LoadAnsweredKeepsDocument ==
  ASSUME DocumentInv, NEW l \in loads, LoadAnswered(l)
  PROVE  DocumentInv'
<1> DEFINE document == Document(l.id, l.read)
<1>1. /\ HistoryInv /\ RequestInv /\ CurrentLoads /\ ShowsItsTemplate /\ LoadingIsUnderWay
      /\ loads' = loads \ {l} /\ l.read # None
      /\ UNCHANGED <<route, loadError, saving, saves, stored, edits, requests>>
  BY DEF DocumentInv, LoadAnswered, counters
<1>2. RequestInv' /\ CurrentLoads'
  <2>1. SavesOf(edits)' = SavesOf(edits)
    BY <1>1 DEF SavesOf, DocumentsUpTo
  <2>2. loading' \in BOOLEAN
    BY <1>1 DEF LoadAnswered, RequestInv
  <2>3. loads' \subseteq LoadsOf(edits)' /\ ReadsExist'
    BY <1>1 DEF LoadsOf, RequestInv, ReadsExist
  <2>4. CurrentLoads'
    BY <1>1 DEF CurrentLoads
  <2>5. {loading', loadError', saving'} \subseteq BOOLEAN
    BY <1>1, <2>2 DEF RequestInv
  <2>6. QED
    BY <1>1, <2>1, <2>3, <2>4, <2>5 DEF RequestInv
<1>3. CASE l.current /\ Seed(document) /\ loading' = FALSE
  <2>1. l.id = route /\ l.id \in Ids
    BY <1>1, <1>3 DEF CurrentLoads, RequestInv, LoadsOf
  <2>2. document \in DocumentsUpTo(edits) /\ document.of = route
    <3>1. l.read \in 0 .. edits
      BY <1>1 DEF RequestInv, LoadsOf
    <3>2. QED
      BY <2>1, <3>1 DEF Document, DocumentsUpTo, Routes
  <2>3. HistoryInv' /\ ShowsItsTemplate'
    BY <1>1, <1>3, <2>2, SeededHistory, SeededEditor
  <2>4. LoadingIsUnderWay'
    BY <1>3 DEF LoadingIsUnderWay
  <2>5. QED
    BY <1>2, <2>3, <2>4 DEF DocumentInv
<1>4. CASE ~l.current /\ UNCHANGED <<history, loading>>
  <2>1. HistoryInv' /\ ShowsItsTemplate'
    BY <1>1, <1>4, UntouchedHistory, UntouchedEditor DEF Visible
  <2>2. LoadingIsUnderWay'
    BY <1>1, <1>4 DEF LoadingIsUnderWay
  <2>3. QED
    BY <1>2, <2>1, <2>2 DEF DocumentInv
<1>5. QED
  BY <1>3, <1>4 DEF LoadAnswered

\* What the server reads for a load is a version the editor has had.
LEMMA LoadServedKeepsDocument ==
  ASSUME DocumentInv, NEW l \in loads, LoadServed(l)
  PROVE  DocumentInv'
<1>0. PICK new : new = [l EXCEPT !.read = stored[l.id]]
  OBVIOUS
<1>1. /\ HistoryInv /\ RequestInv /\ CurrentLoads /\ ShowsItsTemplate /\ LoadingIsUnderWay
      /\ loads' = (loads \ {l}) \cup {new} /\ stored[l.id] # None
      /\ UNCHANGED <<route, history, loading, loadError, saving, saves, stored, edits, requests>>
  BY <1>0 DEF DocumentInv, LoadServed, counters, flags
<1>2. /\ new \in LoadsOf(edits) /\ new.id = l.id /\ new.current = l.current
      /\ new.read = stored[l.id]
  BY <1>0, <1>1 DEF RequestInv, LoadsOf
<1>3. RequestInv' /\ CurrentLoads'
  <2>1. SavesOf(edits)' = SavesOf(edits) /\ LoadsOf(edits)' = LoadsOf(edits)
    BY <1>1 DEF SavesOf, DocumentsUpTo, LoadsOf
  <2>2. loads' \subseteq LoadsOf(edits)' /\ ReadsExist'
    BY <1>1, <1>2, <2>1 DEF RequestInv, ReadsExist
  <2>3. CurrentLoads'
    BY <1>1, <1>2 DEF CurrentLoads
  <2>4. QED
    BY <1>1, <2>1, <2>2, <2>3 DEF RequestInv
<1>4. HistoryInv' /\ ShowsItsTemplate'
  BY <1>1, UntouchedHistory, UntouchedEditor DEF Visible
<1>5. LoadingIsUnderWay'
  BY <1>1, <1>2 DEF LoadingIsUnderWay
<1>6. QED
  BY <1>3, <1>4, <1>5 DEF DocumentInv

\* A failed load turns the loading shell into the error shell, or is not noticed.
LEMMA LoadFailedKeepsDocument ==
  ASSUME DocumentInv, NEW l \in loads, LoadFailed(l)
  PROVE  DocumentInv'
<1>1. /\ HistoryInv /\ RequestInv /\ CurrentLoads /\ ShowsItsTemplate /\ LoadingIsUnderWay
      /\ loads' = loads \ {l}
      /\ UNCHANGED <<route, history, saving, saves, stored, edits, requests>>
      /\ \/ loadError' = TRUE /\ loading' = FALSE
         \/ ~l.current /\ UNCHANGED <<loadError, loading>>
  BY DEF DocumentInv, LoadFailed, counters
<1>2. RequestInv' /\ CurrentLoads'
  <2>1. SavesOf(edits)' = SavesOf(edits)
    BY <1>1 DEF SavesOf, DocumentsUpTo
  <2>2. {loading', loadError'} \subseteq BOOLEAN
    BY <1>1 DEF RequestInv
  <2>3. QED
    BY <1>1, <2>1, <2>2 DEF RequestInv, CurrentLoads, ReadsExist, LoadsOf
<1>3. HistoryInv' /\ ShowsItsTemplate'
  BY <1>1, UntouchedHistory, UntouchedEditor DEF Visible
<1>4. LoadingIsUnderWay'
  <2>1. ASSUME loading' = FALSE PROVE LoadingIsUnderWay'
    BY <2>1 DEF LoadingIsUnderWay
  <2>2. ASSUME ~l.current, loading' = loading PROVE LoadingIsUnderWay'
    BY <1>1, <2>2 DEF LoadingIsUnderWay
  <2>3. QED
    BY <1>1, <2>1, <2>2
<1>5. QED
  BY <1>2, <1>3, <1>4 DEF DocumentInv

\* A step of a save that leaves the screen as it is keeps the document as it is.
LEMMA SavesLeaveTheDocument ==
  ASSUME DocumentInv, UNCHANGED <<route, history, loading, loadError, loads, edits>>,
         saving' \in BOOLEAN, requests' \in Nat,
         stored' \in [Ids -> 0 .. edits \cup {None}],
         \A id \in Ids : stored[id] # None => stored'[id] # None,
         \A s \in saves' :
           s \in saves \/ (/\ s \in SavesOf(edits)
                           /\ s.served /\ s.to = "new" => s.created \in Ids)
  PROVE  DocumentInv'
<1>1. /\ HistoryInv /\ RequestInv /\ CurrentLoads /\ ShowsItsTemplate /\ LoadingIsUnderWay
      /\ edits' = edits
  BY DEF DocumentInv
<1>2. HistoryInv' /\ ShowsItsTemplate'
  BY <1>1, UntouchedHistory, UntouchedEditor DEF Visible
<1>3. SavesOf(edits)' = SavesOf(edits)
  BY <1>1 DEF SavesOf, DocumentsUpTo
<1>4. /\ saves' \subseteq SavesOf(edits)'
      /\ \A s \in saves' : s.served /\ s.to = "new" => s.created \in Ids
  BY <1>1, <1>3 DEF RequestInv
<1>5. loads' \subseteq LoadsOf(edits)' /\ ReadsExist'
  BY <1>1 DEF LoadsOf, RequestInv, ReadsExist
<1>6. RequestInv'
  BY <1>1, <1>4, <1>5 DEF RequestInv
<1>7. QED
  BY <1>1, <1>2, <1>6 DEF DocumentInv, CurrentLoads, LoadingIsUnderWay

\* A save carries the document of the editor.
LEMMA SaveKeepsDocument ==
  ASSUME DocumentInv, Save
  PROVE  DocumentInv'
<1> DEFINE q == [n |-> requests, to |-> route, doc |-> present,
                 mine |-> TRUE, created |-> None, served |-> FALSE]
<1>1. /\ HistoryInv /\ RequestInv /\ Visible
      /\ requests' = requests + 1 /\ saving' = TRUE /\ saves' = saves \cup {q}
      /\ UNCHANGED <<route, history, loading, loadError, loads, stored, edits>>
  BY DEF DocumentInv, Save
<1>2. requests \in Nat /\ route \in Routes /\ present \in DocumentsUpTo(edits)
  BY <1>1 DEF HistoryInv, HistoryIn, RequestInv, Visible, Routes
<1>3. q \in SavesOf(edits) /\ ~q.served
  BY <1>2 DEF SavesOf
<1>4. stored' \in [Ids -> 0 .. edits \cup {None}]
  BY <1>1 DEF RequestInv
<1> HIDE DEF q
<1>5. QED
  BY <1>1, <1>2, <1>3, <1>4, SavesLeaveTheDocument

\* The server stores a version the editor has had.
LEMMA ServedKeepsDocument ==
  ASSUME DocumentInv, NEW s \in saves, Served(s)
  PROVE  DocumentInv'
<1>1. /\ RequestInv /\ s \in SavesOf(edits)
      /\ UNCHANGED <<route, history, flags, loads, counters>>
  BY DEF DocumentInv, RequestInv, Served
<1>2. /\ saving' \in BOOLEAN /\ requests' \in Nat /\ s.doc.edit \in 0 .. edits
  BY <1>1 DEF RequestInv, flags, counters, SavesOf, DocumentsUpTo
<1>3. ASSUME NEW id \in Ids, stored' = [stored EXCEPT ![id] = s.doc.edit]
      PROVE  /\ stored' \in [Ids -> 0 .. edits \cup {None}]
             /\ \A i \in Ids : stored[i] # None => stored'[i] # None
  <2>1. s.doc.edit # None
    BY <1>1, <1>2, DocumentAssumption DEF DocumentInv, HistoryInv
  <2>2. QED
    BY <1>1, <1>2, <1>3, <2>1 DEF RequestInv
<1>4. CASE s.to = "new"
  <2>1. PICK id \in Ids :
          /\ stored' = [stored EXCEPT ![id] = s.doc.edit]
          /\ saves'  = (saves \ {s}) \cup {[s EXCEPT !.served = TRUE, !.created = id]}
    BY <1>4 DEF Served
  <2>2. /\ [s EXCEPT !.served = TRUE, !.created = id] \in SavesOf(edits)
        /\ [s EXCEPT !.served = TRUE, !.created = id].created = id
    BY <1>1 DEF SavesOf
  <2>3. QED
    BY <1>1, <1>2, <1>3, <2>1, <2>2, SavesLeaveTheDocument DEF flags, counters
<1>5. CASE s.to # "new"
  <2>1. /\ s.to \in Ids /\ stored' = [stored EXCEPT ![s.to] = s.doc.edit]
        /\ saves' = (saves \ {s}) \cup {[s EXCEPT !.served = TRUE]}
    BY <1>1, <1>5 DEF Served, SavesOf, Routes
  <2>2. [s EXCEPT !.served = TRUE] \in SavesOf(edits) /\ [s EXCEPT !.served = TRUE].to # "new"
    BY <1>1, <1>5 DEF SavesOf
  <2>3. QED
    BY <1>1, <1>2, <1>3, <2>1, <2>2, SavesLeaveTheDocument DEF flags, counters
<1>6. QED
  BY <1>4, <1>5

\* A created template is opened, unless it already is; otherwise the document stays.
LEMMA SaveEndsKeepsDocument ==
  ASSUME DocumentInv, NEW s \in saves, SaveAnswered(s) \/ SaveFailed(s)
  PROVE  DocumentInv'
<1>1. /\ RequestInv /\ saves' = saves \ {s} /\ saving' \in BOOLEAN
      /\ UNCHANGED <<stored, edits, requests>>
  BY DEF DocumentInv, RequestInv, SaveAnswered, SaveFailed
<1>2. requests' \in Nat /\ stored' \in [Ids -> 0 .. edits \cup {None}]
  BY <1>1 DEF RequestInv
<1>3. CASE UNCHANGED <<route, history, loading, loadError, loads>>
  BY <1>1, <1>2, <1>3, SavesLeaveTheDocument
<1>4. CASE s.served /\ s.to = "new" /\ Open(s.created)
  <2>1. s.created \in Routes
    BY <1>1, <1>4 DEF RequestInv, Routes
  <2>2. SavesOf(edits)' = SavesOf(edits)
    BY <1>1 DEF SavesOf, DocumentsUpTo
  <2>3. /\ saves' \subseteq SavesOf(edits)'
        /\ \A q \in saves' : q.served /\ q.to = "new" => q.created \in Ids
    BY <1>1, <2>2 DEF RequestInv
  <2>4. QED
    BY <1>1, <1>2, <1>4, <2>1, <2>3, OpenKeepsDocument DEF DocumentInv, RequestInv
<1>5. QED
  BY <1>3, <1>4 DEF SaveAnswered, SaveFailed

-----------------------------------------------------------------------------
(* Theorems                                                                *)

\* The builder starts away from any template, with an empty history.
LEMMA InitialDocument ==
  ASSUME Init
  PROVE  DocumentInv
<1>2. /\ edits = 0 /\ Sample \in DocumentsUpTo(0) /\ 0 \in 0 .. MaxEdits
      /\ 0 \in 0 .. 0 /\ HistoryLimit \in Nat
  BY DocumentAssumption DEF Init, Sample, Document, DocumentsUpTo, Routes
<1>3. HistoryInv
  BY <1>2 DEF Init, HistoryInv, HistoryIn, Chronological, Increasing
<1>4. stored \in [Ids -> 0 .. edits \cup {None}]
  BY <1>2 DEF Init
<1>5. RequestInv
  BY <1>4 DEF Init, RequestInv, ReadsExist
<1>6. CurrentLoads /\ ShowsItsTemplate /\ LoadingIsUnderWay
  BY DocumentAssumption DEF Init, CurrentLoads, ShowsItsTemplate, Visible, LoadingIsUnderWay
<1>7. QED
  BY <1>3, <1>5, <1>6 DEF DocumentInv

\* Every step of the builder keeps the invariant.
LEMMA StepsKeepDocument ==
  ASSUME DocumentInv, [Next]_vars
  PROVE  DocumentInv'
<1>1. ASSUME NEW t \in Tags \cup {None}, Commit(t) PROVE DocumentInv'
  BY <1>1, CommitKeepsDocument
<1>2. CASE Undo \/ Redo
  BY <1>2, UndoRedoKeepsDocument
<1>3. ASSUME NEW r \in Ids \cup {"new"}, Navigate(r) PROVE DocumentInv'
  BY <1>3, NavigateKeepsDocument DEF Routes
<1>4. CASE Leave
  BY <1>4, LeaveKeepsDocument
<1>5. CASE RefreshToken
  BY <1>5, RefreshTokenKeepsDocument
<1>6. ASSUME NEW l \in loads, LoadServed(l) \/ LoadAnswered(l) \/ LoadFailed(l)
      PROVE  DocumentInv'
  BY <1>6, LoadServedKeepsDocument, LoadAnsweredKeepsDocument, LoadFailedKeepsDocument
<1>7. CASE Save
  BY <1>7, SaveKeepsDocument
<1>8. ASSUME NEW s \in saves, Served(s) \/ SaveAnswered(s) \/ SaveFailed(s)
      PROVE  DocumentInv'
  BY <1>8, ServedKeepsDocument, SaveEndsKeepsDocument
<1>9. CASE UNCHANGED vars
  BY <1>9, UntouchedHistory, UntouchedEditor
     DEF DocumentInv, RequestInv, CurrentLoads, LoadingIsUnderWay, Visible, SavesOf,
         LoadsOf, ReadsExist, DocumentsUpTo, vars, flags, counters
<1>10. QED
  BY <1>1, <1>2, <1>3, <1>4, <1>5, <1>6, <1>7, <1>8, <1>9 DEF Next, Rest

\* DocumentInv holds in every state the builder reaches.
THEOREM DocumentInvHolds == Spec => []DocumentInv
<1>1. QED
  BY InitialDocument, StepsKeepDocument, PTL DEF Spec

\* Every variable stays within its type; in particular the cap of record bounds the
\* past by HISTORY_LIMIT although redo appends to it uncapped.
THEOREM DocumentTypeCorrect == Spec => []TypeOK
<1>1. ASSUME DocumentInv PROVE TypeOK
  <2>1. HistoryInv /\ RequestInv
    BY <1>1 DEF DocumentInv
  <2>2. DocumentsUpTo(edits) \subseteq Documents /\ 0 .. edits \subseteq 0 .. MaxEdits
    BY <2>1, DocumentAssumption DEF HistoryInv, DocumentsUpTo, Documents, Routes
  <2>3. past \in Seq(Documents) /\ present \in Documents /\ future \in Seq(Documents)
    BY <2>1, <2>2, SeqMonotonic DEF HistoryInv, HistoryIn
  <2>4. Len(past) <= HistoryLimit
    <3>1. Len(past) \in Nat /\ Len(future) \in Nat /\ HistoryLimit \in Nat
      BY <2>3, LenProperties, DocumentAssumption
    <3>2. QED
      BY <2>1, <3>1 DEF HistoryInv
  <2>5. stored \in [Ids -> 0 .. MaxEdits \cup {None}]
    BY <2>1, <2>2 DEF RequestInv
  <2>6. \A s \in saves : s.doc \in Documents /\ s.to \in Ids \cup {"new"}
    BY <2>1, <2>2 DEF RequestInv, SavesOf, Routes
  <2>7. loads \subseteq [id : Ids, current : BOOLEAN, read : 0 .. MaxEdits \cup {None}]
    BY <2>1, <2>2 DEF RequestInv, LoadsOf
  <2>8. QED
    BY <2>1, <2>3, <2>4, <2>5, <2>6, <2>7 DEF TypeOK, HistoryInv, RequestInv, Routes
<1>2. QED
  BY <1>1, DocumentInvHolds, PTL

\* The timeline is the past, the present and the future, one after the other.
LEMMA TimelineIndex ==
  ASSUME NEW S, HistoryIn(S)
  PROVE  /\ Timeline \in Seq(S) /\ DOMAIN Timeline = 1 .. Len(past) + 1 + Len(future)
         /\ Len(past) \in Nat /\ Len(future) \in Nat
         /\ \A i \in DOMAIN Timeline :
              Timeline[i] = IF i <= Len(past) THEN past[i]
                            ELSE IF i = Len(past) + 1 THEN present
                            ELSE future[i - Len(past) - 1]
<1> DEFINE front == past \o <<present>>
<1>1. /\ past \in Seq(S) /\ <<present>> \in Seq(S) /\ future \in Seq(S)
      /\ Len(<<present>>) = 1 /\ <<present>>[1] = present
      /\ Len(past) \in Nat /\ Len(future) \in Nat
  BY LenProperties DEF HistoryIn
<1>2. /\ front \in Seq(S) /\ Len(front) = Len(past) + 1
      /\ \A i \in 1 .. Len(past) + 1 :
           front[i] = IF i <= Len(past) THEN past[i] ELSE <<present>>[i - Len(past)]
  BY <1>1, ConcatProperties
<1>3. Timeline = front \o future
  BY DEF Timeline
<1> HIDE DEF front
<1>4. /\ Timeline \in Seq(S) /\ Len(Timeline) = Len(front) + Len(future)
      /\ \A i \in 1 .. Len(front) + Len(future) :
           Timeline[i] = IF i <= Len(front) THEN front[i] ELSE future[i - Len(front)]
  BY <1>1, <1>2, <1>3, ConcatProperties
<1>5. DOMAIN Timeline = 1 .. Len(past) + 1 + Len(future)
  BY <1>1, <1>2, <1>4, LenProperties
<1>6. ASSUME NEW i \in DOMAIN Timeline
      PROVE  Timeline[i] = IF i <= Len(past) THEN past[i]
                           ELSE IF i = Len(past) + 1 THEN present
                           ELSE future[i - Len(past) - 1]
  <2>1. CASE i \in 1 .. Len(past)
    BY <1>1, <1>2, <1>4, <2>1
  <2>2. CASE i = Len(past) + 1
    <3>1. front[i] = <<present>>[1]
      BY <1>1, <1>2, <2>2
    <3>2. QED
      BY <1>1, <1>2, <1>4, <2>2, <3>1
  <2>3. CASE i \in Len(past) + 2 .. Len(past) + 1 + Len(future)
    BY <1>1, <1>2, <1>4, <2>3
  <2>4. QED
    BY <1>1, <1>5, <2>1, <2>2, <2>3
<1>7. QED
  BY <1>1, <1>4, <1>5, <1>6

\* The document in the editor, and everything undo or redo can bring back, is of
\* the template in the route: no save puts a document under another one's id.
THEOREM EditorShowsItsTemplateHolds == Spec => []EditorShowsItsTemplate
<1>1. ASSUME DocumentInv PROVE EditorShowsItsTemplate
  <2>1. SUFFICES ASSUME Visible, NEW i \in DOMAIN Timeline PROVE Timeline[i].of = route
    BY DEF EditorShowsItsTemplate
  <2>2. PICK S : S = DocumentsOf(route)
    OBVIOUS
  <2>3. HistoryIn(S)
    BY <1>1, <2>1, <2>2 DEF DocumentInv, ShowsItsTemplate
  <2>4. Timeline \in Seq(S)
    BY <2>3, TimelineIndex
  <2>5. Timeline[i] \in S
    BY <2>1, <2>4, ElementOfSeq, LenProperties
  <2>6. QED
    BY <2>2, <2>5 DEF DocumentsOf
<1>2. QED
  BY <1>1, DocumentInvHolds, PTL

\* Undo and redo run through the edits in the order in which they were made,
\* whatever was undone, edited again, saved, loaded or opened in between.
THEOREM UndoIsChronologicalHolds == Spec => []UndoIsChronological
<1>1. ASSUME DocumentInv PROVE UndoIsChronological
  <2>1. PICK S : S = DocumentsUpTo(edits)
    OBVIOUS
  <2>2. HistoryIn(S) /\ Chronological /\ \A d \in S : d.edit \in Nat
    BY <1>1, <2>1, EditsAreNumbers DEF DocumentInv, HistoryInv
  <2>3. SUFFICES ASSUME NEW i \in DOMAIN Timeline, NEW j \in DOMAIN Timeline, i < j
                 PROVE  Timeline[i].edit < Timeline[j].edit
    BY DEF UndoIsChronological
  <2> DEFINE p == Len(past)
             f == Len(future)
  <2>4. /\ p \in Nat /\ f \in Nat /\ i \in 1 .. p + 1 + f /\ j \in 1 .. p + 1 + f
        /\ Timeline[i] = IF i <= p THEN past[i] ELSE IF i = p + 1 THEN present
                         ELSE future[i - p - 1]
        /\ Timeline[j] = IF j <= p THEN past[j] ELSE IF j = p + 1 THEN present
                         ELSE future[j - p - 1]
    BY <2>2, <2>3, TimelineIndex
  <2>5. /\ present.edit \in Nat /\ \A k \in 1 .. p : past[k].edit \in Nat
        /\ \A k \in 1 .. f : future[k].edit \in Nat
    BY <2>2, ElementOfSeq DEF HistoryIn
  <2>6. /\ \A k, m \in 1 .. p : k < m => past[k].edit < past[m].edit
        /\ \A k \in 1 .. p : past[k].edit < present.edit
        /\ \A k \in 1 .. f : present.edit < future[k].edit
        /\ \A k, m \in 1 .. f : k < m => future[k].edit < future[m].edit
    BY <2>2 DEF Chronological, Increasing
  <2> HIDE DEF p, f
  <2>7. CASE j <= p
    <3>1. i \in 1 .. p /\ j \in 1 .. p
      BY <2>3, <2>4, <2>7
    <3>2. QED
      BY <2>3, <2>4, <2>6, <3>1
  <2>8. CASE j = p + 1
    <3>1. i \in 1 .. p
      BY <2>3, <2>4, <2>8
    <3>2. QED
      BY <2>4, <2>6, <2>8, <3>1
  <2>9. CASE j > p + 1
    <3>1. j - p - 1 \in 1 .. f /\ Timeline[j] = future[j - p - 1]
      BY <2>4, <2>9
    <3>2. CASE i <= p
      BY <2>4, <2>5, <2>6, <3>1, <3>2
    <3>3. CASE i = p + 1
      BY <2>4, <2>6, <3>1, <3>3
    <3>4. CASE i > p + 1
      <4>1. i - p - 1 \in 1 .. f /\ i - p - 1 < j - p - 1
        BY <2>3, <2>4, <3>4
      <4>2. QED
        BY <2>4, <2>6, <3>1, <3>4, <4>1
    <3>5. QED
      BY <2>4, <3>2, <3>3, <3>4
  <2>10. QED
    BY <2>4, <2>7, <2>8, <2>9
<1>2. QED
  BY <1>1, DocumentInvHolds, PTL

\* The loading shell is never shown for a load that nobody is making.
THEOREM LoadingIsUnderWayHolds == Spec => []LoadingIsUnderWay
<1>1. DocumentInv => LoadingIsUnderWay
  BY DEF DocumentInv
<1>2. QED
  BY <1>1, DocumentInvHolds, PTL

-----------------------------------------------------------------------------
(* How many templates become of the documents that were opened             *)

\* The templates created so far, and the creations the server has yet to serve.
Created == {id \in Ids \ Saved : stored[id] # None}
Pending == {s \in saves : s.to = "new" /\ ~s.served}

\* The new document in the editor can still become a template: 1 or 0.
Uncreated == IF route = "new" /\ \A s \in saves : s.mine => s.to # "new" THEN 1 ELSE 0

\* Every template there is or may be yet is paid for by an opening or a lost answer.
Accounts == Cardinality(Created) + Cardinality(Pending) + Uncreated <= openings + unheard

\* The screen waits for one save of its own at most.
OwnSave ==
  /\ \A s \in saves : s.mine => saving /\ route # "away"
  /\ \A s1, s2 \in saves : s1.mine /\ s2.mine => s1 = s2

\* Only templates that exist are shown and updated.
OnlyExisting ==
  /\ Visible /\ route \in Ids => stored[route] # None
  /\ \A s \in saves : s.to \in Ids => stored[s.to] # None

Creation ==
  /\ openings \in Nat /\ unheard \in Nat
  /\ IsFiniteSet(Created) /\ IsFiniteSet(Pending)
  /\ Accounts /\ OwnSave /\ OnlyExisting

CreationInv == DocumentInv /\ Creation

\* A set that is not larger than a finite one, as the image of it.
LEMMA ImageIsNotLarger ==
  ASSUME NEW S, IsFiniteSet(S), NEW f, f = [x \in S |-> f[x]],
         NEW T, T = {f[x] : x \in S}
  PROVE  IsFiniteSet(T) /\ Cardinality(T) <= Cardinality(S)
<1>1. f \in Surjection(S, T)
  BY DEF Surjection
<1>2. QED
  BY <1>1, FS_Surjection

\* A finite set with one element more.
LEMMA OneMore ==
  ASSUME NEW S, NEW x, IsFiniteSet(S), NEW T, T = S \/ T = S \cup {x}
  PROVE  /\ IsFiniteSet(T) /\ Cardinality(T) \in Nat
         /\ Cardinality(T) <= Cardinality(S) + 1
<1>1. IsFiniteSet(S \cup {x}) /\ Cardinality(S) \in Nat
  BY FS_AddElement, FS_CardinalityType
<1>2. Cardinality(S \cup {x}) = IF x \in S THEN Cardinality(S) ELSE Cardinality(S) + 1
  BY FS_AddElement
<1>3. Cardinality(S \cup {x}) \in {Cardinality(S), Cardinality(S) + 1}
  BY <1>2
<1>4. CASE T = S
  BY <1>1, <1>4
<1>5. CASE T = S \cup {x}
  BY <1>1, <1>3, <1>5
<1>6. QED
  BY <1>4, <1>5

\* Initially nothing is created.
LEMMA InitCreation == Init => Creation
<1>1. SUFFICES ASSUME Init PROVE Creation
  OBVIOUS
<1>2. Created = {} /\ Pending = {} /\ Uncreated = 0
  BY <1>1, DocumentAssumption DEF Init, Created, Pending, Uncreated
<1>3. openings = 0 /\ unheard = 0 /\ OwnSave
  BY <1>1 DEF Init, OwnSave
<1>4. OnlyExisting
  BY <1>1, DocumentAssumption DEF Init, OnlyExisting, Visible
<1>5. QED
  BY <1>2, <1>3, <1>4, FS_EmptySet DEF Creation, Accounts

\* The numbers behind the accounts.
LEMMA Numbers ==
  ASSUME CreationInv
  PROVE  /\ Cardinality(Created) \in Nat /\ Cardinality(Pending) \in Nat
         /\ Uncreated \in {0, 1} /\ openings \in Nat /\ unheard \in Nat
BY FS_CardinalityType DEF CreationInv, Creation, Uncreated

\* A step that neither saves nor stores: only an opening lets a new document appear.
LEMMA NothingCreated ==
  ASSUME CreationInv, UNCHANGED <<saves, stored, unheard>>,
         \/ openings' = openings /\ (route' = "new" => route = "new")
         \/ openings' = openings + 1
  PROVE  /\ openings' \in Nat /\ unheard' \in Nat
         /\ IsFiniteSet(Created)' /\ IsFiniteSet(Pending)' /\ Accounts'
<1>1. Created' = Created /\ Pending' = Pending
  BY DEF Created, Pending
<1>2. Uncreated' \in {0, 1} /\ (openings' = openings => Uncreated' <= Uncreated)
  <2>1. openings \in Nat /\ Uncreated' \in {0, 1} /\ Uncreated \in {0, 1}
    BY Numbers DEF Uncreated
  <2>2. openings' = openings => Uncreated' = 0 \/ Uncreated' = Uncreated
    BY <2>1 DEF Uncreated
  <2>3. QED
    BY <2>1, <2>2
<1>3. openings' \in Nat /\ unheard' \in Nat /\ IsFiniteSet(Created)' /\ IsFiniteSet(Pending)'
  BY <1>1, Numbers DEF CreationInv, Creation
<1>4. Accounts'
  BY <1>1, <1>2, Numbers DEF CreationInv, Creation, Accounts
<1>5. QED
  BY <1>3, <1>4

\* Editing, undoing and redoing create nothing.
LEMMA EditCreation ==
  ASSUME CreationInv, NEW t, Commit(t) \/ Undo \/ Redo
  PROVE  Creation'
<1>1. UNCHANGED <<route, loading, loadError, saving, saves, stored, openings, unheard>>
  BY DEF Commit, Undo, Redo, flags, counters
<1>2. OwnSave' /\ OnlyExisting'
  BY <1>1 DEF CreationInv, Creation, OwnSave, OnlyExisting, Visible
<1>3. QED
  BY <1>1, <1>2, NothingCreated DEF Creation

\* Opening a document leaves it behind the loading shell, unless it is a new one.
LEMMA NavigateCreation ==
  ASSUME CreationInv, NEW r \in Routes, Navigate(r)
  PROVE  Creation'
<1>1. /\ route' = r /\ UNCHANGED <<saves, stored, unheard>>
      /\ openings' = IF r = "new" THEN openings + 1 ELSE openings
      /\ r # "new" => loading' = TRUE
      /\ saving' = (saving /\ route # "away")
  BY DocumentAssumption DEF Navigate, Open, Routes
<1>2. /\ openings' \in Nat /\ unheard' \in Nat
      /\ IsFiniteSet(Created)' /\ IsFiniteSet(Pending)' /\ Accounts'
  BY <1>1, NothingCreated
<1>3. r # "away"
  BY DocumentAssumption DEF Routes
<1>4. OwnSave'
  BY <1>1, <1>3 DEF CreationInv, Creation, OwnSave
<1>5. OnlyExisting'
  BY <1>1, DocumentAssumption DEF CreationInv, Creation, OnlyExisting, Visible
<1>6. QED
  BY <1>2, <1>4, <1>5 DEF Creation

\* Leaving the builder disowns its saves.
LEMMA LeaveCreation ==
  ASSUME CreationInv, Leave
  PROVE  Creation'
<1>1. /\ route' = "away" /\ UNCHANGED <<stored, openings, unheard>>
      /\ saves' = {[s EXCEPT !.mine = FALSE] : s \in saves}
  BY DEF Leave
<1>2. \A s \in saves : s \in SavesOf(edits)
  BY DEF CreationInv, Creation, DocumentInv, RequestInv
<1>3. Created' = Created
  BY <1>1 DEF Created
<1>4. PICK f : f = [s \in Pending |-> [s EXCEPT !.mine = FALSE]]
  OBVIOUS
<1>5. Pending' = {f[s] : s \in Pending}
  BY <1>1, <1>2, <1>4 DEF Pending, SavesOf
<1>6. IsFiniteSet(Pending)' /\ Cardinality(Pending)' <= Cardinality(Pending)
  <2>1. f = [s \in Pending |-> f[s]] /\ IsFiniteSet(Pending)
    BY <1>4 DEF CreationInv, Creation
  <2>2. QED
    BY <1>5, <2>1, ImageIsNotLarger
<1>7. Uncreated' = 0
  BY <1>1 DEF Uncreated
<1>8. Accounts'
  BY <1>1, <1>3, <1>6, <1>7, Numbers, FS_CardinalityType DEF CreationInv, Creation, Accounts
<1>9. OwnSave'
  BY <1>1, <1>2 DEF OwnSave, SavesOf
<1>10. OnlyExisting'
  BY <1>1, <1>2, DocumentAssumption DEF CreationInv, Creation, OnlyExisting, Visible, SavesOf
<1>11. QED
  BY <1>1, <1>3, <1>6, <1>8, <1>9, <1>10 DEF CreationInv, Creation

\* A renewed token loads the template again; what is shown does not change.
LEMMA RefreshCreation ==
  ASSUME CreationInv, RefreshToken
  PROVE  Creation'
<1>1. UNCHANGED <<route, loading, loadError, saving, saves, stored, openings, unheard>>
  BY DEF RefreshToken, flags
<1>2. OwnSave' /\ OnlyExisting'
  BY <1>1 DEF CreationInv, Creation, OwnSave, OnlyExisting, Visible
<1>3. QED
  BY <1>1, <1>2, NothingCreated DEF Creation

\* What a load shows exists.
LEMMA LoadCreation ==
  ASSUME CreationInv, NEW l \in loads, LoadServed(l) \/ LoadAnswered(l) \/ LoadFailed(l)
  PROVE  Creation'
<1>1. UNCHANGED <<route, saving, saves, stored, openings, unheard>>
  BY DEF LoadServed, LoadAnswered, LoadFailed, flags, counters
<1>2. OwnSave'
  BY <1>1 DEF CreationInv, Creation, OwnSave
<1>3. OnlyExisting'
  <2>1. CASE LoadAnswered(l)
    <3>1. CASE l.current
      <4>1. l.id = route /\ stored[l.id] # None
        BY <2>1, <3>1 DEF LoadAnswered, CreationInv, Creation, DocumentInv, CurrentLoads,
                         RequestInv, ReadsExist
      <4>2. QED
        BY <1>1, <4>1 DEF CreationInv, Creation, OnlyExisting
    <3>2. CASE ~l.current
      <4>1. UNCHANGED <<loading, loadError>>
        BY <2>1, <3>2 DEF LoadAnswered, history
      <4>2. QED
        BY <1>1, <4>1 DEF CreationInv, Creation, OnlyExisting, Visible
    <3>3. QED
      BY <3>1, <3>2
  <2>2. CASE LoadFailed(l)
    <3>1. loadError' = TRUE \/ UNCHANGED <<loading, loadError>>
      BY <2>2 DEF LoadFailed
    <3>2. QED
      BY <1>1, <3>1, DocumentAssumption DEF CreationInv, Creation, OnlyExisting, Visible
  <2>3. CASE LoadServed(l)
    BY <1>1, <2>3 DEF LoadServed, flags, CreationInv, Creation, OnlyExisting, Visible
  <2>4. QED
    BY <2>1, <2>2, <2>3
<1>4. QED
  BY <1>1, <1>2, <1>3, NothingCreated DEF Creation

\* A save of the new document is the one that can still create it.
LEMMA SaveCreation ==
  ASSUME CreationInv, Save
  PROVE  Creation'
<1>0. PICK new : new = [n |-> requests, to |-> route, doc |-> present,
                        mine |-> TRUE, created |-> None, served |-> FALSE]
  OBVIOUS
<1>1. /\ saves' = saves \cup {new} /\ saving' = TRUE /\ saving = FALSE /\ Visible
      /\ UNCHANGED <<route, loading, loadError, stored, openings, unheard>>
  BY <1>0 DEF Save, CreationInv, Creation, DocumentInv, RequestInv
<1>2. \A s \in saves : ~s.mine
  BY <1>1 DEF CreationInv, Creation, OwnSave
<1>3. route # "away"
  BY <1>1, DocumentAssumption DEF Visible
<1>4. Created' = Created
  BY <1>1 DEF Created
<1>5. OwnSave'
  BY <1>0, <1>1, <1>2, <1>3 DEF CreationInv, Creation, OwnSave
<1>6. OnlyExisting'
  BY <1>0, <1>1 DEF CreationInv, Creation, OnlyExisting, Visible
<1>7. CASE route = "new"
  <2>1. Pending' = Pending \cup {new} /\ IsFiniteSet(Pending)
    BY <1>0, <1>1, <1>7 DEF Pending, CreationInv, Creation
  <2>2. IsFiniteSet(Pending)' /\ Cardinality(Pending') <= Cardinality(Pending) + 1
        /\ Cardinality(Pending') \in Nat
    BY <2>1, OneMore
  <2>3. Uncreated = 1 /\ Uncreated' = 0
    BY <1>0, <1>1, <1>2, <1>7 DEF Uncreated
  <2>4. Accounts'
    BY <1>1, <1>4, <2>2, <2>3, Numbers DEF CreationInv, Creation, Accounts
  <2>5. QED
    BY <1>1, <1>4, <1>5, <1>6, <2>2, <2>4 DEF CreationInv, Creation
<1>8. CASE route # "new"
  <2>1. Pending' = Pending
    BY <1>0, <1>1, <1>8 DEF Pending
  <2>2. Uncreated' = 0 /\ Uncreated = 0
    BY <1>1, <1>8 DEF Uncreated
  <2>3. Accounts'
    BY <1>1, <1>4, <2>1, <2>2 DEF CreationInv, Creation, Accounts
  <2>4. QED
    BY <1>1, <1>4, <1>5, <1>6, <2>1, <2>3 DEF CreationInv, Creation
<1>9. QED
  BY <1>7, <1>8

\* The server serves a pending creation once, and an update creates nothing.
LEMMA ServedCreation ==
  ASSUME CreationInv, NEW s \in saves, Served(s)
  PROVE  Creation'
<1>1. /\ s \in SavesOf(edits) /\ ~s.served
      /\ stored \in [Ids -> 0 .. edits \cup {None}]
      /\ UNCHANGED <<route, loading, loadError, saving, openings, unheard>>
  BY DEF Served, CreationInv, Creation, DocumentInv, RequestInv, flags, counters
<1>a. \E id \in Ids : \E r :
        /\ stored' = [stored EXCEPT ![id] = s.doc.edit]
        /\ saves' = (saves \ {s}) \cup {r}
        /\ r.served /\ r.mine = s.mine /\ r.to = s.to
        /\ \/ s.to = "new"
           \/ s.to # "new" /\ stored[id] # None
  <2>1. CASE s.to = "new"
    <3>1. PICK id \in Ids :
            /\ stored' = [stored EXCEPT ![id] = s.doc.edit]
            /\ saves' = (saves \ {s}) \cup {[s EXCEPT !.served = TRUE, !.created = id]}
      BY <2>1 DEF Served
    <3>2. PICK r : r = [s EXCEPT !.served = TRUE, !.created = id]
      OBVIOUS
    <3>3. r.served /\ r.mine = s.mine /\ r.to = s.to
      BY <1>1, <3>2 DEF SavesOf
    <3>4. QED
      BY <2>1, <3>1, <3>2, <3>3
  <2>2. CASE s.to # "new"
    <3>1. s.to \in Ids /\ stored[s.to] # None
      BY <1>1, <2>2 DEF SavesOf, Routes, CreationInv, Creation, OnlyExisting
    <3>2. /\ stored' = [stored EXCEPT ![s.to] = s.doc.edit]
          /\ saves' = (saves \ {s}) \cup {[s EXCEPT !.served = TRUE]}
      BY <2>2 DEF Served
    <3>3. PICK r : r = [s EXCEPT !.served = TRUE]
      OBVIOUS
    <3>4. r.served /\ r.mine = s.mine /\ r.to = s.to
      BY <1>1, <3>3 DEF SavesOf
    <3>5. QED
      BY <2>2, <3>1, <3>2, <3>3, <3>4
  <2>3. QED
    BY <2>1, <2>2
<1>b. PICK id \in Ids : \E r :
        /\ stored' = [stored EXCEPT ![id] = s.doc.edit]
        /\ saves' = (saves \ {s}) \cup {r}
        /\ r.served /\ r.mine = s.mine /\ r.to = s.to
        /\ \/ s.to = "new"
           \/ s.to # "new" /\ stored[id] # None
  BY <1>a
<1>2. PICK r :
        /\ stored' = [stored EXCEPT ![id] = s.doc.edit]
        /\ saves' = (saves \ {s}) \cup {r}
        /\ r.served /\ r.mine = s.mine /\ r.to = s.to
        /\ \/ s.to = "new"
           \/ s.to # "new" /\ stored[id] # None
  BY <1>b
<1>3. s.doc.edit \in Nat /\ s.doc.edit # None
  BY <1>1, EditsAreNumbers, DocumentAssumption DEF SavesOf, CreationInv, Creation, DocumentInv
<1>4. \A x \in Ids : stored'[x] = IF x = id THEN s.doc.edit ELSE stored[x]
  BY <1>1, <1>2
<1>5. OwnSave'
  BY <1>1, <1>2 DEF CreationInv, Creation, OwnSave
<1>6. OnlyExisting'
  BY <1>1, <1>2, <1>3, <1>4 DEF CreationInv, Creation, OnlyExisting, Visible
<1>7. Uncreated' = Uncreated
  BY <1>1, <1>2 DEF Uncreated
<1>8. CASE s.to = "new"
  <2>1. Pending' = Pending \ {s} /\ s \in Pending
    BY <1>1, <1>2, <1>8 DEF Pending
  <2>2. /\ IsFiniteSet(Pending)'
        /\ Cardinality(Pending') = Cardinality(Pending) - 1
    BY <2>1, FS_RemoveElement DEF CreationInv, Creation
  <2>3. Created' \in {Created, Created \cup {id}}
    BY <1>3, <1>4 DEF Created
  <2>4. /\ IsFiniteSet(Created)' /\ Cardinality(Created') \in Nat
        /\ Cardinality(Created') <= Cardinality(Created) + 1
    <3>1. IsFiniteSet(Created)
      BY DEF CreationInv, Creation
    <3>2. QED
      BY <2>3, <3>1, OneMore
  <2>5. Accounts'
    BY <1>1, <1>7, <2>2, <2>4, Numbers DEF CreationInv, Creation, Accounts
  <2>6. QED
    BY <1>1, <1>5, <1>6, <2>2, <2>4, <2>5 DEF CreationInv, Creation
<1>9. CASE s.to # "new"
  <2>1. Pending' = Pending
    BY <1>2, <1>9 DEF Pending
  <2>2. Created' = Created
    BY <1>2, <1>3, <1>4, <1>9 DEF Created
  <2>3. Accounts'
    BY <1>1, <1>7, <2>1, <2>2 DEF CreationInv, Creation, Accounts
  <2>4. QED
    BY <1>1, <1>5, <1>6, <2>1, <2>2, <2>3 DEF CreationInv, Creation
<1>10. QED
  BY <1>8, <1>9

\* An answered creation leads the screen to the template.
LEMMA AnsweredCreation ==
  ASSUME CreationInv, NEW s \in saves, SaveAnswered(s)
  PROVE  Creation'
<1>1. /\ s \in SavesOf(edits) /\ s.served /\ (s.to = "new" => s.created \in Ids)
      /\ saves' = saves \ {s} /\ saving' = (saving /\ ~s.mine)
      /\ UNCHANGED <<stored, unheard>>
  BY DEF SaveAnswered, CreationInv, Creation, DocumentInv, RequestInv
<1>2. Created' = Created /\ Pending' = Pending
  BY <1>1 DEF Created, Pending
<1>3. /\ openings' = openings /\ Uncreated' <= Uncreated
      /\ (route' = "away" => route = "away")
      /\ route' \in Ids => \/ loading' = TRUE
                           \/ UNCHANGED <<route, loading, loadError>>
  <2>1. CASE s.to = "new" /\ s.created # route
    <3>1. /\ route' = s.created /\ s.created \in Ids /\ openings' = openings
          /\ loading' = TRUE
      BY <1>1, <2>1, DocumentAssumption DEF SaveAnswered, Open
    <3>2. Uncreated' = 0 /\ Uncreated \in {0, 1}
      BY <3>1, DocumentAssumption DEF Uncreated
    <3>3. QED
      BY <3>1, <3>2, DocumentAssumption
  <2>2. CASE s.to # "new" \/ s.created = route
    <3>1. UNCHANGED <<route, loading, loadError, openings>>
      BY <1>1, <2>2 DEF SaveAnswered
    <3>2. Uncreated' <= Uncreated
      BY <1>1, <2>2, <3>1, DocumentAssumption DEF Uncreated
    <3>3. QED
      BY <3>1, <3>2
  <2>3. QED
    BY <2>1, <2>2
<1>4. Accounts'
  <2>1. Uncreated' \in {0, 1}
    BY DEF Uncreated
  <2>2. QED
    BY <1>1, <1>2, <1>3, <2>1, Numbers DEF CreationInv, Creation, Accounts
<1>5. OwnSave'
  BY <1>1, <1>3 DEF CreationInv, Creation, OwnSave
<1>6. OnlyExisting'
  BY <1>1, <1>3, DocumentAssumption DEF CreationInv, Creation, OnlyExisting, Visible
<1>7. QED
  BY <1>1, <1>2, <1>3, <1>4, <1>5, <1>6 DEF CreationInv, Creation

\* A failed creation was either not served, or is one the screen has not heard of.
LEMMA FailedCreation ==
  ASSUME CreationInv, NEW s \in saves, SaveFailed(s)
  PROVE  Creation'
<1>1. /\ s \in SavesOf(edits) /\ (s.served /\ s.to = "new" => s.created \in Ids)
      /\ saves' = saves \ {s} /\ saving' = (saving /\ ~s.mine)
      /\ unheard' = IF s.created # None THEN unheard + 1 ELSE unheard
      /\ UNCHANGED <<route, loading, loadError, stored, openings>>
  BY DEF SaveFailed, CreationInv, Creation, DocumentInv, RequestInv
<1>2. Created' = Created
  BY <1>1 DEF Created
<1>3. OwnSave'
  BY <1>1 DEF CreationInv, Creation, OwnSave
<1>4. OnlyExisting'
  BY <1>1 DEF CreationInv, Creation, OnlyExisting, Visible
<1>5. Pending' = Pending \ {s}
  BY <1>1 DEF Pending
<1>6. /\ IsFiniteSet(Pending)' /\ Cardinality(Pending') \in Nat
      /\ Cardinality(Pending') = IF s \in Pending THEN Cardinality(Pending) - 1
                                 ELSE Cardinality(Pending)
  BY <1>5, FS_RemoveElement, FS_CardinalityType DEF CreationInv, Creation
<1>7. Uncreated' \in {0, 1} /\ unheard' \in Nat
  BY <1>1, Numbers DEF Uncreated
<1>8. CASE s \in Pending
  <2>1. Accounts'
    BY <1>1, <1>2, <1>6, <1>7, <1>8, Numbers DEF CreationInv, Creation, Accounts
  <2>2. QED
    BY <1>1, <1>2, <1>3, <1>4, <1>6, <1>7, <2>1 DEF CreationInv, Creation
<1>9. CASE s \notin Pending
  <2>1. unheard' = unheard + 1 \/ Uncreated' = Uncreated
    <3>1. CASE s.to = "new"
      <4>1. s.created \in Ids
        BY <1>1, <1>9, <3>1 DEF Pending
      <4>2. QED
        BY <1>1, <4>1, DocumentAssumption
    <3>2. CASE s.to # "new"
      BY <1>1, <3>2 DEF Uncreated
    <3>3. QED
      BY <3>1, <3>2
  <2>2. Accounts'
    BY <1>1, <1>2, <1>6, <1>7, <1>9, <2>1, Numbers DEF CreationInv, Creation, Accounts
  <2>3. QED
    BY <1>1, <1>2, <1>3, <1>4, <1>6, <1>7, <2>2 DEF CreationInv, Creation
<1>10. QED
  BY <1>8, <1>9

\* Every step keeps the accounts.
LEMMA NextCreation ==
  ASSUME CreationInv, [Next]_vars
  PROVE  Creation'
<1>1. CASE UNCHANGED vars
  <2>1. UNCHANGED <<route, loading, loadError, saving, saves, stored, openings, unheard>>
    BY <1>1 DEF vars, flags, counters
  <2>2. OwnSave' /\ OnlyExisting'
    BY <2>1 DEF CreationInv, Creation, OwnSave, OnlyExisting, Visible
  <2>3. QED
    BY <2>1, <2>2, NothingCreated DEF Creation
<1>2. CASE \E t \in Tags \cup {None} : Commit(t)
  BY <1>2, EditCreation
<1>3. CASE Undo \/ Redo
  BY <1>3, EditCreation
<1>4. CASE \E r \in Ids \cup {"new"} : Navigate(r)
  BY <1>4, NavigateCreation DEF Routes
<1>5. QED
  BY <1>1, <1>2, <1>3, <1>4, LeaveCreation, RefreshCreation, LoadCreation, SaveCreation,
     ServedCreation, AnsweredCreation, FailedCreation DEF Next, Rest

\* A document becomes one template: there are never more new templates than documents
\* opened as new and creations the screen could not know of.
THEOREM OneTemplatePerDocumentHolds == Spec => []OneTemplatePerDocument
<1>1. CreationInv => OneTemplatePerDocument
  BY Numbers DEF CreationInv, Creation, Accounts, OneTemplatePerDocument, Created
<1>2. Init => Creation
  BY InitCreation
<1>3. CreationInv /\ [Next]_vars => Creation'
  BY NextCreation
<1>4. CreationInv <=> DocumentInv /\ Creation
  BY DEF CreationInv
<1>5. QED
  BY <1>1, <1>2, <1>3, <1>4, DocumentInvHolds, PTL DEF Spec

\* One of the documents of a timeline.
OneOf(all, document) == \E i \in DOMAIN all : all[i] = document

\* Where a document can be in a timeline.
LEMMA InTimeline ==
  ASSUME NEW S, NEW p \in Seq(S), NEW x \in S, NEW f \in Seq(S),
         NEW all, all = p \o <<x>> \o f
  PROVE  /\ OneOf(all, x)
         /\ \A k \in 1 .. Len(p) : OneOf(all, p[k])
         /\ \A k \in 1 .. Len(f) : OneOf(all, f[k])
<1>1. /\ <<x>> \in Seq(S) /\ Len(<<x>>) = 1 /\ <<x>>[1] = x
      /\ Len(p) \in Nat /\ Len(f) \in Nat
  BY LenProperties
<1>2. PICK front : front = p \o <<x>>
  OBVIOUS
<1>3. /\ front \in Seq(S) /\ Len(front) = Len(p) + 1
      /\ \A i \in 1 .. Len(p) + 1 : front[i] = IF i <= Len(p) THEN p[i] ELSE <<x>>[i - Len(p)]
  BY <1>1, <1>2, ConcatProperties
<1>4. all = front \o f
  BY <1>2
<1>5. /\ all \in Seq(S) /\ Len(all) = Len(p) + 1 + Len(f)
      /\ \A i \in 1 .. Len(p) + 1 + Len(f) :
           all[i] = IF i <= Len(p) + 1 THEN front[i] ELSE f[i - (Len(p) + 1)]
  <2>1. /\ all \in Seq(S) /\ Len(all) = Len(front) + Len(f)
        /\ \A i \in 1 .. Len(front) + Len(f) :
             all[i] = IF i <= Len(front) THEN front[i] ELSE f[i - Len(front)]
    BY <1>3, <1>4, ConcatProperties
  <2>2. QED
    BY <1>3, <2>1
<1>6. DOMAIN all = 1 .. Len(p) + 1 + Len(f)
  BY <1>5, LenProperties
<1>7. OneOf(all, x)
  <2>1. Len(p) + 1 \in 1 .. Len(p) + 1 /\ Len(p) + 1 \in DOMAIN all
    BY <1>1, <1>6
  <2>2. front[Len(p) + 1] = x
    <3>1. ~(Len(p) + 1 <= Len(p)) /\ Len(p) + 1 - Len(p) = 1
      BY <1>1
    <3>2. QED
      BY <1>1, <1>3, <2>1, <3>1
  <2>3. all[Len(p) + 1] = front[Len(p) + 1]
    BY <1>1, <1>5, <1>6, <2>1
  <2>4. QED
    BY <2>1, <2>2, <2>3 DEF OneOf
<1>8. ASSUME NEW k \in 1 .. Len(p) PROVE OneOf(all, p[k])
  <2>1. k \in DOMAIN all /\ front[k] = p[k] /\ all[k] = front[k]
    BY <1>1, <1>3, <1>5, <1>6
  <2>2. QED
    BY <2>1 DEF OneOf
<1>9. ASSUME NEW k \in 1 .. Len(f) PROVE OneOf(all, f[k])
  <2>1. PICK i \in Nat : i = Len(p) + 1 + k
    BY <1>1
  <2>2. i \in DOMAIN all /\ i \in 1 .. Len(p) + 1 + Len(f) /\ ~(i <= Len(p) + 1)
    BY <1>1, <1>6, <2>1
  <2>3. i - (Len(p) + 1) = k
    BY <1>1, <2>1
  <2>4. all[i] = f[k]
    BY <1>5, <2>2, <2>3
  <2>5. QED
    BY <2>2, <2>4 DEF OneOf
<1>10. QED
  BY <1>7, <1>8, <1>9

\* As long as the route stays, a document that is not stored is thrown away only by more
\* of the gesture that made it or by the answer to a load of its own template.
THEOREM UnsavedEditsSurviveHolds == Spec => UnsavedEditsSurvive
<1> DEFINE Lost == Visible /\ route' = route /\ Unsaved
           Kept == \/ \E i \in DOMAIN Timeline' : Timeline'[i] = present
                   \/ edits' > edits /\ tag # None /\ tag' = tag
                   \/ \E l \in loads : l.current /\ l \notin loads' /\ present' = Document(route, l.read)
<1>1. ASSUME DocumentInv, DocumentInv', [Next]_vars, Lost
      PROVE  Kept
  <2>1. PICK S : S = DocumentsUpTo(edits)'
    OBVIOUS
  <2>2. past' \in Seq(S) /\ present' \in S /\ future' \in Seq(S)
    BY <1>1, <2>1 DEF DocumentInv, HistoryInv, HistoryIn
  <2>3. Timeline' = past' \o <<present'>> \o future'
    BY DEF Timeline
  <2>4. ASSUME \/ present = present'
               \/ \E k \in 1 .. Len(past') : present = past'[k]
               \/ \E k \in 1 .. Len(future') : present = future'[k]
        PROVE  Kept
    <3>1. PICK p \in Seq(S), x \in S, f \in Seq(S) : p = past' /\ x = present' /\ f = future'
      BY <2>2
    <3>2. \/ present = x
          \/ \E k \in 1 .. Len(p) : present = p[k]
          \/ \E k \in 1 .. Len(f) : present = f[k]
      BY <2>4, <3>1
    <3>3. PICK all : all = p \o <<x>> \o f
      OBVIOUS
    <3>4. /\ OneOf(all, x)
          /\ \A k \in 1 .. Len(p) : OneOf(all, p[k])
          /\ \A k \in 1 .. Len(f) : OneOf(all, f[k])
      BY <3>3, InTimeline, Zenon
    <3>6. OneOf(all, present)
      BY <3>2, <3>4
    <3>7. QED
      BY <2>3, <3>1, <3>3, <3>6 DEF OneOf
  <2>5. CASE Undo
    <3>1. PICK R : R = DocumentsUpTo(edits)
      OBVIOUS
    <3>2. future \in Seq(R) /\ <<present>> \in Seq(R) /\ future' = <<present>> \o future
      BY <1>1, <2>5, <3>1 DEF Undo, DocumentInv, HistoryInv, HistoryIn
    <3>3. Len(<<present>>) = 1 /\ <<present>>[1] = present /\ Len(future) \in Nat
      BY <3>2, LenProperties
    <3>4. 1 \in 1 .. Len(future') /\ future'[1] = present
      BY <3>2, <3>3, ConcatProperties
    <3>5. QED
      BY <2>4, <3>4
  <2>6. CASE Redo
    <3>1. PICK R : R = DocumentsUpTo(edits)
      OBVIOUS
    <3>2. past \in Seq(R) /\ present \in R /\ past' = Append(past, present)
      BY <1>1, <2>6, <3>1 DEF Redo, DocumentInv, HistoryInv, HistoryIn
    <3>3. /\ Len(past) \in Nat /\ Len(past') = Len(past) + 1
          /\ past'[Len(past) + 1] = present
      BY <3>2, AppendProperties, LenProperties
    <3>4. Len(past) + 1 \in 1 .. Len(past')
      BY <3>3
    <3>5. QED
      BY <2>4, <3>3, <3>4
  <2>7. CASE \E t \in Tags \cup {None} : Commit(t)
    <3>1. /\ edits \in Nat /\ edits' = edits + 1
          /\ \/ tag # None /\ tag' = tag
             \/ past' = Capped(Append(past, present))
      BY <1>1, <2>7, EditsAreNumbers DEF Commit, Record, DocumentInv
    <3>2. ASSUME past' = Capped(Append(past, present)) PROVE Kept
      <4>1. PICK R : R = DocumentsUpTo(edits)
        OBVIOUS
      <4>2. past \in Seq(R) /\ present \in R
        BY <1>1, <4>1 DEF DocumentInv, HistoryInv, HistoryIn
      <4>3. PICK all : all = Append(past, present)
        OBVIOUS
      <4>4. /\ all \in Seq(R) /\ Len(past) \in Nat /\ Len(all) = Len(past) + 1
            /\ all[Len(past) + 1] = present
        BY <4>2, <4>3, AppendProperties, LenProperties
      <4>5. Len(past') \in 1 .. Len(past') /\ past'[Len(past')] = all[Len(all)]
        <5>1. Len(all) > 0 /\ past' = Capped(all)
          BY <3>2, <4>3, <4>4
        <5>2. QED
          BY <4>4, <5>1, CappedEndsWithTheLast
      <4>6. QED
        BY <2>4, <4>4, <4>5
    <3>3. QED
      BY <3>1, <3>2
  <2>8. CASE \E l \in loads : LoadAnswered(l)
    <3>1. PICK l \in loads : LoadAnswered(l)
      BY <2>8
    <3>2. CASE l.current
      <4>1. l.id = route
        BY <1>1, <3>2 DEF DocumentInv, CurrentLoads
      <4>2. l \notin loads' /\ present' = Document(route, l.read)
        BY <3>1, <3>2, <4>1 DEF LoadAnswered, Seed
      <4>3. QED
        BY <3>2, <4>2
    <3>3. CASE ~l.current
      BY <2>4, <3>1, <3>3 DEF LoadAnswered, history
    <3>4. QED
      BY <3>2, <3>3
  <2>9. CASE Leave \/ \E r \in Ids \cup {"new"} : Navigate(r)
    <3>1. route' # route
      BY <1>1, <2>9, DocumentAssumption DEF Leave, Navigate, Open
    <3>2. QED
      BY <1>1, <3>1
  <2>10. CASE \E s \in saves : SaveAnswered(s)
    BY <1>1, <2>4, <2>10 DEF SaveAnswered, Open, history
  <2>11. CASE \/ Save \/ RefreshToken \/ UNCHANGED vars
              \/ \E l \in loads : LoadServed(l) \/ LoadFailed(l)
              \/ \E s \in saves : Served(s) \/ SaveFailed(s)
    <3>1. present' = present
      BY <2>11 DEF Save, RefreshToken, LoadServed, LoadFailed, Served, SaveFailed, history, vars
    <3>2. QED
      BY <2>4, <3>1
  <2>12. QED
    BY <1>1, <2>5, <2>6, <2>7, <2>8, <2>9, <2>10, <2>11 DEF Next, Rest
<1>2. DocumentInv /\ DocumentInv' /\ [Next]_vars => [Lost => Kept]_vars
  BY <1>1
<1>3. Spec => [][Lost => Kept]_vars
  BY <1>2, DocumentInvHolds, PTL DEF Spec
<1>4. QED
  BY <1>3 DEF UnsavedEditsSurvive

=============================================================================
