-------------------------- MODULE BuilderCanvas_proofs --------------------------
(***************************************************************************)
(* Proofs about the canvas, for any bands, elements, grids and pointer     *)
(* movements, any number of edits and any order of gestures, panel edits,  *)
(* undo and redo.                                                          *)
(***************************************************************************)
EXTENDS BuilderCanvas, FiniteSetTheorems, SequenceTheorems, FunctionTheorems, WellFoundedInduction, TLAPS

(***************************************************************************)
(* The inductive invariant.                                                *)
(***************************************************************************)

\* A template as the builder may make it: no id is used twice.
WellFormed == {t \in Templates : IdsAreUnique(t)}

\* The templates of the timeline are well-formed, and the page in view exists.
HistoryInv ==
  /\ history = [past |-> history.past, present |-> history.present,
                future |-> history.future, tag |-> history.tag]
  /\ history.past \in Seq(WellFormed) /\ history.future \in Seq(WellFormed)
  /\ template \in WellFormed
  /\ page \in 1 .. PageCount(template) /\ edits \in 0 .. MaxEdits

\* What the rest of the screen holds; no element is selected twice.
ViewInv ==
  /\ selected \in Seq(Ids) /\ IsInjective(selected)
  /\ gesture \in [from : Nat, cut : Nat \cup {None}]
  /\ held \in {None, "drag", "resize", "page", "marquee", "lost"}
  /\ drag \in {None} \cup [id : Ids, start : AnyPoint]
  /\ resize \in {None} \cup [id : Ids, handle : Handles, start : AnyRect]
  /\ grip \in {None} \cup [grip : Grips, start : Pages]
  /\ anchor \in {None} \cup [from : AnyPoint, at : AnyPoint, moved : BOOLEAN]
  /\ editing \in {None} \cup [id : Ids, original : Writings]

\* What the pressed button holds is still there; a page grip was taken of a page that
\* was as high as its bands, and what is lost was selected, and is not any more.
HeldInv ==
  /\ held = "drag" => drag # None /\ drag.id \in IdsOf(template)
  /\ held = "resize" => resize # None /\ resize.id \in IdsOf(template)
  /\ held = "page" <=> grip # None
  /\ held = "marquee" <=> anchor # None
  /\ held = "lost" => selected = <<>>
  /\ held # None => editing = None
  /\ grip # None => grip.start.height >= ContentHeight

\* The tag of the moves of the gesture under way.
GestureTag ==
  CASE held = "drag"   -> <<"move", drag.id>>
    [] held = "lost"   -> <<"move", drag.id>>
    [] held = "resize" -> <<"resize", resize.id>>
    [] held = "page"   -> <<"resize-page">>
    [] OTHER           -> None

\* The steps there were when the moves of the gesture began, or began again.
GestureBase == IF gesture.cut = None THEN gesture.from ELSE gesture.cut

\* The moves of a gesture have made no step, or the step the next one goes into.  What
\* is deleted under the pressed button follows one step of the gesture at most, and
\* leaves nothing selected to delete.
StepInv ==
  /\ held # None =>
       \/ Len(history.past) <= GestureBase
       \/ Len(history.past) = GestureBase + 1 /\ held # "marquee" /\ history.tag = GestureTag
  /\ gesture.cut # None => held # None /\ selected = <<>> /\ gesture.cut <= gesture.from + 2

Inv == HistoryInv /\ ViewInv /\ HeldInv /\ StepInv /\ OppositeCornerStays

-----------------------------------------------------------------------------
(***************************************************************************)
(* Induction, minima, and sets put in order.                               *)
(***************************************************************************)

\* Induction over the natural numbers, for a set of them.
LEMMA Induction ==
  ASSUME NEW S, 0 \in S, \A n \in Nat : n \in S => n + 1 \in S
  PROVE  Nat \subseteq S
<1> SUFFICES ASSUME ~ (Nat \subseteq S) PROVE FALSE
  OBVIOUS
<1> DEFINE T == Nat \ S
           R == OpToRel(<, Nat)
<1>1. T \subseteq Nat /\ T # {}
  OBVIOUS
<1>2. IsWellFoundedOn(R, Nat)
  BY NatLessThanWellFounded
<1>3. \A y, x \in Nat : y < x => <<y, x>> \in R
  BY DEF OpToRel
<1> HIDE DEF T, R
<1>4. PICK x \in T : \A y \in T : ~(<<y, x>> \in R)
  BY <1>1, <1>2, WFMin
<1>5. x \in Nat /\ x \notin S
  BY <1>4 DEF T
<1>6. x # 0
  BY <1>5
<1>7. x - 1 \in Nat /\ x - 1 < x
  BY <1>5, <1>6
<1>8. x - 1 \notin T
  BY <1>3, <1>4, <1>5, <1>7
<1>9. x - 1 \in S
  BY <1>7, <1>8 DEF T
<1> QED BY <1>5, <1>7, <1>9

\* A set of natural numbers that is not empty has a smallest one.
LEMMA SmallestOf ==
  ASSUME NEW S \in SUBSET Nat, S # {}
  PROVE  Min(S) \in S /\ \A n \in S : Min(S) <= n
<1> DEFINE R == OpToRel(<, Nat)
<1>1. IsWellFoundedOn(R, Nat)
  BY NatLessThanWellFounded
<1>2. \A y, x \in Nat : y < x => <<y, x>> \in R
  BY DEF OpToRel
<1> HIDE DEF R
<1>3. PICK x \in S : \A y \in S : ~(<<y, x>> \in R)
  BY <1>1, WFMin
<1>4. \A y \in S : x <= y
  <2> SUFFICES ASSUME NEW y \in S PROVE ~(y < x)
    OBVIOUS
  <2>1. <<y, x>> \notin R /\ x \in Nat /\ y \in Nat
    BY <1>3
  <2> QED BY <2>1, <1>2
<1> QED BY <1>3, <1>4 DEF Min

\* InOrder lists the elements of a set, each once.
LEMMA InOrderLists ==
  ASSUME NEW S, IsFiniteSet(S), NEW order,
         \A x \in S : <<x, x>> \notin order,
         \A x, y, z \in S : <<x, y>> \in order /\ <<y, z>> \in order => <<x, z>> \in order,
         \A x, y \in S : x # y => <<x, y>> \in order \/ <<y, x>> \in order
  PROVE  /\ Cardinality(S) \in Nat
         /\ InOrder(S, order) \in [1 .. Cardinality(S) -> S]
         /\ IsInjective(InOrder(S, order))
         /\ \A x \in S : \E n \in 1 .. Cardinality(S) : InOrder(S, order)[n] = x
         /\ \A n \in 1 .. Cardinality(S) : \E x \in S : Cardinality({y \in S : <<y, x>> \in order}) = n - 1
<1> DEFINE below(x) == {y \in S : <<y, x>> \in order}
           N == Cardinality(S)
<1>1. N \in Nat
  BY FS_CardinalityType
<1>2. \A x \in S : IsFiniteSet(below(x)) /\ Cardinality(below(x)) \in Nat /\ Cardinality(below(x)) < N
  <2> SUFFICES ASSUME NEW x \in S
               PROVE  IsFiniteSet(below(x)) /\ Cardinality(below(x)) \in Nat /\ Cardinality(below(x)) < N
    OBVIOUS
  <2> PICK b : b = below(x)
    OBVIOUS
  <2>1. b \in SUBSET S /\ b # S
    OBVIOUS
  <2>2. IsFiniteSet(b) /\ Cardinality(b) <= N /\ Cardinality(b) # N
    BY <2>1, FS_Subset
  <2>3. Cardinality(b) \in Nat
    BY <2>2, FS_CardinalityType
  <2> QED BY <1>1, <2>2, <2>3
<1>3. \A x, y \in S : <<x, y>> \in order => Cardinality(below(x)) < Cardinality(below(y))
  <2> SUFFICES ASSUME NEW x \in S, NEW y \in S, <<x, y>> \in order
               PROVE  Cardinality(below(x)) < Cardinality(below(y))
    OBVIOUS
  <2> PICK a : a = below(x)
    OBVIOUS
  <2> PICK b : b = below(y)
    OBVIOUS
  <2>1. a \in SUBSET b /\ a # b
    OBVIOUS
  <2>2. IsFiniteSet(b) /\ Cardinality(b) \in Nat /\ Cardinality(a) \in Nat
    BY <1>2
  <2>3. Cardinality(a) <= Cardinality(b) /\ Cardinality(a) # Cardinality(b)
    BY <2>1, <2>2, FS_Subset
  <2> QED BY <2>2, <2>3
<1>16. PICK card : card = [x \in S |-> Cardinality(below(x))]
  OBVIOUS
<1>12. /\ \A x \in S : card[x] = Cardinality(below(x))
       /\ \A x \in S : card[x] \in Nat /\ card[x] < N
       /\ \A x, y \in S : <<x, y>> \in order => card[x] < card[y]
  <2>1. \A x \in S : card[x] = Cardinality(below(x))
    BY <1>16
  <2> HIDE DEF below
  <2> QED BY <2>1, <1>2, <1>3
<1> DEFINE f == [x \in S |-> card[x] + 1]
<1>4. f \in [S -> 1 .. N]
  BY <1>1, <1>12
<1>15. \A x, y \in S : <<x, y>> \in order => card[x] < card[y] /\ card[x] \in Int /\ card[y] \in Int
  <2> HIDE DEF below
  <2> QED BY <1>12
<1>13. \A x \in S : f[x] = card[x] + 1 /\ card[x] \in Nat
  BY <1>12
<1>14. DOMAIN f = S 
  OBVIOUS
<1> HIDE DEF f
<1>5. IsInjective(f)
  <2> SUFFICES ASSUME NEW x \in S, NEW y \in S, f[x] = f[y], x # y
               PROVE  FALSE
    BY <1>14 DEF IsInjective
  <2>1. card[x] = card[y]
    BY <1>13
  <2>2. CASE <<x, y>> \in order
    BY <2>1, <2>2, <1>15
  <2>3. CASE <<y, x>> \in order
    BY <2>1, <2>3, <1>15
  <2> QED BY <2>2, <2>3
<1>6. \A n \in 1 .. N : \E x \in S : f[x] = n
  <2> PICK T : T = 1 .. N
    OBVIOUS
  <2>1. IsFiniteSet(T) /\ Cardinality(T) = N
    BY <1>1, FS_Interval
  <2>2. f \in Injection(S, T)
    BY <1>4, <1>5 DEF Injection
  <2>3. f \in Surjection(S, T)
    BY <2>1, <2>2, FS_Injection
  <2> QED BY <2>3 DEF Surjection
<1>7. \A n \in 1 .. N : InOrder(S, order)[n] \in S /\ f[InOrder(S, order)[n]] = n
  <2> SUFFICES ASSUME NEW n \in 1 .. N
               PROVE  InOrder(S, order)[n] \in S /\ f[InOrder(S, order)[n]] = n
    OBVIOUS
  <2>1. PICK x \in S : f[x] = n
    BY <1>6
  <2>2. Cardinality(below(x)) = n - 1
    <3>1. card[x] = n - 1
      <4>1. f[x] = card[x] + 1 /\ card[x] \in Nat /\ n \in Int
        BY <1>1, <1>13
      <4> QED BY <2>1, <4>1
    <3> HIDE DEF below
    <3> QED BY <3>1, <1>12
  <2>3. InOrder(S, order)[n] = CHOOSE y \in S : Cardinality(below(y)) = n - 1
    BY DEF InOrder
  <2>4. InOrder(S, order)[n] \in S /\ Cardinality(below(InOrder(S, order)[n])) = n - 1
    BY <2>2, <2>3
  <2> PICK z : z = InOrder(S, order)[n]
    OBVIOUS
  <2>5. z \in S /\ card[z] = n - 1
    BY <2>4, <1>12
  <2>6. f[z] = n
    BY <2>5, <1>13
  <2> QED BY <2>5, <2>6
<1>8. InOrder(S, order) = [n \in 1 .. N |-> InOrder(S, order)[n]]
  <2> DEFINE g(n) == CHOOSE x \in S : Cardinality(below(x)) = n - 1
  <2>1. InOrder(S, order) = [n \in 1 .. N |-> g(n)]
    BY DEF InOrder
  <2> HIDE DEF g, N
  <2> QED BY <2>1
<1> PICK l : l = InOrder(S, order)
  OBVIOUS
<1>9. l \in [1 .. N -> S]
  BY <1>7, <1>8
<1>10. \A m, n \in 1 .. N : l[m] = l[n] => m = n
  BY <1>7
<1>11. \A x \in S : \E n \in 1 .. N : l[n] = x
  <2> SUFFICES ASSUME NEW x \in S PROVE \E n \in 1 .. N : l[n] = x
    OBVIOUS
  <2> PICK n : n = f[x]
    OBVIOUS
  <2>1. n \in 1 .. N
    BY <1>4
  <2>2. l[n] \in S /\ f[l[n]] = n
    BY <2>1, <1>7
  <2>3. l[n] = x
    BY <2>2, <1>4, <1>5 DEF IsInjective
  <2> QED BY <2>1, <2>3
<1>17. \A n \in 1 .. N : \E x \in S : Cardinality(below(x)) = n - 1
  <2> SUFFICES ASSUME NEW n \in 1 .. N PROVE \E x \in S : Cardinality(below(x)) = n - 1
    OBVIOUS
  <2>1. PICK x \in S : f[x] = n
    BY <1>6
  <2>2. card[x] = n - 1
    <3>1. f[x] = card[x] + 1 /\ card[x] \in Nat /\ n \in Int
      BY <1>1, <1>13
    <3> QED BY <2>1, <3>1
  <2> HIDE DEF below
  <2> QED BY <2>2, <1>12
<1> QED BY <1>1, <1>9, <1>10, <1>11, <1>17 DEF IsInjective

\* What is kept of a sequence: the items at those positions, each once.
LEMMA KeptItems ==
  ASSUME NEW T, NEW s \in Seq(T), NEW keep \in SUBSET (DOMAIN s)
  PROVE  /\ Kept(s, keep) \in Seq(T)
         /\ \E at \in [1 .. Cardinality(keep) -> keep] :
              /\ Cardinality(keep) \in Nat
              /\ Kept(s, keep) = [n \in 1 .. Cardinality(keep) |-> s[at[n]]]
              /\ IsInjective(at)
              /\ \A i \in keep : \E n \in 1 .. Cardinality(keep) : at[n] = i
<1> DEFINE order == {ij \in keep \X keep : ij[1] < ij[2]}
<1>1. DOMAIN s = 1 .. Len(s) /\ Len(s) \in Nat /\ \A i \in DOMAIN s : s[i] \in T
  OBVIOUS
<1>2. IsFiniteSet(keep)
  <2> PICK d : d = 1 .. Len(s)
    OBVIOUS
  <2>1. IsFiniteSet(d) /\ keep \in SUBSET d
    BY <1>1, FS_Interval
  <2> QED BY <2>1, FS_Subset
<1>3. \A x, y \in keep : x \in Nat /\ y \in Nat /\ (<<x, y>> \in order <=> x < y)
  BY <1>1
<1> HIDE DEF order
<1>4. /\ \A x \in keep : <<x, x>> \notin order
      /\ \A x, y, z \in keep : <<x, y>> \in order /\ <<y, z>> \in order => <<x, z>> \in order
      /\ \A x, y \in keep : x # y => <<x, y>> \in order \/ <<y, x>> \in order
  BY <1>3
<1> PICK at : at = InOrder(keep, order)
  OBVIOUS
<1> PICK c : c = Cardinality(keep)
  OBVIOUS
<1>5. /\ c \in Nat /\ at \in [1 .. c -> keep] /\ IsInjective(at)
      /\ \A i \in keep : \E n \in 1 .. c : at[n] = i
  BY <1>2, <1>4, InOrderLists
<1>6. Kept(s, keep) = [n \in 1 .. c |-> s[at[n]]]
  BY DEF Kept, order
<1>7. [n \in 1 .. c |-> s[at[n]]] \in [1 .. c -> T]
  BY <1>1, <1>5
<1>8. Kept(s, keep) \in Seq(T)
  <2> PICK k : k = Kept(s, keep)
    OBVIOUS
  <2>1. k \in [1 .. c -> T]
    BY <1>6, <1>7
  <2> QED BY <1>5, <2>1, SeqDef
<1> QED BY <1>5, <1>6, <1>8

-----------------------------------------------------------------------------
(***************************************************************************)
(* Templates.                                                              *)
(***************************************************************************)

\* A place is an index of a band and one of an element in it.
LEMMA PlacesAre ==
  ASSUME NEW t \in Templates
  PROVE  /\ \A i \in DOMAIN BandOrder : BandOrder[i] \in Kinds
         /\ \A k \in Kinds : t.bands[k] \in Seq(AnyElement)
         /\ \A i \in DOMAIN BandOrder : \A j \in DOMAIN t.bands[BandOrder[i]] : <<i, j>> \in Places(t)
         /\ \A p \in Places(t) : /\ p[1] \in DOMAIN BandOrder /\ p[2] \in DOMAIN t.bands[BandOrder[p[1]]]
                                 /\ p = <<p[1], p[2]>> /\ p[1] \in Nat /\ p[2] \in Nat
         /\ \A p \in Places(t) : At(t, p) \in AnyElement
         /\ IsFiniteSet(Places(t))
<1>1. \A i \in DOMAIN BandOrder : BandOrder[i] \in Kinds
  BY CanvasAssumption
<1>2. \A k \in Kinds : t.bands[k] \in Seq(AnyElement)
  <2>1. t.bands \in [Kinds -> Seq(AnyElement)]
    BY DEF Templates
  <2> QED BY <2>1
<1>3. \A i \in DOMAIN BandOrder : \A j \in DOMAIN t.bands[BandOrder[i]] : <<i, j>> \in Places(t)
  BY DEF Places
<1>4. ASSUME NEW p \in Places(t)
      PROVE  /\ p[1] \in DOMAIN BandOrder /\ p[2] \in DOMAIN t.bands[BandOrder[p[1]]]
             /\ p = <<p[1], p[2]>> /\ p[1] \in Nat /\ p[2] \in Nat
             /\ At(t, p) \in AnyElement
  <2>1. PICK i \in DOMAIN BandOrder : p \in {i} \X DOMAIN t.bands[BandOrder[i]]
    BY DEF Places
  <2>2. p = <<p[1], p[2]>> /\ p[1] = i /\ p[2] \in DOMAIN t.bands[BandOrder[i]]
    BY <2>1
  <2>3. PICK s : s = t.bands[BandOrder[i]]
    OBVIOUS
  <2>4. s \in Seq(AnyElement)
    BY <1>1, <1>2, <2>3
  <2>5. p[2] \in DOMAIN s /\ p[2] \in Nat /\ s[p[2]] \in AnyElement
    BY <2>2, <2>3, <2>4
  <2>6. i \in Nat
    BY CanvasAssumption
  <2> QED BY <2>2, <2>3, <2>5, <2>6 DEF At
<1>5. IsFiniteSet(Places(t))
  <2> DEFINE row(i) == {i} \X DOMAIN t.bands[BandOrder[i]]
             f == [i \in DOMAIN BandOrder |-> row(i)]
             rows == {row(i) : i \in DOMAIN BandOrder}
  <2>1. PICK d : d = DOMAIN BandOrder
    OBVIOUS
  <2>2. IsFiniteSet(d)
    BY <2>1, CanvasAssumption, FS_Interval
  <2>3. f \in Surjection(d, rows)
    BY <2>1 DEF Surjection
  <2>4. IsFiniteSet(rows)
    BY <2>2, <2>3, FS_Surjection
  <2>5. \A i \in d : IsFiniteSet(row(i))
    <3> SUFFICES ASSUME NEW i \in d PROVE IsFiniteSet(row(i))
      OBVIOUS
    <3>1. PICK s : s = t.bands[BandOrder[i]]
      OBVIOUS
    <3>2. s \in Seq(AnyElement)
      BY <1>1, <1>2, <2>1, <3>1
    <3>3. PICK e : e = DOMAIN s
      OBVIOUS
    <3>4. IsFiniteSet(e)
      BY <3>2, <3>3, FS_Interval
    <3>5. PICK o : o = {i}
      OBVIOUS
    <3>6. IsFiniteSet(o)
      BY <3>5, FS_Singleton
    <3>7. IsFiniteSet(o \X e)
      BY <3>4, <3>6, FS_Product
    <3> QED BY <3>1, <3>3, <3>5, <3>7
  <2>6. \A r \in rows : IsFiniteSet(r)
    BY <2>1, <2>5
  <2>7. Places(t) = UNION rows
    BY DEF Places
  <2> HIDE DEF rows
  <2> QED BY <2>4, <2>6, <2>7, FS_UNION
<1> QED BY <1>1, <1>2, <1>3, <1>4, <1>5

\* The pages of a template can be counted.
LEMMA PagesAreCounted ==
  ASSUME NEW t \in Templates
  PROVE  PageCount(t) \in Nat \ {0}
<1> PICK s : s = {p \in Places(t) : At(t, p).type = "pageBreak"}
  OBVIOUS
<1>1. s \in SUBSET Places(t)
  OBVIOUS
<1> PICK q : q = Places(t)
  OBVIOUS
<1>2. IsFiniteSet(s)
  <2>1. IsFiniteSet(q) /\ s \in SUBSET q
    BY <1>1, PlacesAre
  <2> QED BY <2>1, FS_Subset
<1>3. Cardinality(s) \in Nat
  BY <1>2, FS_CardinalityType
<1>4. PageCount(t) = 1 + Cardinality(s)
  BY DEF PageCount
<1> QED BY <1>3, <1>4

\* The element of an id.
LEMMA ElementsAre ==
  ASSUME NEW t \in WellFormed
  PROVE  /\ t \in Templates
         /\ IdsOf(t) \subseteq Ids
         /\ \A p \in Places(t) : /\ At(t, p).id \in IdsOf(t) /\ At(t, p) \in Elements(t)
                                 /\ PlaceOf(t, At(t, p).id) = p
                                 /\ ElementOf(t, At(t, p).id) = At(t, p)
         /\ \A id \in IdsOf(t) : /\ PlaceOf(t, id) \in Places(t) /\ ElementOf(t, id) = At(t, PlaceOf(t, id))
                                 /\ ElementOf(t, id) \in AnyElement /\ ElementOf(t, id).id = id
         /\ \A e \in Elements(t) : e \in AnyElement /\ e.id \in IdsOf(t) /\ ElementOf(t, e.id) = e
<1>1. t \in Templates /\ IdsAreUnique(t)
  BY DEF WellFormed
<1>2. \A p \in Places(t) : At(t, p) \in AnyElement /\ At(t, p).id \in Ids
  BY <1>1, PlacesAre DEF AnyElement
<1>3. \A p \in Places(t) : At(t, p).id \in IdsOf(t) /\ At(t, p) \in Elements(t)
  BY DEF IdsOf, Elements
<1>4. \A id \in IdsOf(t) : \E p \in Places(t) : At(t, p).id = id
  BY DEF IdsOf
<1>5. \A id \in IdsOf(t) : PlaceOf(t, id) \in Places(t) /\ At(t, PlaceOf(t, id)).id = id
  BY <1>4 DEF PlaceOf
<1>6. \A p \in Places(t) : PlaceOf(t, At(t, p).id) = p
  BY <1>1, <1>3, <1>5 DEF IdsAreUnique
<1>7. \A e \in Elements(t) : \E p \in Places(t) : e = At(t, p)
  BY DEF Elements
<1> QED BY <1>1, <1>2, <1>3, <1>4, <1>5, <1>6, <1>7 DEF ElementOf

\* A template with its bands exchanged.
LEMMA Rebanded ==
  ASSUME NEW t \in Templates, NEW b \in [Kinds -> Seq(AnyElement)]
  PROVE  /\ [t EXCEPT !.bands = b] \in Templates
         /\ [t EXCEPT !.bands = b].bands = b
         /\ [t EXCEPT !.bands = b].page = t.page
         /\ [t EXCEPT !.bands = b].settings = t.settings
BY DEF Templates

\* What changes no id and no type of an element leaves a template well-formed, with its
\* ids and its pages.
LEMMA SameElements ==
  ASSUME NEW t \in WellFormed, NEW u \in Templates,
         \A k \in Kinds : /\ DOMAIN u.bands[k] = DOMAIN t.bands[k]
                          /\ \A i \in DOMAIN t.bands[k] : /\ u.bands[k][i].id = t.bands[k][i].id
                                                          /\ u.bands[k][i].type = t.bands[k][i].type
  PROVE  /\ u \in WellFormed /\ IdsOf(u) = IdsOf(t) /\ PageCount(u) = PageCount(t)
         /\ \A id \in IdsOf(t) : ElementOf(u, id) = At(u, PlaceOf(t, id))
<1>1. t \in Templates /\ IdsAreUnique(t)
  BY DEF WellFormed
<1>2. Places(u) = Places(t)
  <2>1. \A i \in DOMAIN BandOrder : DOMAIN u.bands[BandOrder[i]] = DOMAIN t.bands[BandOrder[i]]
    BY <1>1, PlacesAre
  <2>2. \A i \in DOMAIN BandOrder :
          {i} \X DOMAIN u.bands[BandOrder[i]] = {i} \X DOMAIN t.bands[BandOrder[i]]
    BY <2>1
  <2> QED BY <2>2 DEF Places
<1>3. \A p \in Places(t) : At(u, p).id = At(t, p).id /\ At(u, p).type = At(t, p).type
  <2> SUFFICES ASSUME NEW p \in Places(t)
               PROVE  At(u, p).id = At(t, p).id /\ At(u, p).type = At(t, p).type
    OBVIOUS
  <2>1. p[1] \in DOMAIN BandOrder /\ BandOrder[p[1]] \in Kinds /\ p[2] \in DOMAIN t.bands[BandOrder[p[1]]]
    BY <1>1, PlacesAre
  <2> QED BY <2>1 DEF At
<1>4. IdsAreUnique(u)
  BY <1>1, <1>2, <1>3 DEF IdsAreUnique
<1>5. u \in WellFormed
  BY <1>4 DEF WellFormed
<1>6. IdsOf(u) = IdsOf(t)
  BY <1>2, <1>3 DEF IdsOf
<1>7. {p \in Places(u) : At(u, p).type = "pageBreak"} = {p \in Places(t) : At(t, p).type = "pageBreak"}
  BY <1>2, <1>3
<1>8. PageCount(u) = PageCount(t)
  BY <1>7 DEF PageCount
<1>9. ASSUME NEW id \in IdsOf(t)
      PROVE  ElementOf(u, id) = At(u, PlaceOf(t, id))
  <2>1. PlaceOf(t, id) \in Places(t) /\ At(t, PlaceOf(t, id)).id = id
    BY ElementsAre
  <2>2. PICK p : p = PlaceOf(t, id)
    OBVIOUS
  <2>3. p \in Places(u) /\ At(u, p).id = id
    BY <1>2, <1>3, <2>1, <2>2
  <2> QED BY <1>5, <2>2, <2>3, ElementsAre
<1> QED BY <1>5, <1>6, <1>8, <1>9

\* An element is exchanged for one of its id and type (model.ts, updateElement).
LEMMA Updated ==
  ASSUME NEW t \in WellFormed, NEW id, NEW e,
         id \in IdsOf(t) => e \in AnyElement /\ e.id = id /\ e.type = ElementOf(t, id).type
  PROVE  /\ Update(t, id, e) \in WellFormed
         /\ IdsOf(Update(t, id, e)) = IdsOf(t) /\ PageCount(Update(t, id, e)) = PageCount(t)
         /\ Update(t, id, e).page = t.page
         /\ \A other \in IdsOf(t) :
              ElementOf(Update(t, id, e), other) = IF other = id THEN e ELSE ElementOf(t, other)
<1>1. t \in Templates
  BY DEF WellFormed
<1>2. t.bands \in [Kinds -> Seq(AnyElement)]
  BY <1>1 DEF Templates
<1> DEFINE row(k) == [i \in DOMAIN t.bands[k] |-> IF t.bands[k][i].id = id THEN e ELSE t.bands[k][i]]
           b == [k \in DOMAIN t.bands |-> row(k)]
<1>3. \A k \in Kinds : \E j \in DOMAIN BandOrder : k = BandOrder[j]
  BY CanvasAssumption DEF Kinds, ToSet
<1>4. ASSUME NEW k \in Kinds, NEW i \in DOMAIN t.bands[k], t.bands[k][i].id = id
      PROVE  e \in AnyElement /\ e.id = id /\ e.type = t.bands[k][i].type
  <2>1. PICK j \in DOMAIN BandOrder : k = BandOrder[j]
    BY <1>3
  <2>2. PICK p : p = <<j, i>>
    OBVIOUS
  <2>3. p \in Places(t) /\ At(t, p) = t.bands[k][i]
    BY <1>1, <2>1, <2>2, PlacesAre DEF At
  <2>4. id \in IdsOf(t) /\ ElementOf(t, id) = t.bands[k][i]
    BY <1>4, <2>3, ElementsAre
  <2> QED BY <2>4
<1>5. ASSUME NEW k \in Kinds
      PROVE  /\ row(k) \in Seq(AnyElement) /\ DOMAIN row(k) = DOMAIN t.bands[k]
             /\ \A i \in DOMAIN t.bands[k] : /\ row(k)[i].id = t.bands[k][i].id
                                             /\ row(k)[i].type = t.bands[k][i].type
  <2>1. PICK s : s = t.bands[k]
    OBVIOUS
  <2>2. s \in Seq(AnyElement) /\ Len(s) \in Nat /\ DOMAIN s = 1 .. Len(s)
    BY <1>2, <2>1
  <2>3. PICK r : r = [i \in DOMAIN s |-> IF s[i].id = id THEN e ELSE s[i]]
    OBVIOUS
  <2>4. \A i \in DOMAIN s : r[i] \in AnyElement /\ r[i].id = s[i].id /\ r[i].type = s[i].type
    BY <1>4, <2>1, <2>2, <2>3
  <2>5. DOMAIN r = 1 .. Len(s) /\ r = [i \in 1 .. Len(s) |-> r[i]]
    BY <2>2, <2>3
  <2>6. r \in [1 .. Len(s) -> AnyElement]
    BY <2>2, <2>4, <2>5
  <2>7. r \in Seq(AnyElement)
    BY <2>2, <2>6, SeqDef
  <2> QED BY <2>1, <2>2, <2>3, <2>4, <2>5, <2>7
<1>6. PICK c : c = b
  OBVIOUS
<1>7. c \in [Kinds -> Seq(AnyElement)] /\ \A k \in Kinds : c[k] = row(k)
  BY <1>2, <1>5, <1>6
<1>8. PICK u : u = [t EXCEPT !.bands = c]
  OBVIOUS
<1>9. Update(t, id, e) = u
  BY <1>6, <1>8 DEF Update
<1>10. u \in Templates /\ u.bands = c /\ u.page = t.page
  BY <1>1, <1>7, <1>8, Rebanded
<1>11. \A k \in Kinds : /\ DOMAIN u.bands[k] = DOMAIN t.bands[k]
                        /\ \A i \in DOMAIN t.bands[k] : /\ u.bands[k][i].id = t.bands[k][i].id
                                                        /\ u.bands[k][i].type = t.bands[k][i].type
  <2> HIDE DEF row, b
  <2>1. ASSUME NEW k \in Kinds PROVE u.bands[k] = row(k)
    BY <1>7, <1>10
  <2> QED BY <1>5, <2>1
<1>12. /\ u \in WellFormed /\ IdsOf(u) = IdsOf(t) /\ PageCount(u) = PageCount(t)
       /\ \A other \in IdsOf(t) : ElementOf(u, other) = At(u, PlaceOf(t, other))
  BY <1>10, <1>11, SameElements
<1>13. ASSUME NEW other \in IdsOf(t)
       PROVE  ElementOf(u, other) = IF other = id THEN e ELSE ElementOf(t, other)
  <2>1. PICK p : p = PlaceOf(t, other)
    OBVIOUS
  <2>2. p \in Places(t) /\ ElementOf(t, other) = At(t, p) /\ At(t, p).id = other
    BY <2>1, ElementsAre
  <2>3. /\ p[1] \in DOMAIN BandOrder /\ BandOrder[p[1]] \in Kinds
        /\ p[2] \in DOMAIN t.bands[BandOrder[p[1]]]
    BY <1>1, <2>2, PlacesAre
  <2>4. At(u, p) = IF At(t, p).id = id THEN e ELSE At(t, p)
    BY <1>7, <1>10, <2>3 DEF At
  <2> QED BY <1>12, <2>1, <2>2, <2>4
<1> QED BY <1>9, <1>10, <1>12, <1>13

\* The rects of elements are exchanged (model.ts, updateElementRects).
LEMMA RectsUpdated ==
  ASSUME NEW t \in WellFormed, NEW rects, \A id \in DOMAIN rects : rects[id] \in AnyRect
  PROVE  /\ UpdateRects(t, rects) \in WellFormed
         /\ IdsOf(UpdateRects(t, rects)) = IdsOf(t) /\ PageCount(UpdateRects(t, rects)) = PageCount(t)
         /\ \A id \in IdsOf(t) : id \in DOMAIN rects => ElementOf(UpdateRects(t, rects), id).rect = rects[id]
<1>1. t \in Templates
  BY DEF WellFormed
<1>2. t.bands \in [Kinds -> Seq(AnyElement)]
  BY <1>1 DEF Templates
<1> DEFINE new(q) == IF q.id \in DOMAIN rects THEN [q EXCEPT !.rect = rects[q.id]] ELSE q
           row(k) == [i \in DOMAIN t.bands[k] |-> new(t.bands[k][i])]
           b == [k \in DOMAIN t.bands |-> row(k)]
<1>3. ASSUME NEW q \in AnyElement
      PROVE  new(q) \in AnyElement /\ new(q).id = q.id /\ new(q).type = q.type
  BY DEF AnyElement
<1>4. PICK c : c = b
  OBVIOUS
<1>5. UpdateRects(t, rects) = [t EXCEPT !.bands = c]
  BY <1>4 DEF UpdateRects
<1> HIDE DEF new
<1>6. ASSUME NEW k \in Kinds
      PROVE  /\ row(k) \in Seq(AnyElement) /\ DOMAIN row(k) = DOMAIN t.bands[k]
             /\ \A i \in DOMAIN t.bands[k] : /\ row(k)[i].id = t.bands[k][i].id
                                             /\ row(k)[i].type = t.bands[k][i].type
  <2>1. PICK s : s = t.bands[k]
    OBVIOUS
  <2>2. s \in Seq(AnyElement) /\ Len(s) \in Nat /\ DOMAIN s = 1 .. Len(s)
    BY <1>2, <2>1
  <2>3. PICK r : r = [i \in DOMAIN s |-> new(s[i])]
    OBVIOUS
  <2>4. \A i \in DOMAIN s : r[i] \in AnyElement /\ r[i].id = s[i].id /\ r[i].type = s[i].type
    BY <1>3, <2>2, <2>3
  <2>5. DOMAIN r = 1 .. Len(s) /\ r = [i \in 1 .. Len(s) |-> r[i]]
    BY <2>2, <2>3
  <2>6. r \in [1 .. Len(s) -> AnyElement]
    BY <2>2, <2>4, <2>5
  <2>7. r \in Seq(AnyElement)
    BY <2>2, <2>6, SeqDef
  <2> QED BY <2>1, <2>2, <2>3, <2>4, <2>5, <2>7
<1>7. c \in [Kinds -> Seq(AnyElement)] /\ \A k \in Kinds : c[k] = row(k)
  BY <1>2, <1>4, <1>6
<1>8. PICK u : u = [t EXCEPT !.bands = c]
  OBVIOUS
<1>9. u \in Templates /\ u.bands = c
  BY <1>1, <1>7, <1>8, Rebanded
<1>10. \A k \in Kinds : /\ DOMAIN u.bands[k] = DOMAIN t.bands[k]
                        /\ \A i \in DOMAIN t.bands[k] : /\ u.bands[k][i].id = t.bands[k][i].id
                                                        /\ u.bands[k][i].type = t.bands[k][i].type
  <2> HIDE DEF row, b
  <2>1. ASSUME NEW k \in Kinds PROVE u.bands[k] = row(k)
    BY <1>7, <1>9
  <2> QED BY <1>6, <2>1
<1>11. /\ u \in WellFormed /\ IdsOf(u) = IdsOf(t) /\ PageCount(u) = PageCount(t)
       /\ \A id \in IdsOf(t) : ElementOf(u, id) = At(u, PlaceOf(t, id))
  BY <1>9, <1>10, SameElements
<1>12. ASSUME NEW id \in IdsOf(t), id \in DOMAIN rects
       PROVE  ElementOf(u, id).rect = rects[id]
  <2>1. PICK p : p = PlaceOf(t, id)
    OBVIOUS
  <2>2. p \in Places(t) /\ At(t, p).id = id /\ At(t, p) \in AnyElement
    BY <2>1, ElementsAre
  <2>3. /\ p[1] \in DOMAIN BandOrder /\ BandOrder[p[1]] \in Kinds
        /\ p[2] \in DOMAIN t.bands[BandOrder[p[1]]]
    BY <1>1, <2>2, PlacesAre
  <2>4. At(u, p) = new(At(t, p))
    BY <1>7, <1>9, <2>3 DEF At
  <2>5. PICK q : q = At(t, p)
    OBVIOUS
  <2>6. new(q).rect = rects[id]
    BY <1>12, <2>2, <2>5 DEF AnyElement, new
  <2> QED BY <1>11, <2>1, <2>4, <2>5, <2>6
<1> QED BY <1>5, <1>8, <1>11, <1>12

\* A new element is added to a band (model.ts, addElement).
LEMMA Added ==
  ASSUME NEW t \in WellFormed, NEW band \in Kinds, NEW e \in AnyElement, e.id \notin IdsOf(t)
  PROVE  AddElement(t, band, e) \in WellFormed
<1>1. t \in Templates /\ IdsAreUnique(t)
  BY DEF WellFormed
<1>2. t.bands \in [Kinds -> Seq(AnyElement)]
  BY <1>1 DEF Templates
<1>3. PICK s : s = t.bands[band]
  OBVIOUS
<1>4. s \in Seq(AnyElement) /\ Len(s) \in Nat /\ DOMAIN s = 1 .. Len(s)
  BY <1>2, <1>3
<1>5. PICK r : r = Append(s, e)
  OBVIOUS
<1>6. /\ r \in Seq(AnyElement) /\ DOMAIN r = 1 .. Len(s) + 1
      /\ r[Len(s) + 1] = e /\ \A i \in 1 .. Len(s) : r[i] = s[i]
  BY <1>4, <1>5
<1>7. PICK c : c = [t.bands EXCEPT ![band] = r]
  OBVIOUS
<1>8. /\ c \in [Kinds -> Seq(AnyElement)] /\ c[band] = r
      /\ \A k \in Kinds \ {band} : c[k] = t.bands[k]
  BY <1>2, <1>6, <1>7
<1>9. PICK u : u = [t EXCEPT !.bands = c]
  OBVIOUS
<1>10. AddElement(t, band, e) = u
  BY <1>3, <1>5, <1>7, <1>9 DEF AddElement
<1>11. u \in Templates /\ u.bands = c
  BY <1>1, <1>8, <1>9, Rebanded
<1>12. \A p \in Places(u) : /\ p[1] \in DOMAIN BandOrder /\ BandOrder[p[1]] \in Kinds
                            /\ p[2] \in DOMAIN c[BandOrder[p[1]]] /\ p = <<p[1], p[2]>>
                            /\ At(u, p) = c[BandOrder[p[1]]][p[2]]
  BY <1>11, PlacesAre DEF At
<1>13. ASSUME NEW p \in Places(u)
       PROVE  \/ At(u, p) = e /\ BandOrder[p[1]] = band /\ p[2] = Len(s) + 1
              \/ p \in Places(t) /\ At(u, p) = At(t, p)
  <2>1. CASE BandOrder[p[1]] = band
    <3>1. p[2] \in 1 .. Len(s) + 1 /\ At(u, p) = r[p[2]]
      BY <1>6, <1>8, <1>12, <2>1
    <3>2. CASE p[2] = Len(s) + 1
      BY <1>6, <2>1, <3>1, <3>2
    <3>3. CASE p[2] # Len(s) + 1
      <4>1. p[2] \in 1 .. Len(s)
        BY <1>4, <3>1, <3>3
      <4>2. At(u, p) = s[p[2]] /\ p[2] \in DOMAIN t.bands[BandOrder[p[1]]]
        BY <1>3, <1>4, <1>6, <2>1, <3>1, <4>1
      <4>3. <<p[1], p[2]>> \in Places(t)
        BY <1>1, <1>12, <4>2, PlacesAre
      <4> QED BY <1>3, <1>12, <2>1, <4>2, <4>3 DEF At
    <3> QED BY <3>2, <3>3
  <2>2. CASE BandOrder[p[1]] # band
    <3>1. p[2] \in DOMAIN t.bands[BandOrder[p[1]]] /\ At(u, p) = t.bands[BandOrder[p[1]]][p[2]]
      BY <1>8, <1>12, <2>2
    <3>2. <<p[1], p[2]>> \in Places(t)
      BY <1>1, <1>12, <3>1, PlacesAre
    <3> QED BY <1>12, <3>1, <3>2 DEF At
  <2> QED BY <2>1, <2>2
<1>14. \A i, j \in DOMAIN BandOrder : BandOrder[i] = BandOrder[j] => i = j
  BY CanvasAssumption DEF IsInjective
<1>15. ASSUME NEW p \in Places(u), NEW q \in Places(u), At(u, p).id = At(u, q).id
       PROVE  p = q
  <2>1. CASE At(u, p) = e /\ BandOrder[p[1]] = band /\ p[2] = Len(s) + 1
    <3>1. q \notin Places(t) \/ At(u, q) # At(t, q)
      <4>1. \A o \in Places(t) : At(t, o).id # e.id
        BY ElementsAre
      <4> QED BY <1>15, <2>1, <4>1
    <3>2. BandOrder[q[1]] = band /\ q[2] = Len(s) + 1
      BY <1>13, <3>1
    <3> QED BY <1>12, <1>14, <2>1, <3>2
  <2>2. CASE p \in Places(t) /\ At(u, p) = At(t, p)
    <3>1. At(u, q) # e
      <4>1. At(t, p).id # e.id
        BY <2>2, ElementsAre
      <4> QED BY <1>15, <2>2, <4>1
    <3>2. q \in Places(t) /\ At(u, q) = At(t, q)
      BY <1>13, <3>1
    <3> QED BY <1>1, <1>15, <2>2, <3>2 DEF IdsAreUnique
  <2> QED BY <1>13, <2>1, <2>2
<1> QED BY <1>10, <1>11, <1>15 DEF WellFormed, IdsAreUnique

\* Elements are removed (model.ts, removeElements).
LEMMA Removed ==
  ASSUME NEW t \in WellFormed, NEW ids
  PROVE  RemoveElements(t, ids) \in WellFormed
<1>1. t \in Templates /\ IdsAreUnique(t)
  BY DEF WellFormed
<1>2. t.bands \in [Kinds -> Seq(AnyElement)]
  BY <1>1 DEF Templates
<1> DEFINE keep(k) == {i \in DOMAIN t.bands[k] : t.bands[k][i].id \notin ids}
           row(k)  == Kept(t.bands[k], keep(k))
           b       == [k \in DOMAIN t.bands |-> row(k)]
           Lists(k, at) ==
             /\ \A n \in DOMAIN row(k) : at[n] \in DOMAIN t.bands[k] /\ row(k)[n] = t.bands[k][at[n]]
             /\ \A m, n \in DOMAIN row(k) : at[m] = at[n] => m = n
           from(k) == CHOOSE at : Lists(k, at)
<1>3. ASSUME NEW k \in Kinds
      PROVE  row(k) \in Seq(AnyElement) /\ \E at : Lists(k, at)
  <2>1. PICK s : s = t.bands[k]
    OBVIOUS
  <2>2. PICK kp : kp = keep(k)
    OBVIOUS
  <2>3. s \in Seq(AnyElement) /\ kp \in SUBSET (DOMAIN s)
    BY <1>2, <2>1, <2>2
  <2>4. PICK c : c = Cardinality(kp)
    OBVIOUS
  <2>5. PICK at \in [1 .. c -> kp] : /\ c \in Nat /\ Kept(s, kp) = [n \in 1 .. c |-> s[at[n]]]
                                     /\ IsInjective(at)
    BY <2>3, <2>4, KeptItems
  <2>6. Kept(s, kp) \in Seq(AnyElement)
    BY <2>3, KeptItems
  <2>7. DOMAIN Kept(s, kp) = 1 .. c /\ \A n \in 1 .. c : at[n] \in DOMAIN s /\ Kept(s, kp)[n] = s[at[n]]
    BY <2>3, <2>5
  <2>8. \A m, n \in 1 .. c : at[m] = at[n] => m = n
    BY <2>5 DEF IsInjective
  <2>9. row(k) = Kept(s, kp)
    BY <2>1, <2>2
  <2>10. \A n \in DOMAIN row(k) : at[n] \in DOMAIN t.bands[k] /\ row(k)[n] = t.bands[k][at[n]]
    BY ONLY <2>1, <2>7, <2>9
  <2>11. \A m, n \in DOMAIN row(k) : at[m] = at[n] => m = n
    BY ONLY <2>7, <2>8, <2>9
  <2>12. Lists(k, at)
    BY <2>10, <2>11
  <2> HIDE DEF Lists, row
  <2> QED BY <2>6, <2>9, <2>12
<1>11. \A k \in Kinds : Lists(k, from(k))
  <2> HIDE DEF Lists
  <2> QED BY <1>3
<1> HIDE DEF from
<1>4. PICK c : c = b
  OBVIOUS
<1>5. RemoveElements(t, ids) = [t EXCEPT !.bands = c]
  BY <1>4 DEF RemoveElements
<1> HIDE DEF row
<1>6. c \in [Kinds -> Seq(AnyElement)] /\ \A k \in Kinds : c[k] = row(k)
  BY <1>2, <1>3, <1>4
<1>7. PICK u : u = [t EXCEPT !.bands = c]
  OBVIOUS
<1>8. u \in Templates /\ u.bands = c
  BY <1>1, <1>6, <1>7, Rebanded
<1>9. \A p \in Places(u) : /\ p[1] \in DOMAIN BandOrder /\ BandOrder[p[1]] \in Kinds
                           /\ p[2] \in DOMAIN c[BandOrder[p[1]]] /\ p = <<p[1], p[2]>>
                           /\ At(u, p) = c[BandOrder[p[1]]][p[2]]
  BY <1>8, PlacesAre DEF At
<1>10. ASSUME NEW p \in Places(u), NEW q \in Places(u), At(u, p).id = At(u, q).id
       PROVE  p = q
  <2>1. PICK k : k = BandOrder[p[1]]
    OBVIOUS
  <2>2. PICK l : l = BandOrder[q[1]]
    OBVIOUS
  <2>3. PICK f : f = from(k)
    OBVIOUS
  <2>4. PICK g : g = from(l)
    OBVIOUS
  <2>5. PICK p2 : p2 = <<p[1], f[p[2]]>>
    OBVIOUS
  <2>6. PICK q2 : q2 = <<q[1], g[q[2]]>>
    OBVIOUS
  <2>7. /\ k \in Kinds /\ l \in Kinds
        /\ p[2] \in DOMAIN row(k) /\ At(u, p) = row(k)[p[2]]
        /\ q[2] \in DOMAIN row(l) /\ At(u, q) = row(l)[q[2]]
    BY <1>6, <1>9, <2>1, <2>2
  <2>8. /\ f[p[2]] \in DOMAIN t.bands[k] /\ At(u, p) = t.bands[k][f[p[2]]]
        /\ g[q[2]] \in DOMAIN t.bands[l] /\ At(u, q) = t.bands[l][g[q[2]]]
    BY <1>11, <2>3, <2>4, <2>7
  <2>9. p2 \in Places(t) /\ q2 \in Places(t)
    BY <1>1, <1>9, <2>1, <2>2, <2>5, <2>6, <2>8, PlacesAre
  <2>10. At(t, p2) = At(u, p) /\ At(t, q2) = At(u, q)
    BY <2>1, <2>2, <2>5, <2>6, <2>8 DEF At
  <2>11. p2 = q2
    BY <1>1, <1>10, <2>9, <2>10 DEF IdsAreUnique
  <2>12. p[1] = q[1] /\ f[p[2]] = g[q[2]]
    BY <2>5, <2>6, <2>11
  <2>13. k = l /\ f = g
    BY <2>1, <2>2, <2>3, <2>4, <2>12
  <2>14. p[2] = q[2]
    <3>1. \A m, n \in DOMAIN row(k) : f[m] = f[n] => m = n
      BY <1>11, <2>3, <2>7
    <3>2. p[2] \in DOMAIN row(k) /\ q[2] \in DOMAIN row(k)
      BY <2>7, <2>13
    <3> QED BY <2>12, <2>13, <3>1, <3>2
  <2> QED BY <1>9, <2>12, <2>14
<1> QED BY <1>5, <1>7, <1>8, <1>10 DEF WellFormed, IdsAreUnique

\* The id of a new element is used by no other (model.ts, nextElementId).
LEMMA NewIdIsNew ==
  ASSUME NEW t \in WellFormed, NEW type \in Types
  PROVE  NextElementId(t, type) \in Ids /\ NextElementId(t, type) \notin IdsOf(t)
<1>1. PICK places : places = Places(t)
  OBVIOUS
<1>2. PICK c : c = Cardinality(places)
  OBVIOUS
<1>3. IsFiniteSet(places) /\ c \in Nat
  BY <1>1, <1>2, ElementsAre, PlacesAre, FS_CardinalityType
<1>4. PICK ids : ids = IdsOf(t)
  OBVIOUS
<1>5. PICK free : free = {n \in 1 .. c + 1 : <<type, n>> \notin ids}
  OBVIOUS
<1>6. free # {}
  <2> SUFFICES ASSUME \A n \in 1 .. c + 1 : <<type, n>> \in ids PROVE FALSE
    BY <1>5
  <2>1. PICK f : f = [n \in 1 .. c + 1 |-> PlaceOf(t, <<type, n>>)]
    OBVIOUS
  <2>2. \A n \in 1 .. c + 1 : f[n] \in places /\ At(t, f[n]).id = <<type, n>>
    BY <1>1, <1>4, <2>1, ElementsAre
  <2>3. PICK numbers : numbers = 1 .. c + 1
    OBVIOUS
  <2>4. IsFiniteSet(numbers) /\ Cardinality(numbers) = c + 1
    BY <1>3, <2>3, FS_Interval
  <2>5. \A m, n \in numbers : f[m] = f[n] => m = n
    <3> SUFFICES ASSUME NEW m \in numbers, NEW n \in numbers, f[m] = f[n] PROVE m = n
      OBVIOUS
    <3>1. <<type, m>> = <<type, n>>
      BY <2>2, <2>3
    <3> QED BY <3>1
  <2>6. f \in [numbers -> places]
    BY <2>1, <2>2, <2>3
  <2>7. f \in Injection(numbers, places)
    BY <2>5, <2>6 DEF Injection, IsInjective
  <2>8. Cardinality(numbers) <= c
    BY <1>2, <1>3, <2>7, FS_Injection
  <2> QED BY <1>3, <2>4, <2>8
<1>7. Min(free) \in free
  <2>1. free \in SUBSET Nat
    BY <1>3, <1>5
  <2> QED BY <1>6, <2>1, SmallestOf
<1>8. PICK m : m = Min(free)
  OBVIOUS
<1>9. NextElementId(t, type) = <<type, m>>
  BY <1>1, <1>2, <1>4, <1>5, <1>8 DEF NextElementId
<1>10. m \in Nat /\ <<type, m>> \notin ids
  BY <1>3, <1>5, <1>7, <1>8
<1> QED BY <1>4, <1>9, <1>10 DEF Ids

\* A new element (model.ts, createElement).
LEMMA Created ==
  ASSUME NEW type \in Types, NEW id \in Ids
  PROVE  CreateElement(type, id) \in AnyElement /\ CreateElement(type, id).id = id
BY CanvasAssumption DEF CreateElement, AnyElement, Writings

-----------------------------------------------------------------------------
(***************************************************************************)
(* The selection.                                                          *)
(***************************************************************************)

\* What is kept of a selection is one.
LEMMA KeptIds ==
  ASSUME NEW s \in Seq(Ids), IsInjective(s), NEW keep \in SUBSET (DOMAIN s)
  PROVE  /\ Kept(s, keep) \in Seq(Ids) /\ IsInjective(Kept(s, keep))
         /\ \A n \in DOMAIN Kept(s, keep) : \E i \in keep : Kept(s, keep)[n] = s[i]
         /\ \A i \in keep : \E n \in DOMAIN Kept(s, keep) : Kept(s, keep)[n] = s[i]
<1>1. PICK c : c = Cardinality(keep)
  OBVIOUS
<1>2. PICK at \in [1 .. c -> keep] : /\ c \in Nat /\ Kept(s, keep) = [n \in 1 .. c |-> s[at[n]]]
                                     /\ IsInjective(at)
                                     /\ \A i \in keep : \E n \in 1 .. c : at[n] = i
  BY <1>1, KeptItems
<1>3. PICK k : k = Kept(s, keep)
  OBVIOUS
<1>4. k \in Seq(Ids)
  BY <1>3, KeptItems
<1>5. DOMAIN k = 1 .. c /\ \A n \in 1 .. c : k[n] = s[at[n]] /\ at[n] \in keep /\ at[n] \in DOMAIN s
  BY <1>2, <1>3
<1>6. ASSUME NEW m \in DOMAIN k, NEW n \in DOMAIN k, k[m] = k[n]
      PROVE  m = n
  <2>1. s[at[m]] = s[at[n]]
    BY <1>5, <1>6
  <2>2. at[m] = at[n]
    BY <1>5, <2>1 DEF IsInjective
  <2> QED BY <1>2, <1>5, <2>2 DEF IsInjective
<1>7. IsInjective(k)
  BY <1>6 DEF IsInjective
<1>8. ASSUME NEW i \in keep PROVE \E n \in DOMAIN k : k[n] = s[i]
  <2>1. PICK n \in 1 .. c : at[n] = i
    BY <1>2
  <2> QED BY <1>5, <2>1
<1> QED BY <1>3, <1>4, <1>5, <1>7, <1>8

\* A sequence of one id.
LEMMA OneId ==
  ASSUME NEW id \in Ids
  PROVE  <<id>> \in Seq(Ids) /\ IsInjective(<<id>>)
<1>1. PICK s : s = <<id>>
  OBVIOUS
<1>2. s \in Seq(Ids) /\ DOMAIN s = {1}
  BY <1>1
<1> QED BY <1>1, <1>2 DEF IsInjective

\* Nothing.
LEMMA NoId == <<>> \in Seq(Ids) /\ IsInjective(<<>>)
<1>1. PICK s : s = <<>>
  OBVIOUS
<1>2. s \in Seq(Ids) /\ DOMAIN s = {}
  BY <1>1
<1> QED BY <1>1, <1>2 DEF IsInjective

\* Whatever is pressed, no element is selected twice (handleSelect).
LEMMA SelectedOnce ==
  ASSUME NEW id \in Ids, NEW additive \in BOOLEAN, selected \in Seq(Ids), IsInjective(selected)
  PROVE  SelectedAfter(id, additive) \in Seq(Ids) /\ IsInjective(SelectedAfter(id, additive))
<1>1. CASE ~additive
  BY <1>1, OneId DEF SelectedAfter
<1>2. CASE additive /\ id \in Range(selected)
  <2>1. PICK keep : keep = {i \in DOMAIN selected : selected[i] # id}
    OBVIOUS
  <2>2. keep \in SUBSET (DOMAIN selected)
    BY <2>1
  <2> QED BY <1>2, <2>1, <2>2, KeptIds DEF SelectedAfter
<1>3. CASE additive /\ id \notin Range(selected)
  <2>1. PICK s : s = Append(selected, id)
    OBVIOUS
  <2>2. /\ s \in Seq(Ids) /\ DOMAIN s = 1 .. Len(selected) + 1 /\ s[Len(selected) + 1] = id
        /\ \A i \in 1 .. Len(selected) : s[i] = selected[i] /\ i \in DOMAIN selected
        /\ Len(selected) \in Nat
    BY <2>1
  <2>3. \A i \in DOMAIN selected : selected[i] # id
    BY <1>3 DEF Range
  <2>4. ASSUME NEW m \in DOMAIN s, NEW n \in DOMAIN s, s[m] = s[n]
        PROVE  m = n
    <3>1. CASE m \in 1 .. Len(selected) /\ n \in 1 .. Len(selected)
      BY <2>2, <2>4, <3>1 DEF IsInjective
    <3>2. CASE m = Len(selected) + 1
      BY <2>2, <2>3, <2>4, <3>2
    <3>3. CASE n = Len(selected) + 1
      BY <2>2, <2>3, <2>4, <3>3
    <3> QED BY <2>2, <3>1, <3>2, <3>3
  <2>5. IsInjective(s)
    BY <2>4 DEF IsInjective
  <2> QED BY <1>3, <2>1, <2>2, <2>5 DEF SelectedAfter
<1> QED BY <1>1, <1>2, <1>3

\* A marquee selects the elements whose rects it intersects, each once (handlePagePointerUp).
LEMMA MarqueeOnce ==
  ASSUME template \in WellFormed, NEW region
  PROVE  /\ MarqueeSelect(region) \in Seq(Ids) /\ IsInjective(MarqueeSelect(region))
         /\ \A p \in Places(template) :
              At(template, p).id \in Range(MarqueeSelect(region))
                <=> RectsIntersect(region, AbsoluteRects(template)[At(template, p).id])
<1>1. PICK t : t = template
  OBVIOUS
<1>2. t \in WellFormed /\ t \in Templates
  BY <1>1 DEF WellFormed
<1>3. PICK covered : covered = {p \in Places(t) : RectsIntersect(region, AbsoluteRects(t)[At(t, p).id])}
  OBVIOUS
<1>4. PICK c : c = Cardinality(covered)
  OBVIOUS
<1>5. PICK order : order = PlaceOrder(t)
  OBVIOUS
<1>6. covered \in SUBSET Places(t)
  BY <1>3
<1>7. IsFiniteSet(covered)
  <2>1. PICK q : q = Places(t)
    OBVIOUS
  <2>2. IsFiniteSet(q) /\ covered \in SUBSET q
    BY <1>2, <1>6, <2>1, PlacesAre
  <2> QED BY <2>2, FS_Subset
<1>8. \A p, q \in covered : /\ p[1] \in Nat /\ p[2] \in Nat /\ p = <<p[1], p[2]>>
                            /\ <<p, q>> \in order <=> p[1] < q[1] \/ (p[1] = q[1] /\ p[2] < q[2])
  BY <1>2, <1>5, <1>6, PlacesAre DEF PlaceOrder
<1>9. /\ \A x \in covered : <<x, x>> \notin order
      /\ \A x, y, z \in covered : <<x, y>> \in order /\ <<y, z>> \in order => <<x, z>> \in order
      /\ \A x, y \in covered : x # y => <<x, y>> \in order \/ <<y, x>> \in order
  <2>1. \A x \in covered : <<x, x>> \notin order
    BY <1>8
  <2>2. \A x, y, z \in covered : <<x, y>> \in order /\ <<y, z>> \in order => <<x, z>> \in order
    <3> SUFFICES ASSUME NEW x \in covered, NEW y \in covered, NEW z \in covered,
                        <<x, y>> \in order, <<y, z>> \in order
                 PROVE  <<x, z>> \in order
      OBVIOUS
    <3>1. /\ x[1] \in Nat /\ x[2] \in Nat /\ y[1] \in Nat /\ y[2] \in Nat /\ z[1] \in Nat /\ z[2] \in Nat
          /\ x[1] < y[1] \/ (x[1] = y[1] /\ x[2] < y[2])
          /\ y[1] < z[1] \/ (y[1] = z[1] /\ y[2] < z[2])
      BY <1>8
    <3>2. x[1] < z[1] \/ (x[1] = z[1] /\ x[2] < z[2])
      BY ONLY <3>1
    <3> QED BY <1>8, <3>2
  <2>3. \A x, y \in covered : x # y => <<x, y>> \in order \/ <<y, x>> \in order
    <3> SUFFICES ASSUME NEW x \in covered, NEW y \in covered, x # y
                 PROVE  <<x, y>> \in order \/ <<y, x>> \in order
      OBVIOUS
    <3>1. x[1] # y[1] \/ x[2] # y[2]
      BY <1>8
    <3> QED BY <1>8, <3>1
  <2> QED BY <2>1, <2>2, <2>3
<1>10. PICK l : l = InOrder(covered, order)
  OBVIOUS
<1>11. /\ c \in Nat /\ l \in [1 .. c -> covered] /\ IsInjective(l)
       /\ \A p \in covered : \E i \in 1 .. c : l[i] = p
  BY <1>4, <1>7, <1>9, <1>10, InOrderLists
<1>12. PICK s : s = MarqueeSelect(region)
  OBVIOUS
<1>13. s = [i \in 1 .. c |-> At(t, l[i]).id]
  BY <1>1, <1>3, <1>4, <1>5, <1>10, <1>12 DEF MarqueeSelect
<1>14. \A i \in 1 .. c : l[i] \in Places(t) /\ s[i] = At(t, l[i]).id /\ s[i] \in Ids
  BY <1>2, <1>6, <1>11, <1>13, ElementsAre
<1>15. s \in [1 .. c -> Ids]
  BY <1>13, <1>14
<1>16. s \in Seq(Ids)
  BY <1>11, <1>15, SeqDef
<1>17. ASSUME NEW m \in 1 .. c, NEW n \in 1 .. c, s[m] = s[n]
       PROVE  m = n
  <2>1. l[m] = l[n]
    BY <1>2, <1>14, <1>17 DEF WellFormed, IdsAreUnique
  <2> QED BY <1>11, <2>1 DEF IsInjective
<1>18. IsInjective(s)
  BY <1>15, <1>17 DEF IsInjective
<1>19. ASSUME NEW p \in Places(t)
       PROVE  At(t, p).id \in Range(s) <=> p \in covered
  <2>1. ASSUME p \in covered PROVE At(t, p).id \in Range(s)
    <3>1. PICK i \in 1 .. c : l[i] = p
      BY <1>11, <2>1
    <3>2. i \in DOMAIN s /\ s[i] = At(t, p).id
      BY <1>14, <1>15, <3>1
    <3> QED BY <3>2 DEF Range
  <2>2. ASSUME At(t, p).id \in Range(s) PROVE p \in covered
    <3>1. PICK i \in 1 .. c : s[i] = At(t, p).id
      BY <1>15, <2>2 DEF Range
    <3>2. l[i] = p
      BY <1>2, <1>14, <3>1 DEF WellFormed, IdsAreUnique
    <3> QED BY <1>11, <3>2
  <2> QED BY <2>1, <2>2
<1>20. \A p \in Places(t) : p \in covered <=> RectsIntersect(region, AbsoluteRects(t)[At(t, p).id])
  BY <1>3
<1> QED BY <1>1, <1>12, <1>16, <1>18, <1>19, <1>20

-----------------------------------------------------------------------------
(***************************************************************************)
(* Orders and extremes.                                                    *)
(***************************************************************************)

\* One element of a set in order comes first.
LEMMA FirstInOrder ==
  ASSUME NEW S, IsFiniteSet(S), S # {}, NEW order,
         \A x \in S : <<x, x>> \notin order,
         \A x, y, z \in S : <<x, y>> \in order /\ <<y, z>> \in order => <<x, z>> \in order,
         \A x, y \in S : x # y => <<x, y>> \in order \/ <<y, x>> \in order
  PROVE  \E x \in S : \A y \in S : <<y, x>> \notin order
<1> DEFINE below(x) == {y \in S : <<y, x>> \in order}
<1>1. Cardinality(S) \in Nat /\ \A n \in 1 .. Cardinality(S) : \E x \in S : Cardinality(below(x)) = n - 1
  BY InOrderLists, ZenonT(60)
<1>2. Cardinality(S) # 0
  BY FS_EmptySet
<1>3. PICK x \in S : Cardinality(below(x)) = 0
  <2> HIDE DEF below
  <2>1. 1 \in 1 .. Cardinality(S) /\ 1 - 1 = 0
    BY <1>1, <1>2
  <2> QED BY <1>1, <2>1
<1>4. PICK b : b = below(x)
  OBVIOUS
<1>5. b \in SUBSET S /\ Cardinality(b) = 0
  BY <1>3, <1>4
<1>6. b = {}
  BY <1>5, FS_Subset, FS_EmptySet
<1> QED BY <1>4, <1>6

\* A finite set of integers that is not empty has a least one.
LEMMA LeastOf ==
  ASSUME NEW S \in SUBSET Int, IsFiniteSet(S), S # {}
  PROVE  Min(S) \in S /\ \A x \in S : Min(S) <= x
<1>1. PICK order : order = {ij \in S \X S : ij[1] < ij[2]}
  OBVIOUS
<1>2. \A x, y \in S : <<x, y>> \in order <=> x < y
  BY <1>1
<1>3. \A x \in S : x \in Int
  OBVIOUS
<1>4. /\ \A x \in S : <<x, x>> \notin order
      /\ \A x, y, z \in S : <<x, y>> \in order /\ <<y, z>> \in order => <<x, z>> \in order
      /\ \A x, y \in S : x # y => <<x, y>> \in order \/ <<y, x>> \in order
  BY <1>2, <1>3
<1>5. PICK x \in S : \A y \in S : <<y, x>> \notin order
  BY <1>4, FirstInOrder
<1>6. \A y \in S : x <= y
  <2> SUFFICES ASSUME NEW y \in S PROVE x <= y
    OBVIOUS
  <2>1. ~(y < x) /\ x \in Int /\ y \in Int
    BY <1>2, <1>3, <1>5
  <2> QED BY <2>1
<1> QED BY <1>5, <1>6 DEF Min

\* And a greatest one.
LEMMA GreatestOf ==
  ASSUME NEW S \in SUBSET Int, IsFiniteSet(S), S # {}
  PROVE  Max(S) \in S
<1>1. PICK order : order = {ij \in S \X S : ij[1] > ij[2]}
  OBVIOUS
<1>2. \A x, y \in S : <<x, y>> \in order <=> x > y
  BY <1>1
<1>3. \A x \in S : x \in Int
  OBVIOUS
<1>4. /\ \A x \in S : <<x, x>> \notin order
      /\ \A x, y, z \in S : <<x, y>> \in order /\ <<y, z>> \in order => <<x, z>> \in order
      /\ \A x, y \in S : x # y => <<x, y>> \in order \/ <<y, x>> \in order
  BY <1>2, <1>3
<1>5. PICK x \in S : \A y \in S : <<y, x>> \notin order
  BY <1>4, FirstInOrder
<1>6. \A y \in S : x >= y
  <2> SUFFICES ASSUME NEW y \in S PROVE x >= y
    OBVIOUS
  <2>1. ~(y > x) /\ x \in Int /\ y \in Int
    BY <1>2, <1>3, <1>5
  <2> QED BY <2>1
<1> QED BY <1>5, <1>6 DEF Max

-----------------------------------------------------------------------------
(***************************************************************************)
(* Sums.                                                                   *)
(***************************************************************************)

\* f is the sum of e over the parts of D.
SumOver(D, e, f) ==
  /\ f[{}] = 0
  /\ \A s \in SUBSET D : f[s] \in Int
  /\ \A s \in SUBSET D : \A x \in D \ s : f[s \cup {x}] = f[s] + e[x]

\* pick chooses an element of each part of D, and g folds e in the order it chooses them.
Picks(D, pick) == \A s \in SUBSET D : s # {} => pick[s] \in s
FoldOf(D, e, pick, g) == g = [s \in SUBSET D |-> IF s = {} THEN 0 ELSE e[pick[s]] + g[s \ {pick[s]}]]

\* Such a fold exists.
LEMMA FoldExists ==
  ASSUME NEW D, IsFiniteSet(D), NEW e \in [D -> Int],
         NEW pick, Picks(D, pick)
  PROVE  \E g : FoldOf(D, e, pick, g)
<1> DEFINE step(g, s) == IF s = {} THEN 0 ELSE e[pick[s]] + g[s \ {pick[s]}]
           Sums == [SUBSET D -> Int]
           Q == {n \in Nat : \E g \in Sums : \A s \in SUBSET D : Cardinality(s) <= n => g[s] = step(g, s)}
<1>1. \A s \in SUBSET D : IsFiniteSet(s) /\ Cardinality(s) \in Nat
  BY FS_Subset, FS_CardinalityType
<1>2. \A s \in SUBSET D : s # {} => pick[s] \in s /\ pick[s] \in D /\ s \ {pick[s]} \in SUBSET D
  BY DEF Picks
<1>3. \A s \in SUBSET D : s # {} => Cardinality(s \ {pick[s]}) = Cardinality(s) - 1
  <2> SUFFICES ASSUME NEW s \in SUBSET D, s # {} PROVE Cardinality(s \ {pick[s]}) = Cardinality(s) - 1
    OBVIOUS
  <2>1. PICK x : x = pick[s]
    OBVIOUS
  <2>2. x \in s /\ IsFiniteSet(s)
    BY <1>1, <1>2, <2>1
  <2>3. Cardinality(s \ {x}) = Cardinality(s) - 1
    BY <2>2, FS_RemoveElement
  <2> QED BY <2>1, <2>3
<1>4. \A g \in Sums : \A s \in SUBSET D : step(g, s) \in Int
  <2> SUFFICES ASSUME NEW g \in Sums, NEW s \in SUBSET D PROVE step(g, s) \in Int
    OBVIOUS
  <2>1. CASE s = {}
    BY <2>1
  <2>2. CASE s # {}
    <3>1. e[pick[s]] \in Int /\ g[s \ {pick[s]}] \in Int
      BY <1>2, <2>2
    <3> QED BY <2>2, <3>1
  <2> QED BY <2>1, <2>2
<1>5. 0 \in Q
  <2>1. PICK g : g = [s \in SUBSET D |-> 0]
    OBVIOUS
  <2>2. g \in Sums
    BY <2>1
  <2>3. \A s \in SUBSET D : Cardinality(s) <= 0 => g[s] = step(g, s)
    BY <1>1, <2>1, FS_EmptySet
  <2> QED BY <2>2, <2>3
<1>6. \A n \in Nat : n \in Q => n + 1 \in Q
  <2> SUFFICES ASSUME NEW n \in Nat, n \in Q PROVE n + 1 \in Q
    OBVIOUS
  <2>1. PICK g \in Sums : \A s \in SUBSET D : Cardinality(s) <= n => g[s] = step(g, s)
    OBVIOUS
  <2>2. PICK h : h = [s \in SUBSET D |-> step(g, s)]
    OBVIOUS
  <2>3. h \in Sums
    BY <1>4, <2>2
  <2>4. ASSUME NEW s \in SUBSET D, Cardinality(s) <= n + 1
        PROVE  h[s] = step(h, s)
    <3>1. h[s] = step(g, s)
      BY <2>2
    <3>2. CASE s = {}
      BY <3>1, <3>2
    <3>3. CASE s # {}
      <4>1. PICK r : r = s \ {pick[s]}
        OBVIOUS
      <4>2. r \in SUBSET D /\ Cardinality(r) <= n
        BY <1>1, <1>2, <1>3, <2>4, <3>3, <4>1
      <4>3. h[r] = g[r]
        BY <2>1, <2>2, <4>2
      <4> QED BY <3>1, <3>3, <4>1, <4>3
    <3> QED BY <3>2, <3>3
  <2> HIDE DEF step
  <2> QED BY <2>3, <2>4
<1>7. Cardinality(D) \in Q
  <2> HIDE DEF Q
  <2> QED BY <1>1, <1>5, <1>6, Induction
<1>8. PICK g \in Sums : \A s \in SUBSET D : Cardinality(s) <= Cardinality(D) => g[s] = step(g, s)
  BY <1>7
<1>9. \A s \in SUBSET D : Cardinality(s) <= Cardinality(D)
  BY FS_Subset
<1>10. g = [s \in SUBSET D |-> step(g, s)]
  BY <1>8, <1>9
<1> QED BY <1>10 DEF FoldOf

\* Whatever the order, the fold adds up.
LEMMA FoldIsSum ==
  ASSUME NEW D, IsFiniteSet(D), NEW e \in [D -> Int],
         NEW pick, Picks(D, pick),
         NEW f, f[{}] = 0,
         \A s \in SUBSET D : s # {} => \/ f[s] = e[pick[s]] + f[s \ {pick[s]}]
                                       \/ f[s] = f[s \ {pick[s]}] + e[pick[s]]
  PROVE  SumOver(D, e, f)
<1>1. \A s \in SUBSET D : IsFiniteSet(s) /\ Cardinality(s) \in Nat
  BY FS_Subset, FS_CardinalityType
<1>2. \A s \in SUBSET D : \A x \in s : Cardinality(s \ {x}) = Cardinality(s) - 1
  BY <1>1, FS_RemoveElement
<1>3. f[{}] = 0
  OBVIOUS
<1> DEFINE Good(s) == f[s] \in Int /\ \A x \in D \ s : f[s \cup {x}] = f[s] + e[x]
           P == {n \in Nat : \A s \in SUBSET D : Cardinality(s) <= n => Good(s)}
<1>4. 0 \in P
  <2> SUFFICES ASSUME NEW s \in SUBSET D, Cardinality(s) <= 0
               PROVE  Good(s)
    <3> HIDE DEF Good
    <3> QED OBVIOUS
  <2>1. s = {}
    BY <1>1, FS_EmptySet
  <2>2. ASSUME NEW x \in D PROVE f[{x}] = e[x]
    <3>1. pick[{x}] = x /\ {x} \in SUBSET D /\ {x} # {} /\ {x} \ {x} = {}
      BY DEF Picks
    <3>2. (f[{x}] = e[x] + f[{}] \/ f[{x}] = f[{}] + e[x]) /\ e[x] \in Int
      BY <3>1
    <3> QED BY <1>3, <3>2
  <2>3. \A x \in D : {} \cup {x} = {x} /\ e[x] \in Int
    OBVIOUS
  <2>4. ASSUME NEW x \in D \ s PROVE f[s \cup {x}] = f[s] + e[x]
    <3>1. f[{x}] = e[x] /\ e[x] \in Int /\ s \cup {x} = {x}
      BY <2>1, <2>2, <2>3
    <3> QED BY ONLY <1>3, <2>1, <3>1
  <2>5. f[s] \in Int
    BY <1>3, <2>1
  <2> QED BY <2>4, <2>5
<1>5. \A n \in Nat : n \in P => n + 1 \in P
  <2> SUFFICES ASSUME NEW n \in Nat, n \in P, NEW s \in SUBSET D, Cardinality(s) <= n + 1
               PROVE  Good(s)
    <3> HIDE DEF Good
    <3> QED OBVIOUS
  <2>1. ASSUME NEW r \in SUBSET D, Cardinality(r) <= n
        PROVE  f[r] \in Int /\ \A x \in D \ r : f[r \cup {x}] = f[r] + e[x]
    <3>1. Good(r)
      <4> HIDE DEF Good
      <4> QED BY <2>1
    <3> QED BY <3>1
  <2>2. ASSUME NEW y \in s
        PROVE  \E r \in SUBSET D :
                 /\ r = s \ {y} /\ f[r] \in Int /\ e[y] \in Int /\ f[s] = f[r] + e[y]
                 /\ \A x \in D \ r : f[r \cup {x}] = f[r] + e[x]
    <3>1. PICK r : r = s \ {y}
      OBVIOUS
    <3>2. r \in SUBSET D /\ y \in D \ r /\ r \cup {y} = s
      BY <3>1
    <3>3. Cardinality(r) <= n
      BY <1>1, <1>2, <2>2, <3>1
    <3>4. f[r] \in Int /\ f[r \cup {y}] = f[r] + e[y] /\ \A x \in D \ r : f[r \cup {x}] = f[r] + e[x]
      BY <2>1, <3>2, <3>3
    <3>5. e[y] \in Int
      BY <3>2
    <3>6. f[s] = f[r] + e[y]
      BY <3>2, <3>4
    <3> QED BY ONLY <3>1, <3>2, <3>4, <3>5, <3>6
  <2>3. f[s] \in Int
    <3>1. CASE s = {}
      BY <1>3, <3>1
    <3>2. CASE s # {}
      <4>1. PICK y : y \in s
        BY <3>2
      <4>2. PICK r \in SUBSET D : f[r] \in Int /\ e[y] \in Int /\ f[s] = f[r] + e[y]
        BY <2>2, <4>1
      <4> QED BY <4>2
    <3> QED BY <3>1, <3>2
  <2>4. ASSUME NEW x \in D \ s
        PROVE  f[s \cup {x}] = f[s] + e[x]
    <3>1. PICK t : t = s \cup {x}
      OBVIOUS
    <3>2. PICK y : y = pick[t]
      OBVIOUS
    <3>3. t \in SUBSET D /\ t # {}
      BY <3>1
    <3>4. y \in t /\ (f[t] = e[y] + f[t \ {y}] \/ f[t] = f[t \ {y}] + e[y])
      BY <3>2, <3>3 DEF Picks
    <3>5. e[x] \in Int /\ e[y] \in Int
      BY <3>3, <3>4
    <3>6. CASE y = x
      <4>1. t \ {y} = s
        BY <3>1, <3>6
      <4>2. f[t] = e[x] + f[s] \/ f[t] = f[s] + e[x]
        BY <3>4, <3>6, <4>1
      <4>3. f[t] = f[s] + e[x]
        BY ONLY <2>3, <3>5, <4>2
      <4> QED BY <3>1, <4>3
    <3>7. CASE y # x
      <4>1. y \in s
        BY <3>1, <3>4, <3>7
      <4>2. PICK r \in SUBSET D :
                 /\ r = s \ {y} /\ f[r] \in Int /\ e[y] \in Int /\ f[s] = f[r] + e[y]
                 /\ \A z \in D \ r : f[r \cup {z}] = f[r] + e[z]
        BY ONLY <2>2, <4>1
      <4>3. t \ {y} = r \cup {x} /\ x \in D \ r
        BY <3>1, <3>7, <4>2
      <4>4. f[t \ {y}] = f[r] + e[x]
        BY <4>2, <4>3
      <4> QED BY <3>1, <3>4, <3>5, <4>2, <4>4
    <3> QED BY <3>6, <3>7
  <2> QED BY <2>3, <2>4
<1>6. Cardinality(D) \in P
  <2> HIDE DEF P
  <2> QED BY <1>1, <1>4, <1>5, Induction
<1>7. \A s \in SUBSET D : Cardinality(s) <= Cardinality(D)
  BY FS_Subset
<1>8. \A s \in SUBSET D : Good(s)
  <2> HIDE DEF Good
  <2> QED BY <1>6, <1>7
<1> QED BY <1>3, <1>8 DEF SumOver

\* Two sums of the same numbers agree.
LEMMA SumsAgree ==
  ASSUME NEW D, IsFiniteSet(D), NEW e, NEW f, SumOver(D, e, f),
         NEW C \in SUBSET D, NEW h, NEW g, SumOver(C, h, g), \A x \in C : h[x] = e[x]
  PROVE  \A s \in SUBSET C : g[s] = f[s]
<1>1. \A s \in SUBSET D : IsFiniteSet(s) /\ Cardinality(s) \in Nat
  BY FS_Subset, FS_CardinalityType
<1>2. \A s \in SUBSET D : \A x \in s : Cardinality(s \ {x}) = Cardinality(s) - 1
  BY <1>1, FS_RemoveElement
<1> DEFINE P == {n \in Nat : \A s \in SUBSET C : Cardinality(s) <= n => g[s] = f[s]}
<1>3. 0 \in P
  <2> SUFFICES ASSUME NEW s \in SUBSET C, Cardinality(s) <= 0 PROVE g[s] = f[s]
    OBVIOUS
  <2>1. s = {}
    BY <1>1, FS_EmptySet
  <2> QED BY <2>1 DEF SumOver
<1>4. \A n \in Nat : n \in P => n + 1 \in P
  <2> SUFFICES ASSUME NEW n \in Nat, n \in P, NEW s \in SUBSET C, Cardinality(s) <= n + 1
               PROVE  g[s] = f[s]
    OBVIOUS
  <2>1. CASE s = {}
    BY <2>1 DEF SumOver
  <2>2. CASE s # {}
    <3>1. PICK x : x \in s
      BY <2>2
    <3>2. PICK r : r = s \ {x}
      OBVIOUS
    <3>3. r \in SUBSET C /\ r \in SUBSET D /\ x \in C \ r /\ x \in D \ r /\ r \cup {x} = s
      BY <3>1, <3>2
    <3>4. s \in SUBSET D
      OBVIOUS
    <3>5. Cardinality(r) <= n
      BY <1>1, <1>2, <3>1, <3>2, <3>4
    <3>6. g[r] = f[r]
      BY <3>3, <3>5
    <3> QED BY <3>3, <3>6 DEF SumOver
  <2> QED BY <2>1, <2>2
<1>5. Cardinality(D) \in P
  <2> HIDE DEF P
  <2> QED BY <1>1, <1>3, <1>4, Induction
<1>6. \A s \in SUBSET D : Cardinality(s) <= Cardinality(D)
  BY FS_Subset
<1> QED BY <1>5, <1>6

\* A sum of numbers that are not negative grows with the set.
LEMMA SumsGrow ==
  ASSUME NEW D, IsFiniteSet(D), NEW e, NEW f, SumOver(D, e, f), \A x \in D : e[x] \in Nat
  PROVE  \A s, r \in SUBSET D : s \subseteq r => f[s] <= f[r]
<1>1. \A s \in SUBSET D : IsFiniteSet(s) /\ Cardinality(s) \in Nat
  BY FS_Subset, FS_CardinalityType
<1>2. \A s \in SUBSET D : \A x \in s : Cardinality(s \ {x}) = Cardinality(s) - 1
  BY <1>1, FS_RemoveElement
<1>3. \A s \in SUBSET D : f[s] \in Int
  BY DEF SumOver
<1> DEFINE Grows(r) == \A s \in SUBSET r : f[s] <= f[r]
           P == {n \in Nat : \A r \in SUBSET D : Cardinality(r) <= n => Grows(r)}
<1>4. 0 \in P
  <2> SUFFICES ASSUME NEW r \in SUBSET D, Cardinality(r) <= 0
               PROVE  Grows(r)
    <3> HIDE DEF Grows
    <3> QED OBVIOUS
  <2>1. r = {}
    BY <1>1, FS_EmptySet
  <2>2. \A s \in SUBSET r : s = r
    BY <2>1
  <2> QED BY <1>3, <2>2
<1>5. \A n \in Nat : n \in P => n + 1 \in P
  <2> SUFFICES ASSUME NEW n \in Nat, n \in P, NEW r \in SUBSET D, Cardinality(r) <= n + 1
               PROVE  Grows(r)
    <3> HIDE DEF Grows
    <3> QED OBVIOUS
  <2> SUFFICES ASSUME NEW s \in SUBSET r PROVE f[s] <= f[r]
    OBVIOUS
  <2>1. CASE s = r
    BY <1>3, <2>1
  <2>2. CASE s # r
    <3>1. PICK x : x \in r \ s
      BY <2>2
    <3>2. PICK q : q = r \ {x}
      OBVIOUS
    <3>3. q \in SUBSET D /\ s \subseteq q /\ x \in D \ q /\ q \cup {x} = r
      BY <3>1, <3>2
    <3>4. Cardinality(q) <= n
      BY <1>1, <1>2, <3>1, <3>2
    <3>5. f[s] <= f[q]
      <4>1. Grows(q)
        <5> HIDE DEF Grows
        <5> QED BY <3>3, <3>4
      <4> QED BY <3>3, <4>1
    <3>6. f[r] = f[q] + e[x] /\ e[x] \in Nat
      BY <3>3 DEF SumOver
    <3> QED BY <1>3, <3>3, <3>5, <3>6
  <2> QED BY <2>1, <2>2
<1>6. Cardinality(D) \in P
  <2> HIDE DEF P
  <2> QED BY <1>1, <1>4, <1>5, Induction
<1>7. \A s \in SUBSET D : Cardinality(s) <= Cardinality(D)
  BY FS_Subset
<1>8. \A r \in SUBSET D : Grows(r)
  <2> HIDE DEF Grows
  <2> QED BY <1>6, <1>7
<1> QED BY <1>8

\* The extents of the rects of a set add up (align.ts, the sums of distributeRects).
LEMMA ExtentIsSum ==
  ASSUME NEW rects, NEW axis, NEW D, IsFiniteSet(D), \A i \in D : Extent(rects[i], axis) \in Int
  PROVE  \E f : SumOver(D, [i \in D |-> Extent(rects[i], axis)], f) /\ Extents(rects, axis, D) = f[D]
<1> DEFINE one(s) == CHOOSE x \in s : TRUE
           step(g, s) == IF s = {} THEN 0 ELSE Extent(rects[one(s)], axis) + g[s \ {one(s)}]
           iter == CHOOSE iter : iter = [s \in SUBSET D |-> step(iter, s)]
<1>1. PICK e : e = [i \in D |-> Extent(rects[i], axis)]
  OBVIOUS
<1>2. e \in [D -> Int] /\ \A i \in D : e[i] = Extent(rects[i], axis)
  BY <1>1
<1>3. PICK pick : pick = [s \in SUBSET D |-> one(s)]
  OBVIOUS
<1>4. \A s \in SUBSET D : pick[s] = one(s) /\ (s # {} => pick[s] \in s)
  BY <1>3
<1> HIDE DEF one
<1>5. Picks(D, pick)
  BY <1>4 DEF Picks
<1>6. e \in [D -> Int] /\ IsFiniteSet(D)
  BY <1>2
<1>7. PICK g : FoldOf(D, e, pick, g)
  BY <1>5, <1>6, FoldExists
<1>8. \A s \in SUBSET D : s # {} => e[pick[s]] = Extent(rects[one(s)], axis)
  BY <1>2, <1>4
<1>9. g = [s \in SUBSET D |-> step(g, s)]
  BY <1>4, <1>7, <1>8 DEF FoldOf
<1>10. iter = [s \in SUBSET D |-> step(iter, s)]
  BY <1>9
<1>11. Extents(rects, axis, D) = iter[D]
  BY DEF Extents, MapThenSumSet, MapThenFoldSet, one
<1> HIDE DEF iter
<1>12. PICK f : f = iter
  OBVIOUS
<1>13. \A s \in SUBSET D : f[s] = step(f, s)
  <2> HIDE DEF step
  <2> QED BY <1>10, <1>12
<1>14. f[{}] = 0 /\ \A s \in SUBSET D : s # {} => f[s] = e[pick[s]] + f[s \ {pick[s]}]
  BY <1>4, <1>8, <1>13
<1>15. SumOver(D, e, f)
  BY <1>2, <1>14, <1>5, FoldIsSum
<1> QED BY <1>1, <1>11, <1>12, <1>15

\* So do the lengths of a sequence (geometry.ts, bandTops).
LEMMA TotalIsSum ==
  ASSUME NEW lengths \in Seq(Int)
  PROVE  \E f : SumOver(DOMAIN lengths, lengths, f) /\ TotalLength(lengths) = f[DOMAIN lengths]
<1>1. PICK D : D = DOMAIN lengths
  OBVIOUS
<1>2. D = 1 .. Len(lengths) /\ Len(lengths) \in Nat /\ lengths \in [D -> Int]
  BY <1>1
<1>3. IsFiniteSet(D) /\ D \in SUBSET Int
  BY <1>2, FS_Interval
<1> DEFINE step(g, s) == IF s = {} THEN 0 ELSE g[s \ {Max(s)}] + lengths[Max(s)]
           iter == CHOOSE iter : iter = [s \in SUBSET D |-> step(iter, s)]
<1>4. PICK pick : pick = [s \in SUBSET D |-> Max(s)]
  OBVIOUS
<1>5. \A s \in SUBSET D : pick[s] = Max(s) /\ (s # {} => pick[s] \in s)
  <2> SUFFICES ASSUME NEW s \in SUBSET D PROVE pick[s] = Max(s) /\ (s # {} => pick[s] \in s)
    OBVIOUS
  <2>1. IsFiniteSet(s) /\ s \in SUBSET Int
    BY <1>3, FS_Subset
  <2> QED BY <1>4, <2>1, GreatestOf
<1>6. Picks(D, pick)
  BY <1>5 DEF Picks
<1>7. PICK g : FoldOf(D, lengths, pick, g)
  <2>1. lengths \in [D -> Int] /\ IsFiniteSet(D)
    BY <1>2, <1>3
  <2> QED BY <1>6, <2>1, FoldExists
<1>8. SumOver(D, lengths, g)
  <2>1. g[{}] = 0 /\ \A s \in SUBSET D : s # {} => g[s] = lengths[pick[s]] + g[s \ {pick[s]}]
    BY <1>7 DEF FoldOf
  <2> QED BY <1>2, <1>3, <1>6, <2>1, FoldIsSum
<1>9. \A s \in SUBSET D : s # {} => pick[s] \in s /\ lengths[pick[s]] \in Int /\ g[s \ {pick[s]}] \in Int
  BY <1>2, <1>5, <1>8 DEF SumOver
<1>10. \A s \in SUBSET D : g[s] = step(g, s)
  <2> SUFFICES ASSUME NEW s \in SUBSET D PROVE g[s] = step(g, s)
    OBVIOUS
  <2>1. PICK m : m = Max(s)
    OBVIOUS
  <2>2. pick[s] = m
    BY <1>5, <2>1
  <2>3. g[s] = IF s = {} THEN 0 ELSE lengths[m] + g[s \ {m}]
    BY <1>7, <2>2 DEF FoldOf
  <2>4. s # {} => lengths[m] \in Int /\ g[s \ {m}] \in Int
    BY <1>9, <2>2
  <2> QED BY <2>1, <2>3, <2>4
<1>11. g = [s \in SUBSET D |-> step(g, s)]
  <2> HIDE DEF step
  <2> QED BY <1>7, <1>10 DEF FoldOf
<1>12. iter = [s \in SUBSET D |-> step(iter, s)]
  BY <1>11
<1>13. TotalLength(lengths) = iter[D]
  BY <1>1 DEF TotalLength, FoldLeft, MapThenFoldSet
<1> HIDE DEF iter
<1>14. PICK f : f = iter
  OBVIOUS
<1>15. \A s \in SUBSET D : f[s] = step(f, s)
  <2> HIDE DEF step
  <2> QED BY <1>12, <1>14
<1>16. f[{}] = 0 /\ \A s \in SUBSET D : s # {} => f[s] = f[s \ {pick[s]}] + lengths[pick[s]]
  BY <1>5, <1>15
<1>17. SumOver(D, lengths, f)
  <2>1. lengths \in [D -> Int] /\ IsFiniteSet(D) /\ f[{}] = 0
    BY <1>2, <1>3, <1>16
  <2>2. \A s \in SUBSET D : s # {} => \/ f[s] = lengths[pick[s]] + f[s \ {pick[s]}]
                                      \/ f[s] = f[s \ {pick[s]}] + lengths[pick[s]]
    BY <1>16
  <2> QED BY ONLY <1>6, <2>1, <2>2, FoldIsSum
<1> QED BY <1>1, <1>13, <1>14, <1>17

\* The heights of the bands, and the tops they give the bands (ReportCanvas.tsx).
LEMMA HeightsAre ==
  /\ Heights \in Seq(Nat) /\ DOMAIN Heights = DOMAIN BandOrder
  /\ \A i \in DOMAIN BandOrder :
       /\ [j \in 1 .. i - 1 |-> BandHeight[BandOrder[j]]] \in Seq(Nat)
       /\ BandTops(Heights)[i] = TotalLength([j \in 1 .. i - 1 |-> BandHeight[BandOrder[j]]])
<1>1. PICK n : n = Len(BandOrder)
  OBVIOUS
<1>2. n \in Nat /\ DOMAIN BandOrder = 1 .. n /\ \A i \in 1 .. n : BandHeight[BandOrder[i]] \in Nat
  BY <1>1, CanvasAssumption
<1>3. PICK h : h = Heights
  OBVIOUS
<1>4. h = [i \in 1 .. n |-> BandHeight[BandOrder[i]]]
  BY <1>2, <1>3 DEF Heights
<1>5. h \in [1 .. n -> Nat]
  BY <1>2, <1>4
<1>6. h \in Seq(Nat) /\ Len(h) = n
  BY <1>2, <1>5, SeqDef
<1>7. ASSUME NEW i \in 1 .. n
      PROVE  /\ [j \in 1 .. i - 1 |-> BandHeight[BandOrder[j]]] \in Seq(Nat)
             /\ BandTops(h)[i] = TotalLength([j \in 1 .. i - 1 |-> BandHeight[BandOrder[j]]])
  <2>1. PICK m : m = i - 1
    OBVIOUS
  <2>2. m \in Nat /\ m <= n
    BY <1>2, <2>1
  <2>3. PICK above : above = [j \in 1 .. m |-> BandHeight[BandOrder[j]]]
    OBVIOUS
  <2>4. above \in [1 .. m -> Nat]
    BY <1>2, <2>2, <2>3
  <2>5. above \in Seq(Nat)
    BY <2>2, <2>4, SeqDef
  <2>6. SubSeq(h, 1, m) = above
    BY <1>2, <1>4, <1>6, <2>2, <2>3
  <2>7. BandTops(h)[i] = TotalLength(SubSeq(h, 1, m))
    BY <1>5, <2>1 DEF BandTops
  <2> QED BY <2>1, <2>3, <2>5, <2>6, <2>7
<1> QED BY <1>2, <1>3, <1>5, <1>6, <1>7

\* A total of lengths is a length.
LEMMA TotalIsLength ==
  ASSUME NEW lengths \in Seq(Nat)
  PROVE  TotalLength(lengths) \in Nat
<1>1. PICK D : D = DOMAIN lengths
  OBVIOUS
<1>2. lengths \in Seq(Int) /\ IsFiniteSet(D) /\ \A i \in D : lengths[i] \in Nat
  BY <1>1, FS_Interval
<1>3. PICK f : SumOver(D, lengths, f) /\ TotalLength(lengths) = f[D]
  BY <1>1, <1>2, TotalIsSum
<1>4. f[{}] <= f[D]
  BY <1>2, <1>3, SumsGrow
<1> QED BY <1>3, <1>4 DEF SumOver

\* So the bands together have a height, and each has its top below the page's.
LEMMA BandsAreStacked ==
  /\ ContentHeight \in Nat
  /\ \A i \in DOMAIN BandOrder : BandTops(Heights)[i] \in Nat
BY HeightsAre, TotalIsLength DEF ContentHeight

\* In particular, a sum of extents is an integer.
LEMMA SumIsInteger ==
  ASSUME NEW rects, NEW axis, NEW D, IsFiniteSet(D), \A i \in D : Extent(rects[i], axis) \in Int
  PROVE  Extents(rects, axis, D) \in Int
<1>1. PICK f : SumOver(D, [i \in D |-> Extent(rects[i], axis)], f) /\ Extents(rects, axis, D) = f[D]
  BY ExtentIsSum
<1> QED BY <1>1 DEF SumOver

\* The values of an integer field of rects have a least and a greatest one.
LEMMA ExtremesAreIntegers ==
  ASSUME NEW n \in Nat \ {0}, NEW f \in [1 .. n -> Int]
  PROVE  Min({f[i] : i \in 1 .. n}) \in Int /\ Max({f[i] : i \in 1 .. n}) \in Int
<1>1. PICK S : S = {f[i] : i \in 1 .. n}
  OBVIOUS
<1>2. PICK d : d = 1 .. n
  OBVIOUS
<1>3. S \in SUBSET Int /\ S # {}
  BY <1>1
<1>4. f \in Surjection(d, S)
  BY <1>1, <1>2 DEF Surjection
<1>5. IsFiniteSet(d)
  BY <1>2, FS_Interval
<1>6. IsFiniteSet(S)
  BY <1>4, <1>5, FS_Surjection
<1>7. Min(S) \in Int /\ Max(S) \in Int
  BY <1>3, <1>6, LeastOf, GreatestOf
<1> QED BY <1>1, <1>7

-----------------------------------------------------------------------------
(***************************************************************************)
(* Alignment and distribution.                                             *)
(***************************************************************************)

\* The line an edge of r is aligned to; c is twice that of the centers.
OnLine(r, edge, c) ==
  /\ edge = "left"   => r.x = c
  /\ edge = "right"  => r.x = c - r.w
  /\ edge = "center" => r.x = (c - r.w) \div 2

\* Aligned elements are at integer coordinates, and on one line (align.ts, alignRects).
LEMMA AlignedRects ==
  ASSUME NEW rects \in Seq(AnyRect), rects # <<>>, NEW edge \in Edges
  PROVE  /\ \A i \in DOMAIN rects : AlignRects(rects, edge)[i] \in AnyRect
         /\ \E c \in Int : \A i \in DOMAIN rects : OnLine(AlignRects(rects, edge)[i], edge, c)
<1>1. PICK n : n = Len(rects)
  OBVIOUS
<1>2. n \in Nat \ {0} /\ DOMAIN rects = 1 .. n
  BY <1>1
<1>3. \A i \in 1 .. n : /\ rects[i] \in AnyRect /\ rects[i].x \in Int /\ rects[i].y \in Int
                        /\ Right(rects[i]) \in Int /\ Bottom(rects[i]) \in Int
  <2> SUFFICES ASSUME NEW i \in 1 .. n
               PROVE  /\ rects[i] \in AnyRect /\ rects[i].x \in Int /\ rects[i].y \in Int
                      /\ Right(rects[i]) \in Int /\ Bottom(rects[i]) \in Int
    OBVIOUS
  <2>1. rects[i] \in AnyRect
    BY <1>2
  <2>2. rects[i].x \in Int /\ rects[i].y \in Int /\ rects[i].w \in Int /\ rects[i].h \in Int
    BY <2>1 DEF AnyRect
  <2> QED BY <2>1, <2>2 DEF Right, Bottom
<1> DEFINE xs == [i \in 1 .. n |-> rects[i].x]
           rs == [i \in 1 .. n |-> Right(rects[i])]
           ys == [i \in 1 .. n |-> rects[i].y]
           bs == [i \in 1 .. n |-> Bottom(rects[i])]
<1>4. xs \in [1 .. n -> Int] /\ rs \in [1 .. n -> Int] /\ ys \in [1 .. n -> Int] /\ bs \in [1 .. n -> Int]
  BY <1>3
<1>5. /\ {r.x : r \in Range(rects)} = {xs[i] : i \in 1 .. n}
      /\ {Right(r) : r \in Range(rects)} = {rs[i] : i \in 1 .. n}
      /\ {r.y : r \in Range(rects)} = {ys[i] : i \in 1 .. n}
      /\ {Bottom(r) : r \in Range(rects)} = {bs[i] : i \in 1 .. n}
  BY <1>2 DEF Range
<1> HIDE DEF xs, rs, ys, bs
<1>6. PICK minX : minX = Min({r.x : r \in Range(rects)})
  OBVIOUS
<1>7. PICK maxRight : maxRight = Max({Right(r) : r \in Range(rects)})
  OBVIOUS
<1>8. PICK minY : minY = Min({r.y : r \in Range(rects)})
  OBVIOUS
<1>9. PICK maxBottom : maxBottom = Max({Bottom(r) : r \in Range(rects)})
  OBVIOUS
<1>10. minX \in Int /\ maxRight \in Int /\ minY \in Int /\ maxBottom \in Int
  BY <1>2, <1>4, <1>5, <1>6, <1>7, <1>8, <1>9, ExtremesAreIntegers
<1> DEFINE Aligned(r) ==
        CASE edge = "left"   -> [r EXCEPT !.x = minX]
          [] edge = "right"  -> [r EXCEPT !.x = maxRight - r.w]
          [] edge = "center" -> [r EXCEPT !.x = (minX + maxRight - r.w) \div 2]
          [] edge = "top"    -> [r EXCEPT !.y = minY]
          [] edge = "bottom" -> [r EXCEPT !.y = maxBottom - r.h]
          [] edge = "middle" -> [r EXCEPT !.y = (minY + maxBottom - r.h) \div 2]
<1>11. AlignRects(rects, edge) = [i \in DOMAIN rects |-> Aligned(rects[i])]
  BY <1>6, <1>7, <1>8, <1>9 DEF AlignRects
<1>12. ASSUME NEW r \in AnyRect
       PROVE  Aligned(r) \in AnyRect
  <2>1. r.w \in Int /\ r.h \in Int
    BY DEF AnyRect
  <2>2. /\ maxRight - r.w \in Int /\ (minX + maxRight - r.w) \div 2 \in Int
        /\ maxBottom - r.h \in Int /\ (minY + maxBottom - r.h) \div 2 \in Int
    <3>1. \A a, c, d \in Int : a - d \in Int /\ (c + a - d) \div 2 \in Int
      OBVIOUS
    <3> QED BY ONLY <1>10, <2>1, <3>1
  <2>3. \A v \in Int : [r EXCEPT !.x = v] \in AnyRect /\ [r EXCEPT !.y = v] \in AnyRect
    BY DEF AnyRect
  <2>4. CASE edge \in {"left", "right", "center"}
    BY <1>10, <2>2, <2>3, <2>4
  <2>5. CASE edge \in {"top", "bottom", "middle"}
    BY <1>10, <2>2, <2>3, <2>5
  <2> QED BY <2>4, <2>5 DEF Edges
<1>13. PICK c : c = CASE edge = "left"   -> minX
                      [] edge = "right"  -> maxRight
                      [] OTHER -> minX + maxRight
  OBVIOUS
<1>14. c \in Int
  BY <1>10, <1>13
<1>15. ASSUME NEW r \in AnyRect
       PROVE  OnLine(Aligned(r), edge, c)
  <2>1. \A v \in Int : [r EXCEPT !.x = v].x = v /\ [r EXCEPT !.x = v].w = r.w
    BY DEF AnyRect
  <2>2. r.w \in Int
    BY DEF AnyRect
  <2>3. CASE edge = "left"
    BY <1>10, <1>13, <2>1, <2>3 DEF OnLine
  <2>4. CASE edge = "right"
    <3>1. PICK v : v = maxRight - r.w
      OBVIOUS
    <3>2. Aligned(r) = [r EXCEPT !.x = v] /\ v \in Int
      BY <1>10, <2>2, <2>4, <3>1
    <3> QED BY <1>13, <2>1, <2>4, <3>1, <3>2 DEF OnLine
  <2>5. CASE edge = "center"
    <3>1. PICK v : v = (minX + maxRight - r.w) \div 2
      OBVIOUS
    <3>2. Aligned(r) = [r EXCEPT !.x = v] /\ v \in Int
      BY <1>10, <2>2, <2>5, <3>1
    <3>3. c = minX + maxRight
      BY ONLY <1>13, <2>5
    <3>4. v = (c - r.w) \div 2
      BY ONLY <1>10, <2>2, <3>1, <3>3
    <3> HIDE DEF Aligned
    <3> QED BY <2>1, <2>5, <3>2, <3>4 DEF OnLine
  <2> QED BY <2>3, <2>4, <2>5 DEF OnLine
<1> HIDE DEF Aligned
<1>16. \A i \in DOMAIN rects : AlignRects(rects, edge)[i] = Aligned(rects[i]) /\ rects[i] \in AnyRect
  BY <1>2, <1>3, <1>11
<1> QED BY <1>12, <1>14, <1>15, <1>16

\* f is what the extents of each part of a set of rects add up to.
ExtentsAre(rects, axis, D, f) == \A S \in SUBSET D : Extents(rects, axis, S) = f[S]

\* The extents of every part of a set of rects add up alike.
LEMMA ExtentsAreSums ==
  ASSUME NEW rects, NEW axis, NEW D, IsFiniteSet(D),
         NEW e, \A i \in D : e[i] = Extent(rects[i], axis) /\ e[i] \in Int
  PROVE  \E f : SumOver(D, e, f) /\ ExtentsAre(rects, axis, D, f)
<1>1. PICK d : d = [i \in D |-> Extent(rects[i], axis)]
  OBVIOUS
<1>2. PICK f : SumOver(D, e, f)
  <2>1. \A i \in D : Extent(rects[i], axis) \in Int
    OBVIOUS
  <2>2. PICK f : SumOver(D, d, f)
    BY <1>1, <2>1, ExtentIsSum
  <2>3. SumOver(D, e, f)
    BY <1>1, <2>2 DEF SumOver
  <2> QED BY <2>3
<1>3. ASSUME NEW S \in SUBSET D PROVE Extents(rects, axis, S) = f[S]
  <2>1. IsFiniteSet(S) /\ \A i \in S : Extent(rects[i], axis) \in Int
    BY FS_Subset
  <2>2. PICK h : h = [i \in S |-> Extent(rects[i], axis)]
    OBVIOUS
  <2>3. PICK g : SumOver(S, h, g) /\ Extents(rects, axis, S) = g[S]
    BY <2>1, <2>2, ExtentIsSum
  <2>4. \A x \in S : h[x] = e[x]
    BY <2>2
  <2>5. \A s \in SUBSET S : g[s] = f[s]
    <3>1. IsFiniteSet(D) /\ S \in SUBSET D /\ SumOver(D, e, f) /\ SumOver(S, h, g)
      BY <1>2, <2>3
    <3> QED BY ONLY <3>1, <2>4, SumsAgree, SMTT(30)
  <2> QED BY <2>3, <2>5
<1> QED BY <1>2, <1>3 DEF ExtentsAre

\* B[i] is what comes before i in an order of n things by their leads l.
Ranked(d, n, l, B) ==
  /\ \A i \in d : B[i] \in SUBSET d /\ i \notin B[i]
  /\ \A i, j \in d : i # j => i \in B[j] \/ j \in B[i]
  /\ \A i, j \in d : i \in B[j] => B[i] \subseteq B[j] /\ j \notin B[i] /\ l[i] <= l[j]
  /\ \A i, j \in d : l[i] < l[j] => i \in B[j]
  /\ \A m \in 1 .. n : \E x \in d : Cardinality(B[x]) = m - 1

\* A distribution takes the rects by their leads, then by their indices (distributeRects).
LEMMA LeadsAreOrdered ==
  ASSUME NEW n \in Nat, NEW rects, NEW axis, DOMAIN rects = 1 .. n,
         NEW l, \A i \in 1 .. n : l[i] = Lead(rects[i], axis) /\ l[i] \in Int,
         NEW B, \A i \in 1 .. n : B[i] = Before(rects, i, axis)
  PROVE  Ranked(1 .. n, n, l, B)
<1>1. PICK d : d = 1 .. n
  OBVIOUS
<1>2. IsFiniteSet(d) /\ Cardinality(d) = n
  BY <1>1, FS_Interval
<1>3. \A i \in d : l[i] \in Int /\ i \in Int /\ l[i] = Lead(rects[i], axis)
  BY <1>1
<1>4. PICK order : order = {ij \in d \X d : \/ l[ij[1]] < l[ij[2]]
                                            \/ l[ij[1]] = l[ij[2]] /\ ij[1] < ij[2]}
  OBVIOUS
<1>5. \A i, j \in d : <<i, j>> \in order <=> l[i] < l[j] \/ (l[i] = l[j] /\ i < j)
  BY <1>3, <1>4
<1>6. \A x \in d : <<x, x>> \notin order
  BY <1>3, <1>5
<1>7. \A x, y, z \in d : <<x, y>> \in order /\ <<y, z>> \in order => <<x, z>> \in order
  BY ONLY <1>3, <1>5, SMTT(30)
<1>8. \A x, y \in d : x # y => <<x, y>> \in order \/ <<y, x>> \in order
  BY <1>3, <1>5
<1>9. \A i \in d : B[i] = {y \in d : <<y, i>> \in order}
  BY <1>1, <1>3, <1>5 DEF Before
<1>10. \A m \in 1 .. n : \E x \in d : Cardinality({y \in d : <<y, x>> \in order}) = m - 1
  <2>1. \A m \in 1 .. Cardinality(d) : \E x \in d : Cardinality({y \in d : <<y, x>> \in order}) = m - 1
    <3>1. IsFiniteSet(d)
      BY <1>2
    <3> QED BY ONLY <3>1, <1>6, <1>7, <1>8, InOrderLists, ZenonT(60)
  <2> QED BY ONLY <1>2, <2>1
<1>11. \A i, j \in d : i \in B[j] <=> <<i, j>> \in order
  BY <1>9
<1>12. \A i \in d : B[i] \in SUBSET d /\ i \notin B[i]
  BY <1>6, <1>9
<1>13. \A i, j \in d : i # j => i \in B[j] \/ j \in B[i]
  BY <1>8, <1>11
<1>14. ASSUME NEW i \in d, NEW j \in d, i \in B[j]
       PROVE  B[i] \subseteq B[j] /\ j \notin B[i] /\ l[i] <= l[j]
  <2>1. <<i, j>> \in order
    BY <1>11, <1>14
  <2>2. B[i] \subseteq B[j]
    BY <1>7, <1>11, <1>12, <2>1
  <2>3. <<j, i>> \notin order
    BY <1>6, <1>7, <2>1
  <2>4. l[i] <= l[j]
    BY <1>3, <1>5, <2>1
  <2> QED BY <1>11, <2>2, <2>3, <2>4
<1>15. \A i, j \in d : l[i] < l[j] => i \in B[j]
  BY <1>5, <1>11
<1>16. \A m \in 1 .. n : \E x \in d : Cardinality(B[x]) = m - 1
  BY <1>9, <1>10
<1> QED BY <1>1, <1>12, <1>13, <1>14, <1>15, <1>16 DEF Ranked

\* Things with leads l and extents e that are moved to p are spread evenly: one of the first
\* stays, one that is strictly the last stays up to the rounding, the spaces after all but
\* one are equal, and with space between them they keep their order.
Spread(d, n, l, e, p) ==
  /\ \E i \in d : (\A j \in d : l[i] <= l[j]) /\ p[i] = l[i]
  /\ \A i \in d : (\A j \in d \ {i} : l[j] < l[i]) => Distance(p[i], l[i]) < n - 1
  /\ \E last \in d, gap \in Int :
       /\ \A j \in d \ {last} : \E k \in d \ {j} : p[k] - p[j] - e[j] = gap
       /\ gap >= 0 /\ (\A j \in d : e[j] > 0) =>
            \A j, k \in d : l[j] < l[k] => p[j] < p[k]

\* A quotient leaves a rest that is less than the divisor.
LEMMA Quotient ==
  ASSUME NEW x \in Int, NEW m \in Int, m > 0, NEW q, q = x \div m
  PROVE  q \in Int /\ m * q \in Int /\ 0 <= x - m * q /\ x - m * q < m
<1>1. q \in Int
  OBVIOUS
<1>2. m * q \in Int
  BY <1>1
<1>3. 0 <= x - m * q /\ x - m * q < m
  OBVIOUS
<1> QED BY <1>1, <1>2, <1>3

\* The things are put one after the other in the order B, each a gap after the one before,
\* between the first lead and the end of the last; f sums their extents.
Lined(d, n, l, e, p, B, f, last, start, gap) ==
  /\ n \in Nat /\ n >= 3 /\ IsFiniteSet(d) /\ Cardinality(d) = n
  /\ \A i \in d : l[i] \in Int /\ e[i] \in Int /\ p[i] \in Int
  /\ Ranked(d, n, l, B) /\ SumOver(d, e, f)
  /\ last \in d /\ Cardinality(B[last]) = n - 1
  /\ start \in Int /\ (\E i \in d : l[i] = start) /\ (\A i \in d : start <= l[i])
  /\ gap = (l[last] + e[last] - start - f[d]) \div (n - 1)
  /\ \A i \in d : p[i] = start + Cardinality(B[i]) * gap + f[B[i]]

\* What is put one after the other like that is spread evenly.
LEMMA GapsSpread ==
  ASSUME NEW n, NEW d, NEW l, NEW e, NEW p, NEW B, NEW f, NEW last, NEW start, NEW gap,
         Lined(d, n, l, e, p, B, f, last, start, gap)
  PROVE  Spread(d, n, l, e, p)
<1> USE DEF Lined
<1>1. \A i \in d : B[i] \in SUBSET d /\ i \in d \ B[i]
  BY DEF Ranked
<1>2. \A s \in SUBSET d : IsFiniteSet(s) /\ Cardinality(s) \in Nat /\ Cardinality(s) <= n
  BY FS_Subset, FS_CardinalityType
<1>3. \A s \in SUBSET d : f[s] \in Int
  BY DEF SumOver
<1>4. \A i \in d : /\ B[i] \cup {i} \in SUBSET d
                   /\ Cardinality(B[i] \cup {i}) = Cardinality(B[i]) + 1
                   /\ f[B[i] \cup {i}] = f[B[i]] + e[i]
  <2> SUFFICES ASSUME NEW i \in d
               PROVE  /\ B[i] \cup {i} \in SUBSET d
                      /\ Cardinality(B[i] \cup {i}) = Cardinality(B[i]) + 1
                      /\ f[B[i] \cup {i}] = f[B[i]] + e[i]
    OBVIOUS
  <2>1. PICK b : b = B[i]
    OBVIOUS
  <2>2. b \in SUBSET d /\ i \in d \ b /\ IsFiniteSet(b)
    BY <1>1, <1>2, <2>1
  <2>3. Cardinality(b \cup {i}) = Cardinality(b) + 1
    BY <2>2, FS_AddElement
  <2>4. f[b \cup {i}] = f[b] + e[i]
    BY <2>2 DEF SumOver
  <2> QED BY <2>1, <2>2, <2>3, <2>4
<1>5. ASSUME NEW i \in d, NEW j \in d, i \in B[j]
      PROVE  B[i] \cup {i} \subseteq B[j] /\ Cardinality(B[i]) + 1 <= Cardinality(B[j])
  <2>1. PICK b : b = B[i] \cup {i}
    OBVIOUS
  <2>2. PICK a : a = B[j]
    OBVIOUS
  <2>3. b \subseteq a /\ IsFiniteSet(a)
    BY <1>1, <1>2, <1>5, <2>1, <2>2 DEF Ranked
  <2>4. Cardinality(b) <= Cardinality(a)
    BY <2>3, FS_Subset
  <2> QED BY <1>4, <2>1, <2>2, <2>3, <2>4
<1>6. \A i, j \in d : i # j => i \in B[j] \/ j \in B[i]
  BY DEF Ranked
<1>7. \A i \in d : Cardinality(B[i]) \in Nat
  BY <1>1, <1>2
<1>8. \A i, j \in d : i # j => Cardinality(B[i]) # Cardinality(B[j])
  BY <1>5, <1>6, <1>7
<1> PICK x : x = l[last] + e[last] - start - f[d]
  OBVIOUS
<1> PICK w : w = (n - 1) * gap
  OBVIOUS
<1>9. gap \in Int /\ x \in Int /\ w \in Int /\ 0 <= x - w /\ x - w < n - 1
  <2>1. PICK m : m = n - 1
    OBVIOUS
  <2>2. x \in Int /\ m \in Int /\ m > 0 /\ gap = x \div m /\ w = m * gap
    BY <1>3, <2>1
  <2>3. gap \in Int /\ m * gap \in Int /\ 0 <= x - m * gap /\ x - m * gap < m
    BY ONLY <2>2, Quotient, ZenonT(30)
  <2> QED BY <2>1, <2>2, <2>3
<1>10. \E i \in d : (\A j \in d : l[i] <= l[j]) /\ p[i] = l[i]
  <2>1. 1 \in 1 .. n /\ 1 - 1 = 0
    OBVIOUS
  <2>2. PICK i \in d : Cardinality(B[i]) = 0
    BY <2>1 DEF Ranked
  <2>3. B[i] = {}
    BY <1>1, <1>2, <2>2, FS_EmptySet
  <2>4. \A j \in d : l[i] <= l[j]
    BY <2>3 DEF Ranked
  <2>5. l[i] = start
    <3>1. PICK q \in d : l[q] = start
      OBVIOUS
    <3>2. l[i] <= start /\ start <= l[i] /\ l[i] \in Int /\ start \in Int
      BY <2>4, <3>1
    <3> QED BY ONLY <3>2
  <2>6. f[B[i]] = 0
    BY <2>3 DEF SumOver
  <2>7. p[i] = start
    BY <1>9, <2>2, <2>6
  <2> QED BY <2>4, <2>5, <2>7
<1>11. ASSUME NEW i \in d, \A j \in d \ {i} : l[j] < l[i]
       PROVE  Distance(p[i], l[i]) < n - 1
  <2>1. \A j \in d \ {i} : j \in B[i]
    BY <1>11 DEF Ranked
  <2>2. B[i] \cup {i} = d
    BY <1>1, <2>1
  <2>3. Cardinality(B[i]) = n - 1
    BY <1>4, <1>7, <2>2
  <2>4. i = last
    BY <1>8, <2>3
  <2>5. f[d] = f[B[i]] + e[i]
    BY <1>4, <2>2
  <2>6. p[i] = start + w + f[B[i]]
    BY <2>3
  <2>7. f[B[i]] \in Int /\ e[i] \in Int /\ l[i] \in Int /\ p[i] \in Int
    BY <1>1, <1>3
  <2>8. 0 <= l[i] - p[i] /\ l[i] - p[i] < n - 1
    BY <1>9, <2>4, <2>5, <2>6, <2>7
  <2> QED BY <2>7, <2>8 DEF Distance
<1>12. ASSUME NEW j \in d \ {last}
       PROVE  \E k \in d \ {j} : p[k] - p[j] - e[j] = gap
  <2>1. Cardinality(B[j]) + 1 <= n /\ Cardinality(B[j]) # n - 1
    <3>1. PICK b : b = B[j] \cup {j}
      OBVIOUS
    <3>2. b \in SUBSET d /\ Cardinality(b) = Cardinality(B[j]) + 1
      BY <1>4, <3>1
    <3>3. Cardinality(b) <= n
      BY <1>2, <3>2
    <3> QED BY <1>8, <3>2, <3>3
  <2>2. PICK c : c = Cardinality(B[j])
    OBVIOUS
  <2>3. c \in Nat /\ c + 2 \in 1 .. n /\ c + 2 - 1 = c + 1
    BY <1>7, <2>1, <2>2
  <2>4. PICK k \in d : Cardinality(B[k]) = c + 1
    <3>1. PICK m : m = c + 2
      OBVIOUS
    <3>2. m \in 1 .. n /\ m - 1 = c + 1
      BY <2>3, <3>1
    <3> QED BY <3>2 DEF Ranked
  <2>5. j # k
    BY <2>2, <2>3, <2>4
  <2>6. j \in B[k]
    BY <1>5, <1>6, <1>7, <2>2, <2>3, <2>4, <2>5
  <2>7. PICK b : b = B[j] \cup {j}
    OBVIOUS
  <2>8. PICK a : a = B[k]
    OBVIOUS
  <2>9. b \subseteq a /\ Cardinality(b) = Cardinality(a) /\ IsFiniteSet(a)
    BY <1>1, <1>2, <1>4, <1>5, <2>2, <2>4, <2>6, <2>7, <2>8
  <2>10. b = a
    BY <2>9, FS_Subset
  <2>11. f[a] = f[B[j]] + e[j]
    BY <1>4, <2>7, <2>10
  <2>12. p[k] = start + (c + 1) * gap + f[a] /\ p[j] = start + c * gap + f[B[j]]
    BY <2>2, <2>4, <2>8
  <2>13. f[B[j]] \in Int /\ e[j] \in Int
    BY <1>1, <1>3
  <2>14. c * gap \in Int /\ (c + 1) * gap = c * gap + gap
    BY ONLY <1>9, <2>3, SMT
  <2>15. p[k] - p[j] - e[j] = gap
    BY <1>9, <2>11, <2>12, <2>13, <2>14
  <2> QED BY <2>5, <2>15
<1>13. ASSUME gap >= 0, \A j \in d : e[j] > 0, NEW j \in d, NEW k \in d, l[j] < l[k]
       PROVE  p[j] < p[k]
  <2>1. j \in B[k]
    BY <1>13 DEF Ranked
  <2>2. \A i \in d : e[i] \in Nat
    BY <1>13
  <2>3. f[B[j] \cup {j}] <= f[B[k]]
    <3>1. PICK b : b = B[j] \cup {j}
      OBVIOUS
    <3>2. PICK a : a = B[k]
      OBVIOUS
    <3>3. b \in SUBSET d /\ a \in SUBSET d /\ b \subseteq a
      BY <1>1, <1>4, <1>5, <2>1, <3>1, <3>2
    <3>4. f[b] <= f[a]
      BY <2>2, <3>3, SumsGrow
    <3> QED BY <3>1, <3>2, <3>4
  <2>4. PICK a : a = Cardinality(B[j])
    OBVIOUS
  <2>5. PICK c : c = Cardinality(B[k])
    OBVIOUS
  <2>6. a \in Nat /\ c \in Nat /\ a < c
    BY <1>5, <1>7, <2>1, <2>4, <2>5
  <2>7. a * gap \in Int /\ c * gap \in Int /\ a * gap <= c * gap
    BY ONLY <1>9, <1>13, <2>6, SMT
  <2>8. f[B[j]] \in Int /\ f[B[k]] \in Int /\ e[j] > 0 /\ e[j] \in Int
    BY <1>1, <1>3, <1>13
  <2>9. f[B[j]] + e[j] <= f[B[k]]
    BY <1>4, <2>3
  <2>10. p[j] = start + a * gap + f[B[j]] /\ p[k] = start + c * gap + f[B[k]]
    BY <2>4, <2>5
  <2> QED BY <2>7, <2>8, <2>9, <2>10
<1> QED BY <1>9, <1>10, <1>11, <1>12, <1>13 DEF Spread

\* Distributed elements are at integer coordinates (align.ts, distributeRects).
LEMMA DistributedRects ==
  ASSUME NEW rects \in Seq(AnyRect), rects # <<>>, NEW axis \in Axes
  PROVE  \A i \in DOMAIN rects : DistributeRects(rects, axis)[i] \in AnyRect
<1>1. PICK n : n = Len(rects)
  OBVIOUS
<1>2. n \in Nat \ {0} /\ DOMAIN rects = 1 .. n
  BY <1>1
<1>3. \A i \in 1 .. n : rects[i] \in AnyRect /\ Lead(rects[i], axis) \in Int /\ Extent(rects[i], axis) \in Int
  <2> SUFFICES ASSUME NEW i \in 1 .. n
               PROVE  rects[i] \in AnyRect /\ Lead(rects[i], axis) \in Int /\ Extent(rects[i], axis) \in Int
    OBVIOUS
  <2>1. rects[i] \in AnyRect
    BY <1>2
  <2> QED BY <2>1 DEF AnyRect, Lead, Extent
<1>4. PICK d : d = DOMAIN rects
  OBVIOUS
<1>5. IsFiniteSet(d) /\ Cardinality(d) = n /\ d = 1 .. n
  BY <1>2, <1>4, FS_Interval
<1>6. PICK start : start = Min({Lead(r, axis) : r \in Range(rects)})
  OBVIOUS
<1>7. start \in Int
  <2>1. PICK f : f = [i \in 1 .. n |-> Lead(rects[i], axis)]
    OBVIOUS
  <2>2. f \in [1 .. n -> Int]
    BY <1>3, <2>1
  <2>3. {Lead(r, axis) : r \in Range(rects)} = {f[i] : i \in 1 .. n}
    BY <1>2, <2>1 DEF Range
  <2> QED BY <1>2, <1>6, <2>2, <2>3, ExtremesAreIntegers
<1>8. \A i \in d : /\ Cardinality(Before(rects, i, axis)) \in Int
                   /\ Extents(rects, axis, Before(rects, i, axis)) \in Int
  <2> SUFFICES ASSUME NEW i \in d
               PROVE  /\ Cardinality(Before(rects, i, axis)) \in Int
                      /\ Extents(rects, axis, Before(rects, i, axis)) \in Int
    OBVIOUS
  <2>1. PICK b : b = Before(rects, i, axis)
    OBVIOUS
  <2>2. b \in SUBSET d
    BY <1>4, <2>1 DEF Before
  <2>3. IsFiniteSet(b) /\ \A j \in b : Extent(rects[j], axis) \in Int
    BY <1>3, <1>5, <2>2, FS_Subset
  <2>4. Cardinality(b) \in Int
    BY <2>3, FS_CardinalityType
  <2>5. Extents(rects, axis, b) \in Int
    BY <2>3, SumIsInteger
  <2> QED BY <2>1, <2>4, <2>5
<1>9. \E i \in d : Cardinality(Before(rects, i, axis)) = n - 1
  <2>1. n \in 1 .. n
    BY <1>2
  <2>2. \A i \in 1 .. n : Lead(rects[i], axis) \in Int
    BY <1>3
  <2>3. PICK l : l = [i \in 1 .. n |-> Lead(rects[i], axis)]
    OBVIOUS
  <2>4. PICK B : B = [i \in 1 .. n |-> Before(rects, i, axis)]
    OBVIOUS
  <2>5. Ranked(1 .. n, n, l, B)
    BY <1>2, <2>2, <2>3, <2>4, LeadsAreOrdered
  <2>6. PICK x \in 1 .. n : Cardinality(B[x]) = n - 1
    BY <2>1, <2>5 DEF Ranked
  <2> QED BY <1>5, <2>4, <2>6
<1>10. CASE n < 3
  BY <1>1, <1>2, <1>3, <1>10 DEF DistributeRects
<1>11. CASE n >= 3
  <2>1. Gap(rects, axis) \in Int
    <3>1. PICK last : last = CHOOSE i \in DOMAIN rects : Cardinality(Before(rects, i, axis)) = Len(rects) - 1
      OBVIOUS
    <3>2. last \in d
      BY <1>1, <1>4, <1>9, <3>1
    <3>3. PICK used : used = Extents(rects, axis, DOMAIN rects)
      OBVIOUS
    <3>4. used \in Int
      <4>1. Extents(rects, axis, d) \in Int
        BY <1>3, <1>5, SumIsInteger
      <4> QED BY <1>4, <3>3, <4>1
    <3>5. PICK end : end = Lead(rects[last], axis) + Extent(rects[last], axis)
      OBVIOUS
    <3>6. end \in Int
      BY <1>3, <1>5, <3>2, <3>5
    <3>7. Gap(rects, axis) = (end - start - used) \div (n - 1)
      BY <1>1, <1>6, <3>1, <3>3, <3>5 DEF Gap
    <3>8. end - start - used \in Int /\ n - 1 \in Int /\ n - 1 > 0
      BY <1>2, <1>7, <1>11, <3>4, <3>6
    <3>9. \A a \in Int : \A b \in Int : b > 0 => a \div b \in Int
      BY SMT
    <3> QED BY <3>7, <3>8, <3>9
  <2>2. PICK gap : gap = Gap(rects, axis)
    OBVIOUS
  <2> DEFINE Cursor(i) == start + Cardinality(Before(rects, i, axis)) * gap
                            + Extents(rects, axis, Before(rects, i, axis))
  <2>3. \A i \in d : Cursor(i) \in Int
    <3> SUFFICES ASSUME NEW i \in d PROVE Cursor(i) \in Int
      OBVIOUS
    <3>1. PICK a : a = Cardinality(Before(rects, i, axis))
      OBVIOUS
    <3>2. PICK b : b = Extents(rects, axis, Before(rects, i, axis))
      OBVIOUS
    <3>3. a \in Int /\ b \in Int /\ gap \in Int
      BY <1>8, <2>1, <2>2, <3>1, <3>2
    <3>4. a * gap \in Int
      BY <3>3, SMT
    <3>5. start + a * gap + b \in Int
      BY <1>7, <3>3, <3>4
    <3> QED BY <3>1, <3>2, <3>5
  <2>4. DistributeRects(rects, axis) =
          [i \in DOMAIN rects |-> IF axis = "horizontal" THEN [rects[i] EXCEPT !.x = Cursor(i)]
                                                         ELSE [rects[i] EXCEPT !.y = Cursor(i)]]
    BY <1>1, <1>2, <1>6, <1>11, <2>2 DEF DistributeRects
  <2> HIDE DEF Cursor
  <2>5. \A r \in AnyRect : \A v \in Int : [r EXCEPT !.x = v] \in AnyRect /\ [r EXCEPT !.y = v] \in AnyRect
    BY DEF AnyRect
  <2>6. ASSUME NEW i \in d PROVE DistributeRects(rects, axis)[i] \in AnyRect
    <3>1. PICK v : v = Cursor(i)
      OBVIOUS
    <3>2. rects[i] \in AnyRect /\ v \in Int
      BY <1>3, <1>5, <2>3, <3>1
    <3>3. DistributeRects(rects, axis)[i] = IF axis = "horizontal" THEN [rects[i] EXCEPT !.x = v]
                                                                  ELSE [rects[i] EXCEPT !.y = v]
      BY <1>4, <2>4, <3>1
    <3> QED BY <2>5, <3>2, <3>3
  <2> QED BY <1>4, <2>6
<1> QED BY <1>2, <1>10, <1>11

\* A distribution spreads the rects evenly (align.ts, distributeRects).
LEMMA DistributedSpread ==
  ASSUME NEW rects \in Seq(AnyRect), NEW n, n = Len(rects), n >= 3, NEW axis \in Axes,
         NEW l, \A i \in 1 .. n : l[i] = Lead(rects[i], axis),
         NEW e, \A i \in 1 .. n : e[i] = Extent(rects[i], axis),
         NEW p, \A i \in 1 .. n : p[i] = Lead(DistributeRects(rects, axis)[i], axis)
  PROVE  Spread(1 .. n, n, l, e, p)
<1>1. n \in Nat /\ DOMAIN rects = 1 .. n /\ rects # <<>>
  OBVIOUS
<1>2. ASSUME NEW r \in AnyRect
      PROVE  Lead(r, axis) \in Int /\ Extent(r, axis) \in Int
  BY <1>2 DEF AnyRect, Lead, Extent
<1>3. PICK d : d = 1 .. n
  OBVIOUS
<1>4. IsFiniteSet(d) /\ Cardinality(d) = n /\ DOMAIN rects = d
  <2>1. n \in Nat /\ n >= 3
    BY <1>1
  <2>2. IsFiniteSet(d) /\ Cardinality(d) = n
    BY ONLY <1>3, <2>1, FS_Interval
  <2> QED BY <1>1, <1>3, <2>2
<1>5. \A i \in d : rects[i] \in AnyRect /\ l[i] \in Int /\ e[i] \in Int
  BY <1>1, <1>2, <1>3
<1>6. \A i \in d : p[i] \in Int
  BY <1>1, <1>2, <1>3, DistributedRects
<1>7. PICK B : B = [i \in d |-> Before(rects, i, axis)]
  OBVIOUS
<1>8. Ranked(d, n, l, B)
  BY <1>1, <1>3, <1>5, <1>7, LeadsAreOrdered
<1>9. PICK f : /\ SumOver(d, e, f)
              /\ \A S \in SUBSET d : Extents(rects, axis, S) = f[S]
  <2>1. \A i \in d : e[i] = Extent(rects[i], axis) /\ e[i] \in Int
    BY <1>3, <1>5
  <2>2. PICK f : SumOver(d, e, f) /\ ExtentsAre(rects, axis, d, f)
    BY <1>4, <2>1, ExtentsAreSums
  <2> QED BY <2>2 DEF ExtentsAre
<1>10. PICK last : last = CHOOSE i \in DOMAIN rects : Cardinality(Before(rects, i, axis)) = Len(rects) - 1
  OBVIOUS
<1>11. last \in d /\ Cardinality(B[last]) = n - 1
  <2>1. n \in 1 .. n
    BY <1>1
  <2>2. \E i \in d : Cardinality(B[i]) = n - 1
    BY <1>8, <2>1 DEF Ranked
  <2>3. \E i \in DOMAIN rects : Cardinality(Before(rects, i, axis)) = Len(rects) - 1
    BY <1>4, <1>7, <2>2
  <2>4. last \in DOMAIN rects /\ Cardinality(Before(rects, last, axis)) = Len(rects) - 1
    BY <1>10, <2>3
  <2> QED BY <1>4, <1>7, <2>4
<1>12. PICK start : start = Min({Lead(r, axis) : r \in Range(rects)})
  OBVIOUS
<1>13. start \in Int /\ (\E i \in d : l[i] = start) /\ \A i \in d : start <= l[i]
  <2>1. PICK S : S = {l[i] : i \in d}
    OBVIOUS
  <2>2. {Lead(r, axis) : r \in Range(rects)} = S
    BY <1>1, <1>3, <2>1 DEF Range
  <2>3. S \in SUBSET Int /\ S # {}
    BY <1>1, <1>3, <1>5, <2>1
  <2>4. IsFiniteSet(S)
    <3>1. PICK g : g = [i \in d |-> l[i]]
      OBVIOUS
    <3>2. g \in Surjection(d, S)
      BY <2>1, <3>1 DEF Surjection
    <3> QED BY <1>4, <3>2, FS_Surjection
  <2>5. start \in S /\ \A v \in S : start <= v
    BY <1>12, <2>2, <2>3, <2>4, LeastOf
  <2> QED BY <2>1, <2>3, <2>5
<1>14. PICK gap : gap = Gap(rects, axis)
  OBVIOUS
<1>15. gap = (l[last] + e[last] - start - f[d]) \div (n - 1)
  <2>1. PICK end : end = Lead(rects[last], axis) + Extent(rects[last], axis)
    OBVIOUS
  <2>2. PICK used : used = Extents(rects, axis, DOMAIN rects)
    OBVIOUS
  <2>3. gap = (end - start - used) \div (n - 1)
    BY <1>10, <1>12, <1>14, <2>1, <2>2 DEF Gap
  <2>4. end = l[last] + e[last]
    BY <1>3, <1>11, <2>1
  <2>5. used = f[d]
    BY <1>4, <1>9, <2>2
  <2>6. end - start - used = l[last] + e[last] - start - f[d]
    <3>1. l[last] \in Int /\ e[last] \in Int /\ f[d] \in Int /\ start \in Int
      BY <1>5, <1>9, <1>11, <1>13 DEF SumOver
    <3> QED BY ONLY <2>4, <2>5, <3>1
  <2> QED BY ONLY <2>3, <2>6, Zenon
<1>16. ASSUME NEW i \in d
       PROVE  p[i] = start + Cardinality(B[i]) * gap + f[B[i]]
  <2> DEFINE Cursor(j) == start + Cardinality(Before(rects, j, axis)) * gap
                            + Extents(rects, axis, Before(rects, j, axis))
  <2>1. DistributeRects(rects, axis) =
          [j \in DOMAIN rects |-> IF axis = "horizontal" THEN [rects[j] EXCEPT !.x = Cursor(j)]
                                                         ELSE [rects[j] EXCEPT !.y = Cursor(j)]]
    <3>1. ~(n < 3)
      BY <1>1
    <3> QED BY <1>12, <1>14, <3>1 DEF DistributeRects
  <2>2. PICK v : v = Cursor(i)
    OBVIOUS
  <2> HIDE DEF Cursor
  <2>3. DistributeRects(rects, axis)[i] = IF axis = "horizontal" THEN [rects[i] EXCEPT !.x = v]
                                                                ELSE [rects[i] EXCEPT !.y = v]
    BY <1>4, <2>1, <2>2
  <2>4. PICK r : r = rects[i]
    OBVIOUS
  <2>5. r \in AnyRect
    BY <1>5, <2>4
  <2>6. [r EXCEPT !.x = v].x = v /\ [r EXCEPT !.y = v].y = v
    BY <2>5 DEF AnyRect
  <2>7. p[i] = v
    BY <1>3, <2>3, <2>4, <2>6 DEF Lead, Axes
  <2>8. B[i] = Before(rects, i, axis) /\ B[i] \in SUBSET d
    BY <1>7, <1>8 DEF Ranked
  <2>9. Extents(rects, axis, Before(rects, i, axis)) = f[B[i]]
    BY <1>9, <2>8
  <2> QED BY <2>2, <2>7, <2>8, <2>9 DEF Cursor
<1>17. Spread(d, n, l, e, p)
  <2>1. \A i \in d : l[i] \in Int /\ e[i] \in Int /\ p[i] \in Int
    BY <1>5, <1>6
  <2>2. n \in Nat /\ n >= 3 /\ IsFiniteSet(d) /\ Cardinality(d) = n /\ SumOver(d, e, f)
    BY <1>1, <1>4, <1>9
  <2>3. Lined(d, n, l, e, p, B, f, last, start, gap)
    BY ONLY <2>1, <2>2, <1>8, <1>11, <1>13, <1>15, <1>16 DEF Lined
  <2> QED BY ONLY <2>3, GapsSpread
<1> QED BY <1>3, <1>17

-----------------------------------------------------------------------------
(***************************************************************************)
(* The geometry of drags and resizes.                                      *)
(***************************************************************************)

\* A snapped length is a length (geometry.ts, snap).
LEMMA SnapIsInteger ==
  ASSUME NEW v \in Int, NEW g \in Int, NEW on \in BOOLEAN
  PROVE  Snap(v, g, on) \in Int
<1>1. CASE ~on \/ g <= 0
  BY <1>1 DEF Snap
<1>2. CASE on /\ g > 0
  <2>1. (2 * v + g) \div (2 * g) \in Int
    BY <1>2, SMT
  <2>2. \A a, b \in Int : a * b \in Int
    BY SMT
  <2> QED BY <1>2, <2>1, <2>2 DEF Snap
<1> QED BY <1>1, <1>2

\* Snapping keeps what is not left of the origin there, for any grid (geometry.ts, snap).
LEMMA SnapStaysOnPage ==
  ASSUME NEW v \in Nat, NEW g \in Int, NEW on \in BOOLEAN
  PROVE  Snap(v, g, on) \in Nat
<1>1. CASE ~on \/ g <= 0
  BY <1>1 DEF Snap
<1>2. CASE on /\ g > 0
  <2>1. (2 * v + g) \div (2 * g) \in Nat
    BY <1>2, SMT
  <2>2. \A a, b \in Nat : a * b \in Nat
    BY SMT
  <2> QED BY <1>2, <2>1, <2>2 DEF Snap
<1> QED BY <1>1, <1>2

\* Wherever a drag starts and the pointer goes, the element is put on the page
\* (geometry.ts, draggedPosition).
THEOREM DragStaysOnPage ==
  ASSUME NEW start \in AnyPoint, NEW delta \in AnyPoint, NEW g \in Int, NEW on \in BOOLEAN
  PROVE  DraggedPosition(start, delta, g, on) \in [x : Nat, y : Nat]
<1>1. Larger(0, start.x + delta.x) \in Nat /\ Larger(0, start.y + delta.y) \in Nat
  BY DEF Larger, AnyPoint
<1> QED
  BY <1>1, SnapStaysOnPage DEF DraggedPosition

\* The corner opposite to a handle is where it was.
SameCorner(r, start, handle) ==
  /\ handle \in {"se", "ne"} => r.x = start.x
  /\ handle \in {"sw", "nw"} => Right(r) = Right(start)
  /\ handle \in {"se", "sw"} => r.y = start.y
  /\ handle \in {"ne", "nw"} => Bottom(r) = Bottom(start)

\* The corner opposite to a handle is on the page.
CornerOnPage(start, handle) ==
  /\ handle \in {"se", "ne"} => start.x >= 0
  /\ handle \in {"sw", "nw"} => Right(start) >= 0
  /\ handle \in {"se", "sw"} => start.y >= 0
  /\ handle \in {"ne", "nw"} => Bottom(start) >= 0

\* Wherever the pointer goes, a resized element keeps the corner opposite to the handle,
\* is not turned inside out, and stays on the page if that corner is on it
\* (geometry.ts, resizedRect).
THEOREM ResizeKeepsCorner ==
  ASSUME NEW start \in AnyRect, NEW handle \in Handles, NEW delta \in AnyPoint,
         NEW g \in Int, NEW on \in BOOLEAN
  PROVE  LET r == ResizedRect(start, handle, delta, g, on)
         IN /\ r \in AnyRect /\ SameCorner(r, start, handle) /\ r.w >= 0 /\ r.h >= 0
            /\ CornerOnPage(start, handle) => OnPage(r)
<1> DEFINE sr == Snap(Right(start) + delta.x, g, on)
           sl == Snap(start.x + delta.x, g, on)
           sb == Snap(Bottom(start) + delta.y, g, on)
           st == Snap(start.y + delta.y, g, on)
<1>1. /\ start.x \in Int /\ start.y \in Int /\ start.w \in Int /\ start.h \in Int
      /\ delta.x \in Int /\ delta.y \in Int
  BY DEF AnyRect, AnyPoint
<1>2. sr \in Int /\ sl \in Int /\ sb \in Int /\ st \in Int
  <2>1. /\ Right(start) + delta.x \in Int /\ start.x + delta.x \in Int
        /\ Bottom(start) + delta.y \in Int /\ start.y + delta.y \in Int
    BY <1>1 DEF Right, Bottom
  <2> QED BY <2>1, SnapIsInteger
<1> HIDE DEF sr, sl, sb, st
<1> DEFINE right  == Larger(start.x, sr)
           left   == Smaller(Right(start), Larger(0, sl))
           bottom == Larger(start.y, sb)
           top    == Smaller(Bottom(start), Larger(0, st))
<1>3. /\ right \in Int /\ right >= start.x
      /\ left \in Int /\ left <= Right(start) /\ (Right(start) >= 0 => left >= 0)
      /\ bottom \in Int /\ bottom >= start.y
      /\ top \in Int /\ top <= Bottom(start) /\ (Bottom(start) >= 0 => top >= 0)
      /\ Right(start) \in Int /\ Bottom(start) \in Int
  BY <1>1, <1>2 DEF Larger, Smaller, Right, Bottom
<1> HIDE DEF right, left, bottom, top
<1> DEFINE l == IF handle \in {"sw", "nw"} THEN left ELSE start.x
           r == IF handle \in {"se", "ne"} THEN right ELSE Right(start)
           t == IF handle \in {"ne", "nw"} THEN top ELSE start.y
           b == IF handle \in {"se", "sw"} THEN bottom ELSE Bottom(start)
<1>4. ResizedRect(start, handle, delta, g, on) = [x |-> l, y |-> t, w |-> r - l, h |-> b - t]
  BY DEF ResizedRect, Rect, right, left, bottom, top, sr, sl, sb, st
<1>5. /\ l \in Int /\ r \in Int /\ l <= r /\ t \in Int /\ b \in Int /\ t <= b
      /\ handle \in {"se", "ne"} => l = start.x
      /\ handle \in {"sw", "nw"} => r = Right(start)
      /\ handle \in {"se", "sw"} => t = start.y
      /\ handle \in {"ne", "nw"} => b = Bottom(start)
      /\ CornerOnPage(start, handle) => l >= 0 /\ t >= 0
  BY <1>1, <1>3 DEF Handles, CornerOnPage
<1> HIDE DEF l, r, t, b
<1>6. r - l \in Nat /\ b - t \in Nat /\ l + (r - l) = r /\ t + (b - t) = b
  BY <1>5
<1>7. PICK new : new = ResizedRect(start, handle, delta, g, on)
  OBVIOUS
<1>8. new.x = l /\ new.y = t /\ new.w = r - l /\ new.h = b - t /\ new \in AnyRect
  BY <1>4, <1>5, <1>6, <1>7 DEF AnyRect
<1>9. SameCorner(new, start, handle) /\ new.w >= 0 /\ new.h >= 0
  BY <1>5, <1>6, <1>8 DEF SameCorner, Right, Bottom
<1>10. CornerOnPage(start, handle) => OnPage(new)
  BY <1>5, <1>6, <1>8 DEF OnPage
<1> QED BY <1>7, <1>8, <1>9, <1>10

-----------------------------------------------------------------------------
(***************************************************************************)
(* Steps.                                                                  *)
(***************************************************************************)

\* A commit appends the template to the past, unless the last one had its tag (record).
LEMMA Commits ==
  ASSUME HistoryInv, NEW t \in WellFormed, NEW tag, Commit(t, tag)
  PROVE  /\ HistoryInv' /\ template' = t /\ history'.tag = tag
         /\ Len(history.past) \in Nat
         /\ Len(history'.past) \in {Len(history.past), Len(history.past) + 1}
         /\ tag # None /\ tag = history.tag => history'.past = history.past
<1>1. PICK h : h = history'
  OBVIOUS
<1>2. PICK past : past = history.past
  OBVIOUS
<1>3. PICK now : now = template
  OBVIOUS
<1>4. past \in Seq(WellFormed) /\ now \in WellFormed /\ Len(past) \in Nat
  BY <1>2, <1>3 DEF HistoryInv
<1>5. PICK new : new = IF tag # None /\ tag = history.tag THEN past ELSE Append(past, now)
  OBVIOUS
<1>6. new \in Seq(WellFormed) /\ Len(new) \in {Len(past), Len(past) + 1}
  BY <1>4, <1>5
<1>7. h = [present |-> t, future |-> <<>>, tag |-> tag, past |-> new]
  BY <1>1, <1>2, <1>3, <1>5 DEF Commit, Recorded, template
<1>8. h.present = t /\ h.past = new /\ h.tag = tag /\ h.future = <<>>
  BY <1>7
<1>9. PICK pages : pages = PageCount(t)
  OBVIOUS
<1>10. pages \in Nat \ {0}
  BY <1>9, PagesAreCounted DEF WellFormed
<1>11. page \in Nat \ {0}
  <2>1. PageCount(template) \in Nat
    BY PagesAreCounted DEF HistoryInv, WellFormed
  <2> QED BY <2>1 DEF HistoryInv
<1>12. page' \in 1 .. pages
  BY <1>9, <1>10, <1>11 DEF Commit, Clamped, Smaller
<1>13. edits' \in 0 .. MaxEdits
  BY CanvasAssumption DEF Commit, HistoryInv
<1>14. template' = t
  BY <1>1, <1>8 DEF template
<1>15. h.future \in Seq(WellFormed)
  BY <1>8
<1>16. HistoryInv'
  BY <1>1, <1>6, <1>7, <1>8, <1>9, <1>12, <1>13, <1>14, <1>15 DEF HistoryInv
<1> QED BY <1>1, <1>2, <1>4, <1>5, <1>6, <1>8, <1>14, <1>16

\* What is not the history, and is not done on the canvas, leaves the gestures alone.
LEMMA ElsewhereSteps ==
  ASSUME Inv, Elsewhere, HistoryInv', selected' \in Seq(Ids), IsInjective(selected'), gesture' = gesture
  PROVE  Inv'
<1>1. held = None /\ held' = None
  BY DEF Elsewhere
<1>2. ViewInv'
  BY DEF Inv, ViewInv, Elsewhere, refs
<1>3. HeldInv'
  BY <1>1, NoneAssumption DEF Inv, HeldInv, Elsewhere, refs
<1>4. StepInv' /\ OppositeCornerStays'
  BY <1>1, NoneAssumption DEF Inv, StepInv, OppositeCornerStays
<1> QED BY <1>2, <1>3, <1>4 DEF Inv

\* The history stays well-formed through undo.
LEMMA UndoKeepsInv ==
  ASSUME Inv, Undo
  PROVE  Inv'
<1>1. PICK past : past = history.past
  OBVIOUS
<1>2. PICK future : future = history.future
  OBVIOUS
<1>3. PICK now : now = template
  OBVIOUS
<1>4. past \in Seq(WellFormed) /\ past # <<>> /\ future \in Seq(WellFormed) /\ now \in WellFormed
  BY <1>1, <1>2, <1>3 DEF Inv, HistoryInv, Undo
<1>5. PICK front : front = Front(past)
  OBVIOUS
<1>6. PICK last : last = Last(past)
  OBVIOUS
<1>7. front \in Seq(WellFormed) /\ last \in WellFormed
  <2>1. Len(past) \in Nat /\ Len(past) > 0
    BY <1>4
  <2> QED BY <1>4, <1>5, <1>6, <2>1 DEF Front, Last
<1>8. PICK later : later = <<now>> \o future
  OBVIOUS
<1>9. later \in Seq(WellFormed)
  <2>1. <<now>> \in Seq(WellFormed)
    BY <1>4
  <2> QED BY <1>4, <1>8, <2>1, ConcatProperties
<1>10. PICK h : h = history'
  OBVIOUS
<1>11. h = [past |-> front, present |-> last, future |-> later, tag |-> None]
  BY <1>1, <1>2, <1>3, <1>5, <1>6, <1>8, <1>10 DEF Undo
<1>12. h.past = front /\ h.present = last /\ h.future = later /\ h.tag = None
  BY <1>11
<1>13. template' = last
  BY <1>10, <1>12 DEF template
<1>14. PICK pages : pages = PageCount(last)
  OBVIOUS
<1>15. pages \in Nat \ {0} /\ page \in Nat \ {0}
  <2>1. pages \in Nat \ {0} /\ PageCount(template) \in Nat
    BY <1>7, <1>14, PagesAreCounted DEF Inv, HistoryInv, WellFormed
  <2> QED BY <2>1 DEF Inv, HistoryInv
<1>16. page' \in 1 .. pages
  BY <1>1, <1>6, <1>14, <1>15 DEF Undo, Clamped, Smaller
<1>17. HistoryInv'
  BY <1>7, <1>9, <1>10, <1>11, <1>12, <1>13, <1>14, <1>16 DEF HistoryInv, Inv, Undo
<1>18. selected' \in Seq(Ids) /\ IsInjective(selected') /\ gesture' = gesture
  BY DEF Undo, Inv, ViewInv
<1> QED BY <1>17, <1>18, ElsewhereSteps DEF Undo

\* And through redo.
LEMMA RedoKeepsInv ==
  ASSUME Inv, Redo
  PROVE  Inv'
<1>1. PICK past : past = history.past
  OBVIOUS
<1>2. PICK future : future = history.future
  OBVIOUS
<1>3. PICK now : now = template
  OBVIOUS
<1>4. past \in Seq(WellFormed) /\ future # <<>> /\ future \in Seq(WellFormed) /\ now \in WellFormed
  BY <1>1, <1>2, <1>3 DEF Inv, HistoryInv, Redo
<1>5. PICK earlier : earlier = Append(past, now)
  OBVIOUS
<1>6. PICK next : next = Head(future)
  OBVIOUS
<1>7. PICK later : later = Tail(future)
  OBVIOUS
<1>8. earlier \in Seq(WellFormed) /\ next \in WellFormed /\ later \in Seq(WellFormed)
  BY <1>4, <1>5, <1>6, <1>7
<1>10. PICK h : h = history'
  OBVIOUS
<1>11. h = [past |-> earlier, present |-> next, future |-> later, tag |-> None]
  BY <1>1, <1>2, <1>3, <1>5, <1>6, <1>7, <1>10 DEF Redo
<1>12. h.past = earlier /\ h.present = next /\ h.future = later /\ h.tag = None
  BY <1>11
<1>13. template' = next
  BY <1>10, <1>12 DEF template
<1>14. PICK pages : pages = PageCount(next)
  OBVIOUS
<1>15. pages \in Nat \ {0} /\ page \in Nat \ {0}
  <2>1. pages \in Nat \ {0} /\ PageCount(template) \in Nat
    BY <1>8, <1>14, PagesAreCounted DEF Inv, HistoryInv, WellFormed
  <2> QED BY <2>1 DEF Inv, HistoryInv
<1>16. page' \in 1 .. pages
  BY <1>2, <1>6, <1>14, <1>15 DEF Redo, Clamped, Smaller
<1>17. HistoryInv'
  BY <1>8, <1>10, <1>11, <1>12, <1>13, <1>14, <1>16 DEF HistoryInv, Inv, Redo
<1>18. selected' \in Seq(Ids) /\ IsInjective(selected') /\ gesture' = gesture
  BY DEF Redo, Inv, ViewInv
<1> QED BY <1>17, <1>18, ElsewhereSteps DEF Redo

\* A template is not made ill-formed by the page setup and the settings.
LEMMA SetupKept ==
  ASSUME NEW t \in WellFormed
  PROVE  /\ \A size \in Pages : /\ [t EXCEPT !.page = size] \in WellFormed
                                /\ [t EXCEPT !.page = size].page = size
                                /\ IdsOf([t EXCEPT !.page = size]) = IdsOf(t)
         /\ \A s \in Settings : [t EXCEPT !.settings = s] \in WellFormed
<1>1. t \in Templates
  BY DEF WellFormed
<1>2. ASSUME NEW u \in Templates, u.bands = t.bands
      PROVE  u \in WellFormed /\ IdsOf(u) = IdsOf(t)
  BY <1>2, SameElements
<1>3. ASSUME NEW size \in Pages
      PROVE  /\ [t EXCEPT !.page = size] \in WellFormed /\ [t EXCEPT !.page = size].page = size
             /\ IdsOf([t EXCEPT !.page = size]) = IdsOf(t)
  <2>1. PICK u : u = [t EXCEPT !.page = size]
    OBVIOUS
  <2>2. u \in Templates /\ u.bands = t.bands /\ u.page = size
    BY <1>1, <2>1 DEF Templates
  <2> QED BY <1>2, <2>1, <2>2
<1>4. ASSUME NEW s \in Settings
      PROVE  [t EXCEPT !.settings = s] \in WellFormed
  <2>1. PICK u : u = [t EXCEPT !.settings = s]
    OBVIOUS
  <2>2. u \in Templates /\ u.bands = t.bands
    BY <1>1, <2>1 DEF Templates
  <2> QED BY <1>2, <2>1, <2>2
<1> QED BY <1>3, <1>4

\* An edit of a panel or the toolbar keeps the invariant if what it commits is well-formed.
LEMMA PanelSteps ==
  ASSUME Inv, Elsewhere, NEW t \in WellFormed, Commit(t, None),
         selected' \in Seq(Ids), IsInjective(selected'), gesture' = gesture
  PROVE  Inv'
<1>1. HistoryInv'
  BY Commits DEF Inv
<1> QED BY <1>1, ElsewhereSteps

\* What is inserted gets an id of its own (handleInsert).
LEMMA InsertKeepsInv ==
  ASSUME Inv, NEW type \in Types, Insert(type)
  PROVE  Inv'
<1>1. template \in WellFormed
  BY DEF Inv, HistoryInv
<1>2. PICK id : id = NextElementId(template, type)
  OBVIOUS
<1>3. id \in Ids /\ id \notin IdsOf(template)
  BY <1>1, <1>2, NewIdIsNew
<1>4. PICK of : of = IF selected = <<>> THEN None ELSE BandKindOf(template, selected[1])
  OBVIOUS
<1>5. PICK band : band = IF of = None THEN BandOrder[1] ELSE of
  OBVIOUS
<1>6. band \in Kinds
  <2>1. BandOrder[1] \in Kinds
    <3>1. Len(BandOrder) \in Nat /\ Len(BandOrder) # 0
      BY CanvasAssumption
    <3> QED BY <3>1, CanvasAssumption
  <2>2. ASSUME NEW i \in IdsOf(template) PROVE BandOrder[PlaceOf(template, i)[1]] \in Kinds
    <3>1. PlaceOf(template, i) \in Places(template) /\ template \in Templates
      BY <1>1, ElementsAre
    <3> QED BY <3>1, PlacesAre
  <2>3. \A i : BandKindOf(template, i) \in Kinds \cup {None}
    BY <2>2 DEF BandKindOf
  <2> QED BY <1>4, <1>5, <2>1, <2>3
<1>7. PICK e : e = CreateElement(type, id)
  OBVIOUS
<1>8. e \in AnyElement /\ e.id = id
  BY <1>3, <1>7, Created
<1>9. PICK t : t = AddElement(template, band, e)
  OBVIOUS
<1>10. t \in WellFormed
  BY <1>1, <1>3, <1>6, <1>8, <1>9, Added
<1>11. Elsewhere /\ Commit(t, None) /\ selected' = <<id>> /\ gesture' = gesture
  BY <1>2, <1>4, <1>5, <1>7, <1>9 DEF Insert
<1> QED BY <1>3, <1>10, <1>11, OneId, PanelSteps

\* So does what is dropped (handleInsertAt).
LEMMA DropKeepsInv ==
  ASSUME Inv, NEW type \in Types, NEW band \in Kinds, NEW p \in Points, Drop(type, band, p)
  PROVE  Inv'
<1>1. template \in WellFormed
  BY DEF Inv, HistoryInv
<1>2. PICK id : id = NextElementId(template, type)
  OBVIOUS
<1>3. id \in Ids /\ id \notin IdsOf(template)
  BY <1>1, <1>2, NewIdIsNew
<1>4. PICK new : new = CreateElement(type, id)
  OBVIOUS
<1>5. new \in AnyElement /\ new.id = id
  BY <1>3, <1>4, Created
<1>6. PICK x : x = Larger(0, p.x)
  OBVIOUS
<1>7. PICK y : y = Larger(0, p.y)
  OBVIOUS
<1>8. x \in Int /\ y \in Int
  BY <1>6, <1>7, CanvasAssumption DEF AnyPoint, Larger
<1>9. PICK e : e = [new EXCEPT !.rect.x = x, !.rect.y = y]
  OBVIOUS
<1>10. e \in AnyElement /\ e.id = id
  BY <1>5, <1>8, <1>9 DEF AnyElement, AnyRect
<1>11. PICK t : t = AddElement(template, band, e)
  OBVIOUS
<1>12. t \in WellFormed
  BY <1>1, <1>3, <1>10, <1>11, Added
<1>13. Elsewhere /\ Commit(t, None) /\ selected' = <<id>> /\ gesture' = gesture
  BY <1>2, <1>4, <1>6, <1>7, <1>9, <1>11 DEF Drop
<1> QED BY <1>3, <1>12, <1>13, OneId, PanelSteps

\* Arranging elements moves them to integer coordinates (arrangeSelection).
LEMMA ArrangeKeepsInv ==
  ASSUME Inv, NEW rects, Arrange(rects),
         \A i \in DOMAIN Arranged : rects[i] \in AnyRect
  PROVE  Inv'
<1>1. template \in WellFormed
  BY DEF Inv, HistoryInv
<1>2. PICK new : new = [id \in Range(Arranged) |-> rects[CHOOSE i \in DOMAIN Arranged : Arranged[i] = id]]
  OBVIOUS
<1>3. \A id \in DOMAIN new : new[id] \in AnyRect
  <2> SUFFICES ASSUME NEW id \in Range(Arranged) PROVE new[id] \in AnyRect
    BY <1>2
  <2>1. \E i \in DOMAIN Arranged : Arranged[i] = id
    BY DEF Range
  <2>2. PICK i : i = CHOOSE j \in DOMAIN Arranged : Arranged[j] = id
    OBVIOUS
  <2>3. i \in DOMAIN Arranged
    BY <2>1, <2>2
  <2> QED BY <1>2, <2>2, <2>3
<1>4. PICK t : t = UpdateRects(template, new)
  OBVIOUS
<1>5. t \in WellFormed
  BY <1>1, <1>3, <1>4, RectsUpdated
<1>6. Elsewhere /\ Commit(t, None) /\ selected' = selected /\ gesture' = gesture
  BY <1>2, <1>4 DEF Arrange
<1> QED BY <1>5, <1>6, PanelSteps DEF Inv, ViewInv

\* The elements that are arranged are there.
LEMMA ArrangedAreThere ==
  ASSUME Inv, Arranged # <<>>
  PROVE  /\ DOMAIN RectsOf(Arranged) = DOMAIN Arranged
         /\ RectsOf(Arranged) \in Seq(AnyRect) /\ RectsOf(Arranged) # <<>>
<1>1. template \in WellFormed /\ selected \in Seq(Ids) /\ IsInjective(selected)
  BY DEF Inv, HistoryInv, ViewInv
<1>2. PICK keep : keep = {i \in DOMAIN selected : selected[i] \in IdsOf(template)}
  OBVIOUS
<1>3. PICK ids : ids = Arranged
  OBVIOUS
<1>4. ids = Kept(selected, keep) /\ keep \in SUBSET (DOMAIN selected)
  BY <1>2, <1>3 DEF Arranged
<1>5. ids \in Seq(Ids) /\ \A n \in DOMAIN ids : \E i \in keep : ids[n] = selected[i]
  BY <1>1, <1>4, KeptIds
<1>6. \A n \in DOMAIN ids : ids[n] \in IdsOf(template)
  BY <1>2, <1>5
<1>7. \A n \in DOMAIN ids : ElementOf(template, ids[n]).rect \in AnyRect
  <2>1. \A q \in AnyElement : q.rect \in AnyRect
    BY DEF AnyElement
  <2> QED BY <1>1, <1>6, <2>1, ElementsAre
<1>8. PICK r : r = RectsOf(ids)
  OBVIOUS
<1>9. r = [i \in DOMAIN ids |-> ElementOf(template, ids[i]).rect]
  BY <1>8 DEF RectsOf
<1>10. Len(ids) \in Nat /\ DOMAIN ids = 1 .. Len(ids) /\ Len(ids) # 0
  BY <1>3, <1>5
<1>11. r \in [1 .. Len(ids) -> AnyRect]
  BY <1>7, <1>9, <1>10
<1>12. r \in Seq(AnyRect)
  BY <1>10, <1>11, SeqDef
<1>13. r # <<>>
  BY <1>10, <1>11, <1>12
<1> QED BY <1>3, <1>8, <1>10, <1>11, <1>12, <1>13

\* The rects of the selected elements are exchanged, one by one (arrangeSelection): ids are
\* the elements, was and now their rects before and after.
Rearranged(ids, was, now) ==
  /\ ids \in Seq(Ids) /\ ids # <<>> /\ was \in Seq(AnyRect) /\ Len(was) = Len(ids)
  /\ \A i, j \in DOMAIN ids : ids[i] = ids[j] => i = j
  /\ Range(ids) = Range(selected) \cap IdsOf(template) /\ IdsOf(template') = IdsOf(template)
  /\ \A i \in DOMAIN ids : /\ ElementOf(template, ids[i]).rect = was[i]
                           /\ ElementOf(template', ids[i]).rect = now[i]
                           /\ now[i] \in AnyRect

\* It is so whatever arranges them.
LEMMA ArrangeMovesSelection ==
  ASSUME Inv, NEW rects, Arrange(rects),
         \A i \in DOMAIN Arranged : rects[i] \in AnyRect
  PROVE  Rearranged(Arranged, RectsOf(Arranged), rects)
<1>1. template \in WellFormed /\ selected \in Seq(Ids) /\ IsInjective(selected)
  BY DEF Inv, HistoryInv, ViewInv
<1>2. PICK keep : keep = {i \in DOMAIN selected : selected[i] \in IdsOf(template)}
  OBVIOUS
<1>3. PICK ids : ids = Arranged
  OBVIOUS
<1>4. ids = Kept(selected, keep) /\ keep \in SUBSET (DOMAIN selected)
  BY <1>2, <1>3 DEF Arranged
<1>5. /\ ids \in Seq(Ids) /\ IsInjective(ids)
      /\ \A n \in DOMAIN ids : \E i \in keep : ids[n] = selected[i]
      /\ \A i \in keep : \E n \in DOMAIN ids : ids[n] = selected[i]
  BY <1>1, <1>4, KeptIds
<1>6. Range(ids) = Range(selected) \cap IdsOf(template)
  <2>1. ASSUME NEW id \in Range(ids) PROVE id \in Range(selected) \cap IdsOf(template)
    BY <1>2, <1>5 DEF Range
  <2>2. ASSUME NEW id \in Range(selected), id \in IdsOf(template) PROVE id \in Range(ids)
    <3>1. PICK i \in DOMAIN selected : selected[i] = id
      BY DEF Range
    <3>2. i \in keep
      BY <1>2, <2>2, <3>1
    <3> QED BY <1>5, <3>1, <3>2 DEF Range
  <2> QED BY <2>1, <2>2
<1>7. \A i, j \in DOMAIN ids : ids[i] = ids[j] => i = j
  BY <1>5 DEF IsInjective
<1>8. PICK new : new = [id \in Range(ids) |-> rects[CHOOSE i \in DOMAIN ids : ids[i] = id]]
  OBVIOUS
<1>9. ASSUME NEW i \in DOMAIN ids
      PROVE  ids[i] \in DOMAIN new /\ new[ids[i]] = rects[i]
  <2>1. ids[i] \in Range(ids)
    BY DEF Range
  <2>2. PICK j : j = CHOOSE n \in DOMAIN ids : ids[n] = ids[i]
    OBVIOUS
  <2>3. j \in DOMAIN ids /\ ids[j] = ids[i]
    BY <2>2
  <2>4. j = i
    BY <1>7, <2>3
  <2> QED BY <1>8, <2>1, <2>2, <2>4
<1>10. \A id \in DOMAIN new : new[id] \in AnyRect
  <2> SUFFICES ASSUME NEW id \in Range(ids) PROVE new[id] \in AnyRect
    BY <1>8
  <2>1. PICK i \in DOMAIN ids : ids[i] = id
    BY DEF Range
  <2> QED BY <1>3, <1>9, <2>1
<1>11. PICK t : t = UpdateRects(template, new)
  OBVIOUS
<1>12. /\ t \in WellFormed /\ IdsOf(t) = IdsOf(template)
       /\ \A id \in IdsOf(template) : id \in DOMAIN new => ElementOf(t, id).rect = new[id]
  BY <1>1, <1>10, <1>11, RectsUpdated
<1>13. Commit(t, None) /\ Arranged # <<>>
  BY <1>3, <1>8, <1>11 DEF Arrange
<1>14. template' = t
  BY <1>12, <1>13, Commits DEF Inv
<1>15. ASSUME NEW i \in DOMAIN ids
       PROVE  /\ ElementOf(template, ids[i]).rect = RectsOf(ids)[i]
              /\ ElementOf(template', ids[i]).rect = rects[i]
              /\ rects[i] \in AnyRect
  <2>1. ids[i] \in IdsOf(template)
    BY <1>6 DEF Range
  <2>2. ElementOf(t, ids[i]).rect = rects[i]
    BY <1>9, <1>12, <2>1
  <2>3. ElementOf(template', ids[i]).rect = rects[i]
    BY <1>14, <2>2
  <2> QED BY <1>3, <2>3 DEF RectsOf
<1>16. RectsOf(ids) \in Seq(AnyRect) /\ Len(RectsOf(ids)) = Len(ids)
  <2>1. PICK r : r = RectsOf(ids)
    OBVIOUS
  <2>2. r \in Seq(AnyRect) /\ DOMAIN r = DOMAIN ids
    BY <1>3, <1>13, <2>1, ArrangedAreThere
  <2> QED BY <1>5, <2>1, <2>2
<1>17. IdsOf(template') = IdsOf(template)
  BY <1>12, <1>14
<1> QED BY <1>3, <1>5, <1>6, <1>7, <1>13, <1>15, <1>16, <1>17 DEF Rearranged

\* So do align and distribute (align.ts).
LEMMA ToolsKeepInv ==
  ASSUME Inv, \/ \E edge \in Edges : Align(edge)
              \/ \E axis \in Axes : Distribute(axis)
  PROVE  Inv'
<1>1. ASSUME NEW edge \in Edges, Align(edge) PROVE Inv'
  <2>1. Arrange(AlignRects(RectsOf(Arranged), edge)) /\ Arranged # <<>>
    BY <1>1 DEF Align, Arrange
  <2>2. \A i \in DOMAIN Arranged : AlignRects(RectsOf(Arranged), edge)[i] \in AnyRect
    BY <2>1, ArrangedAreThere, AlignedRects
  <2> QED BY <2>1, <2>2, ArrangeKeepsInv
<1>2. ASSUME NEW axis \in Axes, Distribute(axis) PROVE Inv'
  <2>1. Arrange(DistributeRects(RectsOf(Arranged), axis)) /\ Arranged # <<>>
    BY <1>2 DEF Distribute, Arrange
  <2>2. \A i \in DOMAIN Arranged : DistributeRects(RectsOf(Arranged), axis)[i] \in AnyRect
    BY <2>1, ArrangedAreThere, DistributedRects
  <2> QED BY <2>1, <2>2, ArrangeKeepsInv
<1> QED BY <1>1, <1>2

\* A field of the Properties panel changes the element it shows (editRect).
LEMMA FieldsKeepInv ==
  ASSUME Inv, \/ \E v \in PanelValues, dim \in {"x", "y", "w", "h"} : EditRect(dim, v)
              \/ \E text \in Texts : EditText(text)
  PROVE  Inv'
<1>1. template \in WellFormed
  BY DEF Inv, HistoryInv
<1>2. PICK q : q = ElementOf(template, SoleId)
  OBVIOUS
<1>3. Sole => q \in AnyElement /\ q.id = SoleId
  BY <1>1, <1>2, ElementsAre DEF Sole
<1>4. ASSUME NEW e, e = [id |-> q.id, type |-> q.type, rect |-> e.rect, text |-> e.text],
             e.rect \in AnyRect, e.text \in Writings, Sole, Elsewhere,
             Commit(Update(template, SoleId, e), None), selected' = selected, gesture' = gesture
      PROVE  Inv'
  <2>1. e \in AnyElement /\ e.id = SoleId /\ e.type = q.type
    BY <1>3, <1>4 DEF AnyElement
  <2>2. PICK t : t = Update(template, SoleId, e)
    OBVIOUS
  <2>3. t \in WellFormed
    BY <1>1, <1>2, <2>1, <2>2, Updated
  <2> QED BY <1>4, <2>2, <2>3, PanelSteps DEF Inv, ViewInv
<1>5. ASSUME NEW v \in PanelValues, NEW dim \in {"x", "y", "w", "h"}, EditRect(dim, v) PROVE Inv'
  <2>1. Sole /\ Elsewhere /\ selected' = selected /\ gesture' = gesture
    BY <1>5 DEF EditRect
  <2>2. PICK e : e = [q EXCEPT !.rect[dim] = v]
    OBVIOUS
  <2>3. Commit(Update(template, SoleId, e), None)
    BY <1>2, <1>5, <2>2 DEF EditRect
  <2>4. v \in Int
    BY CanvasAssumption
  <2>5. /\ e = [id |-> q.id, type |-> q.type, rect |-> e.rect, text |-> e.text]
        /\ e.rect \in AnyRect /\ e.text \in Writings
    BY <1>3, <2>1, <2>2, <2>4 DEF AnyElement, AnyRect
  <2> QED BY <1>4, <2>1, <2>3, <2>5
<1>6. ASSUME NEW text \in Texts, EditText(text) PROVE Inv'
  <2>1. Sole /\ Elsewhere /\ selected' = selected /\ gesture' = gesture
    BY <1>6 DEF EditText
  <2>2. PICK e : e = [q EXCEPT !.text = text]
    OBVIOUS
  <2>3. Commit(Update(template, SoleId, e), None)
    BY <1>2, <1>6, <2>2 DEF EditText
  <2>4. text \in Writings
    BY DEF Writings
  <2>5. /\ e = [id |-> q.id, type |-> q.type, rect |-> e.rect, text |-> e.text]
        /\ e.rect \in AnyRect /\ e.text \in Writings
    BY <1>3, <2>1, <2>2, <2>4 DEF AnyElement
  <2> QED BY <1>4, <2>1, <2>3, <2>5
<1> QED BY <1>5, <1>6

\* The settings, the orientation of the page and the page in view.
LEMMA SetupKeepsInv ==
  ASSUME Inv, \/ \E s \in SettingsChoices : SetSettings(s)
              \/ \E o \in {"portrait", "landscape"} : Orient(o)
              \/ TurnPage
  PROVE  Inv'
<1>1. template \in WellFormed /\ template.page \in Pages
  BY DEF Inv, HistoryInv, WellFormed, Templates
<1>2. ASSUME NEW s \in SettingsChoices, SetSettings(s) PROVE Inv'
  <2>1. PICK t : t = [template EXCEPT !.settings = s]
    OBVIOUS
  <2>2. t \in WellFormed
    BY <1>1, <2>1, CanvasAssumption, SetupKept
  <2> QED BY <1>2, <2>1, <2>2, PanelSteps DEF SetSettings, Inv, ViewInv
<1>3. ASSUME NEW o \in {"portrait", "landscape"}, Orient(o) PROVE Inv'
  <2>1. PICK size : size = ApplyOrientation(template.page, o)
    OBVIOUS
  <2>2. size \in Pages
    BY <1>1, <2>1 DEF ApplyOrientation, Smaller, Larger, Pages
  <2>3. PICK t : t = [template EXCEPT !.page = size]
    OBVIOUS
  <2>4. t = [template EXCEPT !.page = ApplyOrientation(@, o)]
    BY <2>1, <2>3
  <2>5. t \in WellFormed
    BY <1>1, <2>2, <2>3, SetupKept
  <2> QED BY <1>3, <2>4, <2>5, PanelSteps DEF Orient, Inv, ViewInv
<1>4. ASSUME TurnPage PROVE Inv'
  <2>1. PageCount(template) \in Nat
    BY <1>1, PagesAreCounted DEF WellFormed
  <2>2. page' \in 1 .. PageCount(template)
    BY <1>4, <2>1 DEF TurnPage, Inv, HistoryInv
  <2>3. HistoryInv'
    BY <1>4, <2>2 DEF TurnPage, Inv, HistoryInv, template
  <2> QED BY <1>4, <2>3, ElsewhereSteps DEF TurnPage, Inv, ViewInv
<1> QED BY <1>2, <1>3, <1>4

\* A gesture begins with a step that is still to be made.
LEMMA PressesKeepInv ==
  ASSUME Inv, NEW what \in {"drag", "resize", "page", "marquee"}, Pressed(what),
         selected' \in Seq(Ids), IsInjective(selected'),
         drag' \in {None} \cup [id : Ids, start : AnyPoint],
         resize' \in {None} \cup [id : Ids, handle : Handles, start : AnyRect],
         grip' \in {None} \cup [grip : Grips, start : Pages],
         anchor' \in {None} \cup [from : AnyPoint, at : AnyPoint, moved : BOOLEAN],
         what = "drag" => drag' # None /\ drag'.id \in IdsOf(template),
         what = "resize" => resize' # None /\ resize'.id \in IdsOf(template)
                            /\ resize'.start = ElementOf(template, resize'.id).rect,
         what = "page" => grip' # None /\ grip'.start.height >= ContentHeight,
         what # "page" => grip' = grip,
         what = "marquee" <=> anchor' # None
  PROVE  Inv'
<1>1. held = None /\ held' = what /\ held' # None /\ history' = history /\ template' = template
  BY NoneAssumption DEF Pressed, template
<1>2. HistoryInv'
  BY <1>1 DEF Pressed, Inv, HistoryInv
<1>3. ViewInv'
  <2>1. gesture' \in [from : Nat, cut : Nat \cup {None}]
    BY DEF Pressed, Inv, HistoryInv
  <2> QED BY <1>1, <2>1 DEF Pressed, ViewInv
<1>4. grip = None
  BY <1>1, NoneAssumption DEF Inv, HeldInv
<1>5. HeldInv'
  BY <1>1, <1>4 DEF HeldInv, Pressed
<1>6. StepInv'
  <2>1. gesture'.cut = None /\ Len(history'.past) <= GestureBase'
    BY <1>1 DEF Pressed, Inv, HistoryInv, GestureBase
  <2> QED BY <2>1 DEF StepInv
<1>7. OppositeCornerStays'
  BY <1>1 DEF OppositeCornerStays
<1> QED BY <1>2, <1>3, <1>5, <1>6, <1>7 DEF Inv

\* An element is pressed (handlePointerDown).
LEMMA PressElementKeepsInv ==
  ASSUME Inv, NEW e \in Elements(template), PressElement(e)
  PROVE  Inv'
<1>1. template \in WellFormed /\ selected \in Seq(Ids) /\ IsInjective(selected)
  BY DEF Inv, HistoryInv, ViewInv
<1>2. e \in AnyElement /\ e.id \in IdsOf(template)
  BY <1>1, ElementsAre
<1>3. e.id \in Ids /\ e.rect.x \in Int /\ e.rect.y \in Int
  BY <1>2 DEF AnyElement, AnyRect
<1>4. selected' \in Seq(Ids) /\ IsInjective(selected')
  BY <1>1, <1>3, SelectedOnce DEF PressElement
<1>5. PICK d : d = [id |-> e.id, start |-> [x |-> e.rect.x, y |-> e.rect.y]]
  OBVIOUS
<1>6. d \in [id : Ids, start : AnyPoint] /\ d.id = e.id
  BY <1>3, <1>5 DEF AnyPoint
<1>7. /\ Pressed("drag") /\ drag' = d /\ resize' = resize /\ grip' = grip /\ anchor' = anchor
      /\ held = None /\ anchor = None
  BY <1>5, NoneAssumption DEF PressElement, Pressed, Inv, HeldInv
<1> QED BY <1>2, <1>4, <1>6, <1>7, NoneAssumption, PressesKeepInv DEF Inv, ViewInv

\* A handle is pressed (handleResizeDown).
LEMMA PressHandleKeepsInv ==
  ASSUME Inv, NEW handle \in Handles, PressHandle(handle)
  PROVE  Inv'
<1>1. template \in WellFormed /\ SoleId \in IdsOf(template)
  <2>1. PICK e \in Elements(template) : SoleId = e.id
    BY DEF PressHandle, Shown
  <2> QED BY <2>1, ElementsAre DEF Inv, HistoryInv
<1>2. PICK q : q = ElementOf(template, SoleId)
  OBVIOUS
<1>3. q \in AnyElement /\ SoleId \in Ids /\ q.rect \in AnyRect
  BY <1>1, <1>2, ElementsAre DEF AnyElement
<1>4. PICK r : r = [id |-> SoleId, handle |-> handle, start |-> q.rect]
  OBVIOUS
<1>5. r \in [id : Ids, handle : Handles, start : AnyRect] /\ r.id = SoleId /\ r.start = q.rect
  BY <1>3, <1>4
<1>6. /\ Pressed("resize") /\ resize' = r /\ drag' = drag /\ grip' = grip /\ anchor' = anchor
      /\ held = None /\ anchor = None /\ selected' = selected
  BY <1>2, <1>4, NoneAssumption DEF PressHandle, Pressed, Inv, HeldInv
<1> QED BY <1>1, <1>2, <1>5, <1>6, NoneAssumption, PressesKeepInv DEF Inv, ViewInv

\* The grip of the page is pressed: it starts as high as it is drawn (handlePageResizeDown).
LEMMA PressGripKeepsInv ==
  ASSUME Inv, NEW g \in Grips, PressGrip(g)
  PROVE  Inv'
<1>1. PICK now : now = template.page
  OBVIOUS
<1>2. now \in Pages
  BY <1>1 DEF Inv, HistoryInv, WellFormed, Templates
<1>3. PICK size : size = [now EXCEPT !.height = Larger(@, ContentHeight)]
  OBVIOUS
<1>4. size \in Pages /\ size.height >= ContentHeight
  BY <1>2, <1>3, BandsAreStacked DEF Pages, Larger
<1>5. PICK r : r = [grip |-> g, start |-> size]
  OBVIOUS
<1>6. r \in [grip : Grips, start : Pages] /\ r.start = size
  BY <1>4, <1>5
<1>7. /\ Pressed("page") /\ grip' = r /\ drag' = drag /\ resize' = resize /\ anchor' = anchor
      /\ held = None /\ anchor = None /\ selected' = selected
  BY <1>1, <1>3, <1>5, NoneAssumption DEF PressGrip, Pressed, Inv, HeldInv
<1> QED BY <1>4, <1>6, <1>7, NoneAssumption, PressesKeepInv DEF Inv, ViewInv

\* The page is pressed (handlePagePointerDown).
LEMMA PressPageKeepsInv ==
  ASSUME Inv, NEW p \in Points, PressPage(p)
  PROVE  Inv'
<1>1. PICK a : a = [from |-> p, at |-> p, moved |-> FALSE]
  OBVIOUS
<1>2. a \in [from : AnyPoint, at : AnyPoint, moved : BOOLEAN]
  BY <1>1, CanvasAssumption
<1>3. /\ Pressed("marquee") /\ anchor' = a /\ drag' = drag /\ resize' = resize /\ grip' = grip
      /\ selected' = selected
  BY <1>1 DEF PressPage
<1> QED BY <1>2, <1>3, NoneAssumption, PressesKeepInv DEF Inv, ViewInv

\* A press with a modifier selects and begins no gesture.
LEMMA ToggleKeepsInv ==
  ASSUME Inv, NEW e \in Elements(template), ToggleElement(e)
  PROVE  Inv'
<1>1. template \in WellFormed /\ selected \in Seq(Ids) /\ IsInjective(selected)
  BY DEF Inv, HistoryInv, ViewInv
<1>2. e.id \in Ids
  BY <1>1, ElementsAre DEF AnyElement
<1>3. selected' \in Seq(Ids) /\ IsInjective(selected')
  BY <1>1, <1>2, SelectedOnce DEF ToggleElement
<1>4. held = None /\ held' = None /\ template' = template
  BY DEF ToggleElement, template
<1>5. HistoryInv'
  BY <1>4 DEF ToggleElement, Inv, HistoryInv
<1>6. ViewInv'
  BY <1>3, <1>4 DEF ToggleElement, Inv, ViewInv
<1>7. HeldInv'
  BY <1>4, NoneAssumption DEF ToggleElement, Inv, HeldInv
<1>8. StepInv' /\ OppositeCornerStays'
  BY <1>4, NoneAssumption DEF ToggleElement, Inv, StepInv, OppositeCornerStays
<1> QED BY <1>5, <1>6, <1>7, <1>8 DEF Inv

\* The button is released.
LEMMA ReleasesKeepInv ==
  ASSUME Inv, Released, selected' \in Seq(Ids), IsInjective(selected'),
         drag' \in {None, drag}, resize' \in {None, resize}, grip' \in {None, grip}, anchor' \in {None, anchor},
         held = "page" => grip' = None, held = "marquee" => anchor' = None
  PROVE  Inv'
<1>1. held' = None /\ template' = template /\ gesture' = [from |-> 0, cut |-> None]
  BY DEF Released, NoGesture, template
<1>2. HistoryInv'
  BY <1>1 DEF Released, Inv, HistoryInv
<1>3. ViewInv'
  BY <1>1 DEF Released, Inv, ViewInv
<1>4. grip' = None /\ anchor' = None
  BY DEF Inv, HeldInv
<1>5. HeldInv'
  BY <1>1, <1>4, NoneAssumption DEF HeldInv
<1>6. StepInv' /\ OppositeCornerStays'
  BY <1>1, NoneAssumption DEF StepInv, OppositeCornerStays
<1> QED BY <1>2, <1>3, <1>5, <1>6 DEF Inv

\* Whatever the button is released over.
LEMMA AllReleasesKeepInv ==
  ASSUME Inv, ReleaseElement \/ ReleaseHandle \/ ReleaseGrip \/ ReleasePage
  PROVE  Inv'
<1>1. selected \in Seq(Ids) /\ IsInjective(selected) /\ template \in WellFormed
  BY DEF Inv, ViewInv, HistoryInv
<1>2. CASE ReleaseElement
  <2>1. held \in {"drag", "lost"}
    BY <1>2 DEF ReleaseElement
  <2> QED BY <1>1, <1>2, <2>1, ReleasesKeepInv DEF ReleaseElement
<1>3. CASE ReleaseHandle
  BY <1>1, <1>3, ReleasesKeepInv DEF ReleaseHandle
<1>4. CASE ReleaseGrip
  BY <1>1, <1>4, ReleasesKeepInv DEF ReleaseGrip
<1>5. CASE ReleasePage
  <2>1. CASE held = "marquee" /\ anchor' = None /\ UNCHANGED <<drag, resize, grip>>
             /\ selected' = IF anchor.moved THEN MarqueeSelect(MarqueeRect(anchor.from, anchor.at)) ELSE <<>>
    <3>1. selected' \in Seq(Ids) /\ IsInjective(selected')
      BY <1>1, <2>1, NoId, MarqueeOnce
    <3> QED BY <1>5, <2>1, <3>1, ReleasesKeepInv DEF ReleasePage
  <2>2. CASE held = "lost" /\ UNCHANGED <<selected, refs>>
    BY <1>1, <1>5, <2>2, ReleasesKeepInv DEF ReleasePage, refs
  <2> QED BY <1>5, <2>1, <2>2 DEF ReleasePage
<1> QED BY <1>2, <1>3, <1>4, <1>5

\* The marquee follows the pointer.
LEMMA MarqueeMoveKeepsInv ==
  ASSUME Inv, NEW p \in Points, MarqueeMove(p)
  PROVE  Inv'
<1>1. held = "marquee" /\ held' = held /\ template' = template
  BY DEF MarqueeMove, template
<1>2. PICK a : a = anchor
  OBVIOUS
<1>3. a \in [from : AnyPoint, at : AnyPoint, moved : BOOLEAN]
  BY <1>1, <1>2 DEF Inv, HeldInv, ViewInv
<1>4. PICK b : b = [a EXCEPT !.at = p, !.moved = TRUE]
  OBVIOUS
<1>5. b \in [from : AnyPoint, at : AnyPoint, moved : BOOLEAN] /\ b # None
  BY <1>3, <1>4, CanvasAssumption, NoneAssumption
<1>6. anchor' = b
  BY <1>2, <1>4 DEF MarqueeMove
<1>7. HistoryInv' /\ ViewInv'
  BY <1>1, <1>5, <1>6 DEF MarqueeMove, Inv, HistoryInv, ViewInv
<1>8. HeldInv'
  BY <1>1, <1>5, <1>6 DEF MarqueeMove, Inv, HeldInv
<1>9. StepInv' /\ OppositeCornerStays'
  BY <1>1 DEF MarqueeMove, Inv, StepInv, GestureBase, OppositeCornerStays
<1> QED BY <1>7, <1>8, <1>9 DEF Inv

\* A move of a gesture, or a letter typed, goes into the step of its tag (record).
LEMMA TaggedSteps ==
  ASSUME Inv, NEW t \in WellFormed, NEW tag, Commit(t, tag), tag # None,
         IdsOf(t) = IdsOf(template),
         selected' = selected, held' = held, refs' = refs, gesture' = gesture,
         editing' = editing \/ editing' = None,
         held # "marquee", held # None => tag = GestureTag,
         OppositeCornerStays'
  PROVE  Inv'
<1>1. /\ HistoryInv' /\ template' = t /\ history'.tag = tag
      /\ Len(history.past) \in Nat /\ Len(history'.past) \in {Len(history.past), Len(history.past) + 1}
      /\ tag = history.tag => history'.past = history.past
  BY Commits DEF Inv
<1>2. drag' = drag /\ resize' = resize /\ grip' = grip /\ anchor' = anchor
  BY DEF refs
<1>3. ViewInv'
  BY <1>2 DEF Inv, ViewInv
<1>4. HeldInv'
  BY <1>1, <1>2 DEF Inv, HeldInv
<1>5. StepInv'
  <2>1. GestureTag' = tag \/ held = None
    BY <1>2 DEF GestureTag
  <2>2. GestureBase \in Nat /\ GestureBase' = GestureBase
    BY DEF Inv, ViewInv, GestureBase
  <2>3. ASSUME held # None
        PROVE  \/ Len(history'.past) <= GestureBase
               \/ Len(history'.past) = GestureBase + 1 /\ history'.tag = GestureTag'
    <3>1. CASE Len(history.past) <= GestureBase
      BY <1>1, <2>1, <2>2, <2>3, <3>1
    <3>2. CASE Len(history.past) = GestureBase + 1 /\ history.tag = tag
      BY <1>1, <2>1, <2>3, <3>2
    <3> QED BY <2>3, <3>1, <3>2 DEF Inv, StepInv
  <2>4. held' # "marquee"
    OBVIOUS
  <2> QED BY <2>2, <2>3, <2>4 DEF Inv, StepInv
<1> QED BY <1>1, <1>3, <1>4, <1>5 DEF Inv

\* A move of a drag, of any pointer, moves one element, onto the page (handlePointerMove).
LEMMA DragMoves ==
  ASSUME Inv, NEW d \in Deltas, DragMove(d)
  PROVE  \E t \in WellFormed :
           /\ Commit(t, <<"move", drag.id>>) /\ IdsOf(t) = IdsOf(template) /\ t.page = template.page
           /\ \A id \in IdsOf(template) :
                OnPage(ElementOf(template, id).rect) => OnPage(ElementOf(t, id).rect)
<1>1. template \in WellFormed /\ template.settings \in Settings
  BY DEF Inv, HistoryInv, WellFormed, Templates
<1>2. drag \in [id : Ids, start : AnyPoint]
  BY DEF DragMove, Inv, ViewInv
<1>3. PICK id : id = drag.id
  OBVIOUS
<1>4. PICK q : q = ElementOf(template, id)
  OBVIOUS
<1>5. id \in IdsOf(template) => q \in AnyElement /\ q.id = id
  BY <1>1, <1>4, ElementsAre
<1>6. PICK at : at = DraggedPosition(drag.start, d, template.settings.grid, template.settings.snap)
  OBVIOUS
<1>7. at.x \in Nat /\ at.y \in Nat
  <2>1. /\ drag.start \in AnyPoint /\ d \in AnyPoint
        /\ template.settings.grid \in Int /\ template.settings.snap \in BOOLEAN
    BY <1>1, <1>2, CanvasAssumption DEF Settings
  <2>2. at \in [x : Nat, y : Nat]
    BY <1>6, <2>1, DragStaysOnPage
  <2> QED BY <2>2
<1>8. PICK e : e = [q EXCEPT !.rect.x = at.x, !.rect.y = at.y]
  OBVIOUS
<1>9. id \in IdsOf(template) => /\ e \in AnyElement /\ e.id = id /\ e.type = q.type
                                /\ e.rect.x = at.x /\ e.rect.y = at.y
                                /\ e.rect.w = q.rect.w /\ e.rect.h = q.rect.h
  <2>1. PICK x : x = at.x
    OBVIOUS
  <2>2. PICK y : y = at.y
    OBVIOUS
  <2>3. x \in Int /\ y \in Int /\ e = [q EXCEPT !.rect.x = x, !.rect.y = y]
    BY <1>7, <1>8, <2>1, <2>2
  <2> QED BY <1>5, <2>1, <2>2, <2>3 DEF AnyElement, AnyRect
<1>10. PICK t : t = Update(template, id, e)
  OBVIOUS
<1>11. /\ t \in WellFormed /\ IdsOf(t) = IdsOf(template) /\ t.page = template.page
       /\ \A other \in IdsOf(template) :
            ElementOf(t, other) = IF other = id THEN e ELSE ElementOf(template, other)
  BY <1>1, <1>4, <1>9, <1>10, Updated
<1>12. Commit(t, <<"move", drag.id>>)
  BY <1>3, <1>4, <1>6, <1>8, <1>10 DEF DragMove, HandleMove
<1>13. id \in IdsOf(template) /\ OnPage(q.rect) => OnPage(e.rect)
  BY <1>7, <1>9 DEF OnPage
<1> QED BY <1>4, <1>11, <1>12, <1>13

\* So a move of a drag keeps the invariant, whatever holds the pointer.
LEMMA DragMoveKeepsInv ==
  ASSUME Inv, NEW d \in Deltas, DragMove(d)
  PROVE  Inv'
<1>1. PICK t \in WellFormed : Commit(t, <<"move", drag.id>>) /\ IdsOf(t) = IdsOf(template)
  BY DragMoves
<1>2. drag \in [id : Ids, start : AnyPoint]
  BY DEF DragMove, Inv, ViewInv
<1>3. <<"move", drag.id>> # None
  BY <1>2, NoneAssumption
<1>4. held \in {None, "drag", "lost"} /\ held' = held
  BY DEF DragMove, Uncaptured
<1>5. held # "marquee" /\ held # "resize" /\ (held # None => <<"move", drag.id>> = GestureTag)
  BY <1>4, NoneAssumption DEF GestureTag
<1>6. OppositeCornerStays'
  BY <1>4, <1>5 DEF OppositeCornerStays
<1> QED BY <1>1, <1>3, <1>4, <1>5, <1>6, TaggedSteps DEF DragMove

\* A move of a resize changes one element, which keeps the corner opposite to the handle,
\* and stays on the page if it was (handleResizeMove).
LEMMA ResizeMoves ==
  ASSUME Inv, NEW d \in Deltas, ResizeMove(d)
  PROVE  \E t \in WellFormed :
           /\ Commit(t, <<"resize", resize.id>>) /\ IdsOf(t) = IdsOf(template) /\ t.page = template.page
           /\ held = "resize" => SameCorner(ElementOf(t, resize.id).rect, resize.start, resize.handle)
           /\ held = "resize" =>
                \A id \in IdsOf(template) :
                  OnPage(ElementOf(template, id).rect) => OnPage(ElementOf(t, id).rect)
<1>1. template \in WellFormed /\ template.settings \in Settings
  BY DEF Inv, HistoryInv, WellFormed, Templates
<1>2. resize \in [id : Ids, handle : Handles, start : AnyRect]
  BY DEF ResizeMove, Inv, ViewInv
<1>3. PICK id : id = resize.id
  OBVIOUS
<1>4. PICK q : q = ElementOf(template, id)
  OBVIOUS
<1>5. id \in IdsOf(template) => q \in AnyElement /\ q.id = id
  BY <1>1, <1>4, ElementsAre
<1>6. PICK r : r = ResizedRect(resize.start, resize.handle, d, template.settings.grid, template.settings.snap)
  OBVIOUS
<1>7. PICK start : start = resize.start
  OBVIOUS
<1>8. PICK handle : handle = resize.handle
  OBVIOUS
<1>9. /\ r \in AnyRect /\ SameCorner(r, start, handle)
      /\ CornerOnPage(start, handle) => OnPage(r)
  <2>1. /\ start \in AnyRect /\ handle \in Handles /\ d \in AnyPoint
        /\ template.settings.grid \in Int /\ template.settings.snap \in BOOLEAN
    BY <1>1, <1>2, <1>7, <1>8, CanvasAssumption DEF Settings
  <2> QED BY <1>6, <1>7, <1>8, <2>1, ResizeKeepsCorner
<1>10. PICK e : e = [q EXCEPT !.rect = r]
  OBVIOUS
<1>11. id \in IdsOf(template) => /\ e \in AnyElement /\ e.id = id /\ e.type = q.type /\ e.rect = r
  BY <1>5, <1>9, <1>10 DEF AnyElement
<1>12. PICK t : t = Update(template, id, e)
  OBVIOUS
<1>13. /\ t \in WellFormed /\ IdsOf(t) = IdsOf(template) /\ t.page = template.page
       /\ \A other \in IdsOf(template) :
            ElementOf(t, other) = IF other = id THEN e ELSE ElementOf(template, other)
  BY <1>1, <1>4, <1>11, <1>12, Updated
<1>14. Commit(t, <<"resize", resize.id>>)
  BY <1>3, <1>4, <1>6, <1>10, <1>12 DEF ResizeMove, HandleResize
<1>15. held = "resize" => id \in IdsOf(template) /\ SameCorner(q.rect, start, handle)
  BY <1>3, <1>4, <1>7, <1>8 DEF Inv, HeldInv, OppositeCornerStays, SameCorner
<1>16. held = "resize" => SameCorner(ElementOf(t, id).rect, start, handle)
  BY <1>9, <1>11, <1>13, <1>15
<1>17. held = "resize" /\ OnPage(q.rect) => CornerOnPage(start, handle)
  <2> SUFFICES ASSUME held = "resize", OnPage(q.rect)
               PROVE  CornerOnPage(start, handle)
    OBVIOUS
  <2>1. PICK x : x = q.rect
    OBVIOUS
  <2>2. x.x \in Nat /\ x.y \in Nat /\ x.w \in Nat /\ x.h \in Nat /\ SameCorner(x, start, handle)
    BY <1>15, <2>1 DEF OnPage
  <2>3. Right(x) >= 0 /\ Bottom(x) >= 0
    BY <2>2 DEF Right, Bottom
  <2> QED BY <2>2, <2>3 DEF SameCorner, CornerOnPage
<1>18. held = "resize" /\ OnPage(q.rect) => OnPage(e.rect)
  BY <1>9, <1>11, <1>15, <1>17
<1>19. held = "resize" =>
         \A other \in IdsOf(template) :
           OnPage(ElementOf(template, other).rect) => OnPage(ElementOf(t, other).rect)
  BY <1>4, <1>13, <1>18
<1> QED BY <1>3, <1>7, <1>8, <1>13, <1>14, <1>16, <1>19

\* So a move of a resize keeps the invariant.
LEMMA ResizeMoveKeepsInv ==
  ASSUME Inv, NEW d \in Deltas, ResizeMove(d)
  PROVE  Inv'
<1>1. PICK t \in WellFormed :
        /\ Commit(t, <<"resize", resize.id>>) /\ IdsOf(t) = IdsOf(template)
        /\ held = "resize" => SameCorner(ElementOf(t, resize.id).rect, resize.start, resize.handle)
  BY ResizeMoves
<1>2. resize \in [id : Ids, handle : Handles, start : AnyRect]
  BY DEF ResizeMove, Inv, ViewInv
<1>3. <<"resize", resize.id>> # None
  BY <1>2, NoneAssumption
<1>4. held # "lost"
  <2> SUFFICES ASSUME held = "lost" PROVE FALSE
    OBVIOUS
  <2>1. selected = <<>> /\ held # "resize" /\ Sole
    BY DEF Inv, HeldInv, ResizeMove
  <2>2. None \in IdsOf(template)
    BY <2>1 DEF Sole, SoleId
  <2>3. IdsOf(template) \subseteq Ids
    BY ElementsAre DEF Inv, HistoryInv, AnyElement
  <2> QED BY <2>2, <2>3, NoneAssumption
<1>5. held \in {None, "resize"} /\ held' = held /\ resize' = resize
  BY <1>4 DEF ResizeMove, Uncaptured, refs
<1>6. held # "marquee" /\ (held # None => <<"resize", resize.id>> = GestureTag)
  BY <1>5, NoneAssumption DEF GestureTag
<1>7. template' = t
  BY <1>1, Commits DEF Inv
<1>8. OppositeCornerStays'
  BY <1>1, <1>5, <1>7 DEF OppositeCornerStays, SameCorner
<1> QED BY <1>1, <1>3, <1>5, <1>6, <1>8, TaggedSteps DEF ResizeMove

\* A page that is resized is not made shorter than its bands (handlePageResizeMove).
LEMMA GripMoves ==
  ASSUME Inv, NEW d \in Deltas, GripMove(d)
  PROVE  \E t \in WellFormed : /\ Commit(t, <<"resize-page">>) /\ IdsOf(t) = IdsOf(template)
                               /\ t.page.height >= ContentHeight
<1>1. template \in WellFormed
  BY DEF Inv, HistoryInv
<1>2. grip \in [grip : Grips, start : Pages] /\ grip.start.height >= ContentHeight
  BY NoneAssumption DEF GripMove, Inv, HeldInv, ViewInv
<1>3. PICK min : min = [width |-> 1, height |-> ContentHeight]
  OBVIOUS
<1>4. PICK start : start = grip.start
  OBVIOUS
<1>5. PICK size : size = ResizedPageSize(start, d, grip.grip, min)
  OBVIOUS
<1>6. size \in Pages /\ size.height >= ContentHeight
  <2>1. start \in Pages /\ start.height >= ContentHeight
    BY <1>2, <1>4
  <2>2. d \in AnyPoint /\ ContentHeight \in Nat
    BY CanvasAssumption, BandsAreStacked
  <2>3. min.width = 1 /\ min.height = ContentHeight
    BY <1>3
  <2> QED BY <1>5, <2>1, <2>2, <2>3 DEF ResizedPageSize, Larger, Pages, AnyPoint
<1>7. PICK t : t = [template EXCEPT !.page = size]
  OBVIOUS
<1>8. t \in WellFormed /\ IdsOf(t) = IdsOf(template) /\ t.page = size
  BY <1>1, <1>6, <1>7, SetupKept
<1>9. Commit(t, <<"resize-page">>)
  BY <1>3, <1>4, <1>5, <1>7 DEF GripMove, HandleResizePage
<1> QED BY <1>6, <1>8, <1>9

\* So it keeps the invariant.
LEMMA GripMoveKeepsInv ==
  ASSUME Inv, NEW d \in Deltas, GripMove(d)
  PROVE  Inv'
<1>1. PICK t \in WellFormed : Commit(t, <<"resize-page">>) /\ IdsOf(t) = IdsOf(template)
  BY GripMoves
<1>2. held = "page" /\ held' = held
  BY DEF GripMove
<1>3. <<"resize-page">> = GestureTag /\ OppositeCornerStays'
  BY <1>2 DEF GestureTag, OppositeCornerStays
<1> QED BY <1>1, <1>2, <1>3, NoneAssumption, TaggedSteps DEF GripMove

\* The inline editor works on an element that is there, and only between gestures (Type,
\* Escape).
LEMMA EditorKeepsInv ==
  ASSUME Inv, (\E text \in Texts : Type(text)) \/ Escape
  PROVE  Inv'
<1>1. template \in WellFormed
  BY DEF Inv, HistoryInv
<1>2. editing # None /\ editing.id \in IdsOf(template) /\ held = None
  BY DEF Type, Escape, Inv, HeldInv
<1>3. PICK id : id = editing.id
  OBVIOUS
<1>4. id \in Ids /\ editing.original \in Writings
  BY <1>2, <1>3 DEF Inv, ViewInv
<1>5. PICK text \in Writings : HandleEditText(id, text)
  BY <1>3, <1>4 DEF Type, Escape, Writings
<1>6. PICK q : q = ElementOf(template, id)
  OBVIOUS
<1>7. q \in AnyElement /\ q.id = id
  BY <1>1, <1>2, <1>3, <1>6, ElementsAre
<1>8. PICK e : e = [q EXCEPT !.text = text]
  OBVIOUS
<1>9. e \in AnyElement /\ e.id = id /\ e.type = q.type
  BY <1>7, <1>8 DEF AnyElement
<1>10. PICK t : t = Update(template, id, e)
  OBVIOUS
<1>11. t \in WellFormed /\ IdsOf(t) = IdsOf(template)
  BY <1>1, <1>6, <1>9, <1>10, Updated
<1>12. Commit(t, <<"text", id>>)
  BY <1>5, <1>6, <1>8, <1>10 DEF HandleEditText
<1>13. <<"text", id>> # None
  BY <1>4, NoneAssumption
<1>14. /\ selected' = selected /\ held' = held /\ refs' = refs /\ gesture' = gesture
       /\ editing' = editing \/ editing' = None
  BY DEF Type, Escape
<1>15. held # "marquee" /\ OppositeCornerStays'
  BY <1>2, <1>14, NoneAssumption DEF OppositeCornerStays
<1> QED BY <1>2, <1>11, <1>12, <1>13, <1>14, <1>15, TaggedSteps

\* The editor is opened and closed.
LEMMA FocusKeepsInv ==
  ASSUME Inv, (\E e \in Elements(template) : BeginEdit(e)) \/ CloseEditor
  PROVE  Inv'
<1>1. /\ UNCHANGED <<history, selected, page, held, edits, gesture>> /\ held = None
      /\ drag' = drag /\ resize' = resize /\ grip' = grip /\ anchor' = anchor
  BY DEF BeginEdit, CloseEditor, refs, Inv, HeldInv
<1>2. editing' \in {None} \cup [id : Ids, original : Writings]
  <2>1. ASSUME NEW e \in Elements(template), BeginEdit(e)
        PROVE  editing' \in [id : Ids, original : Writings]
    <3>1. e \in AnyElement
      BY ElementsAre DEF Inv, HistoryInv
    <3> QED BY <2>1, <3>1 DEF BeginEdit, AnyElement
  <2> QED BY <2>1 DEF CloseEditor
<1>3. template' = template
  BY <1>1 DEF template
<1>4. HistoryInv' /\ ViewInv' /\ StepInv' /\ OppositeCornerStays'
  BY <1>1, <1>2, <1>3, NoneAssumption DEF Inv, HistoryInv, ViewInv, StepInv, OppositeCornerStays
<1>5. HeldInv'
  BY <1>1, <1>3, NoneAssumption DEF Inv, HeldInv
<1> QED BY <1>4, <1>5 DEF Inv

\* The selected elements are removed, even under the pressed button (handleDelete).
LEMMA DeleteKeepsInv ==
  ASSUME Inv, Delete
  PROVE  Inv'
<1>1. template \in WellFormed
  BY DEF Inv, HistoryInv
<1>2. PICK t : t = RemoveElements(template, Range(selected))
  OBVIOUS
<1>3. t \in WellFormed /\ Commit(t, None)
  BY <1>1, <1>2, Removed DEF Delete
<1>4. /\ HistoryInv' /\ history'.tag = None
      /\ Len(history.past) \in Nat /\ Len(history'.past) \in {Len(history.past), Len(history.past) + 1}
  BY <1>3, Commits DEF Inv
<1>5. /\ selected' = <<>> /\ editing' = None
      /\ drag' = drag /\ resize' = resize /\ grip' = grip /\ anchor' = anchor
      /\ held' = IF held \in {"drag", "resize"} THEN "lost" ELSE held
      /\ gesture' = [gesture EXCEPT !.cut = IF held = None THEN None ELSE Len(history.past) + 1]
      /\ gesture \in [from : Nat, cut : Nat \cup {None}] /\ selected # <<>>
  BY DEF Delete, refs, Inv, ViewInv
<1>6. held' # "drag" /\ held' # "resize" /\ (held' = None <=> held = None)
  BY <1>5, NoneAssumption
<1>7. ViewInv'
  BY <1>4, <1>5, NoId DEF Inv, ViewInv
<1>8. HeldInv'
  BY <1>5, <1>6, NoneAssumption DEF Inv, HeldInv
<1>9. StepInv'
  <2>1. gesture.cut = None
    BY <1>5 DEF Inv, StepInv
  <2>2. CASE held = None
    BY <1>5, <1>6, <2>2 DEF StepInv
  <2>3. CASE held # None
    <3>1. gesture'.cut = Len(history.past) + 1 /\ gesture'.from = gesture.from
      BY <1>5, <2>3
    <3>2. Len(history.past) <= gesture.from + 1
      BY <1>4, <1>5, <2>1, <2>3 DEF Inv, StepInv, GestureBase
    <3>3. GestureBase' = Len(history.past) + 1
      BY <1>4, <3>1, NoneAssumption DEF GestureBase
    <3> QED BY <1>4, <1>5, <1>6, <2>3, <3>1, <3>2, <3>3 DEF StepInv
  <2> QED BY <2>2, <2>3
<1>10. OppositeCornerStays'
  BY <1>6 DEF OppositeCornerStays
<1> QED BY <1>4, <1>7, <1>8, <1>9, <1>10 DEF Inv

-----------------------------------------------------------------------------
(***************************************************************************)
(* The theorems.                                                           *)
(***************************************************************************)

\* The sample is well-formed, and nothing is held.
LEMMA InitInv == Init => Inv
<1> SUFFICES ASSUME Init PROVE Inv
  OBVIOUS
<1>1. PICK h : h = history
  OBVIOUS
<1>2. h = [past |-> <<>>, present |-> Sample, future |-> <<>>, tag |-> None]
  BY <1>1 DEF Init
<1>3. h.past = <<>> /\ h.present = Sample /\ h.future = <<>> /\ h.tag = None
  BY <1>2
<1>4. template = Sample /\ Sample \in WellFormed
  BY <1>1, <1>3, CanvasAssumption DEF template, WellFormed, IdsAreUnique
<1>5. PageCount(template) \in Nat \ {0}
  BY <1>4, PagesAreCounted DEF WellFormed
<1>6. HistoryInv
  BY <1>1, <1>2, <1>3, <1>4, <1>5, CanvasAssumption DEF HistoryInv, Init
<1>7. ViewInv
  BY NoId DEF Init, ViewInv, NoGesture
<1>8. HeldInv /\ StepInv /\ OppositeCornerStays
  BY NoneAssumption DEF Init, HeldInv, StepInv, NoGesture, OppositeCornerStays
<1> QED BY <1>6, <1>7, <1>8 DEF Inv

\* Every step keeps the invariant.
LEMMA NextKeepsInv == Inv /\ [Next]_vars => Inv'
<1> SUFFICES ASSUME Inv, [Next]_vars PROVE Inv'
  OBVIOUS
<1>1. CASE ElementPointer
  <2>1. ASSUME NEW e \in Elements(template), PressElement(e) \/ ToggleElement(e) \/ BeginEdit(e)
        PROVE  Inv'
    BY <2>1, PressElementKeepsInv, ToggleKeepsInv, FocusKeepsInv
  <2>2. ASSUME NEW d \in Deltas, DragMove(d) \/ ResizeMove(d) PROVE Inv'
    BY <2>2, DragMoveKeepsInv, ResizeMoveKeepsInv
  <2>3. ASSUME NEW handle \in Handles, PressHandle(handle) PROVE Inv'
    BY <2>3, PressHandleKeepsInv
  <2> QED BY <1>1, <2>1, <2>2, <2>3, AllReleasesKeepInv DEF ElementPointer
<1>2. CASE PagePointer
  <2>1. ASSUME NEW g \in Grips, PressGrip(g) PROVE Inv'
    BY <2>1, PressGripKeepsInv
  <2>2. ASSUME NEW d \in Deltas, GripMove(d) PROVE Inv'
    BY <2>2, GripMoveKeepsInv
  <2>3. ASSUME NEW p \in Points, PressPage(p) \/ MarqueeMove(p) PROVE Inv'
    BY <2>3, PressPageKeepsInv, MarqueeMoveKeepsInv
  <2>4. ASSUME NEW type \in Types, NEW k \in Kinds, NEW p \in Points, Drop(type, k, p) PROVE Inv'
    BY <2>4, DropKeepsInv
  <2> QED BY <1>2, <2>1, <2>2, <2>3, <2>4, AllReleasesKeepInv DEF PagePointer
<1>3. CASE InlineEditor
  BY <1>3, EditorKeepsInv, FocusKeepsInv DEF InlineEditor
<1>4. CASE Toolbar
  BY <1>4, UndoKeepsInv, RedoKeepsInv, SetupKeepsInv, DeleteKeepsInv, ToolsKeepInv DEF Toolbar
<1>5. CASE Panels
  BY <1>5, InsertKeepsInv, FieldsKeepInv, SetupKeepsInv DEF Panels
<1>6. CASE UNCHANGED vars
  <2>1. /\ UNCHANGED <<history, selected, page, held, editing, edits, gesture>>
        /\ drag' = drag /\ resize' = resize /\ grip' = grip /\ anchor' = anchor
    BY <1>6 DEF vars, refs
  <2>2. template' = template
    BY <2>1 DEF template
  <2>3. HistoryInv' /\ ViewInv' /\ HeldInv'
    BY <2>1, <2>2 DEF Inv, HistoryInv, ViewInv, HeldInv
  <2>4. StepInv' /\ OppositeCornerStays'
    BY <2>1, <2>2 DEF Inv, StepInv, GestureTag, GestureBase, OppositeCornerStays
  <2> QED BY <2>3, <2>4 DEF Inv
<1> QED BY <1>1, <1>2, <1>3, <1>4, <1>5, <1>6 DEF Next

\* The invariant holds of every behaviour.
LEMMA InvHolds == Spec => []Inv
<1>1. Init => Inv
  BY InitInv
<1>2. Inv /\ [Next]_vars => Inv'
  BY NextKeepsInv
<1> QED BY <1>1, <1>2, PTL DEF Spec

\* Whatever is drawn, dragged, resized, edited, deleted, undone and redone, no two elements
\* of a template of the history share an id, no element is selected twice and the page in
\* view exists.
THEOREM TypeOKHolds == Spec => []TypeOK
<1>1. Inv => TypeOK
  <2> SUFFICES ASSUME Inv PROVE TypeOK
    OBVIOUS
  <2>1. PICK past : past = history.past
    OBVIOUS
  <2>2. PICK future : future = history.future
    OBVIOUS
  <2>3. PICK now : now = template
    OBVIOUS
  <2>4. past \in Seq(WellFormed) /\ future \in Seq(WellFormed) /\ <<now>> \in Seq(WellFormed)
    BY <2>1, <2>2, <2>3 DEF Inv, HistoryInv
  <2>5. PICK earlier : earlier = past \o <<now>>
    OBVIOUS
  <2>6. earlier \in Seq(WellFormed)
    BY <2>4, <2>5, ConcatProperties
  <2>7. PICK line : line = earlier \o future
    OBVIOUS
  <2>8. line \in Seq(WellFormed)
    BY <2>4, <2>6, <2>7, ConcatProperties
  <2>9. Timeline = line
    BY <2>1, <2>2, <2>3, <2>5, <2>7 DEF Timeline
  <2>10. \A i \in DOMAIN line : line[i] \in WellFormed
    BY ONLY <2>8
  <2>11. \A i \in DOMAIN Timeline : Timeline[i] \in Templates /\ IdsAreUnique(Timeline[i])
    BY <2>9, <2>10 DEF WellFormed
  <2> QED BY <2>11 DEF Inv, HistoryInv, ViewInv, HeldInv, TypeOK
<1> QED BY <1>1, InvHolds, PTL

\* The moves of a gesture are one undo step, unless something is deleted under the pressed
\* button: then they are one before and one after the step of the deletion, also when a
\* drag or a resize that was lost that way is left over.
THEOREM GestureIsOneStepHolds == Spec => []GestureIsOneStep
<1>1. Inv => GestureIsOneStep
  <2> SUFFICES ASSUME Inv, held # None
               PROVE  IF gesture.cut = None THEN Len(history.past) <= gesture.from + 1
                      ELSE /\ gesture.cut <= gesture.from + 2
                           /\ Len(history.past) <= gesture.cut + 1
    BY DEF GestureIsOneStep
  <2>1. Len(history.past) \in Nat /\ gesture \in [from : Nat, cut : Nat \cup {None}]
    BY DEF Inv, HistoryInv, ViewInv
  <2>2. Len(history.past) <= GestureBase + 1
    BY <2>1 DEF Inv, StepInv, GestureBase
  <2> QED BY <2>1, <2>2 DEF Inv, StepInv, GestureBase
<1> QED BY <1>1, InvHolds, PTL

\* For any grid and any movements of the pointer, the corner opposite to the handle stays.
THEOREM OppositeCornerStaysHolds == Spec => []OppositeCornerStays
<1>1. Inv => OppositeCornerStays
  BY DEF Inv
<1> QED BY <1>1, InvHolds, PTL

\* A drag or a resize, for any grid and movement, never takes an element that is on the page
\* off it or turns it inside out, and a page that is dragged is not made shorter than its
\* bands; nor does anything else that happens while the button is held.
THEOREM GesturesStayOnPageHolds == Spec => GesturesStayOnPage
<1>1. ASSUME Inv, Next, held' = held, held \in {"drag", "resize"},
             NEW id \in IdsOf(template), OnPage(ElementOf(template, id).rect)
      PROVE  OnPage(ElementOf(template', id).rect)
  <2>1. held # None /\ editing = None
    BY <1>1, NoneAssumption DEF Inv, HeldInv
  <2>2. \E d \in Deltas : (held = "drag" /\ DragMove(d)) \/ (held = "resize" /\ ResizeMove(d))
    <3>1. CASE ElementPointer
      BY <1>1, <2>1, <3>1 DEF ElementPointer, PressElement, ToggleElement, BeginEdit, PressHandle, Pressed,
         ReleaseElement, ReleaseHandle, Released, DragMove, ResizeMove, Uncaptured
    <3>2. CASE PagePointer
      BY <1>1, <2>1, <3>2 DEF PagePointer, PressGrip, GripMove, PressPage, Pressed, MarqueeMove, Drop, Elsewhere,
         ReleaseGrip, ReleasePage, Released
    <3>3. CASE InlineEditor
      BY <2>1, <3>3 DEF InlineEditor, Type, Escape, CloseEditor
    <3>4. CASE Toolbar
      <4>1. ~Elsewhere
        BY <2>1 DEF Elsewhere
      <4>2. ~Delete
        BY <1>1 DEF Delete
      <4> QED BY <3>4, <4>1, <4>2 DEF Toolbar, Undo, Redo, TurnPage, SetSettings, Align, Distribute, Arrange
    <3>5. CASE Panels
      <4>1. ~Elsewhere
        BY <2>1 DEF Elsewhere
      <4> QED BY <3>5, <4>1 DEF Panels, Insert, EditRect, EditText, Orient
    <3> QED BY <1>1, <3>1, <3>2, <3>3, <3>4, <3>5 DEF Next
  <2>3. ASSUME NEW d \in Deltas, DragMove(d) PROVE OnPage(ElementOf(template', id).rect)
    <3>1. PICK t \in WellFormed :
            /\ Commit(t, <<"move", drag.id>>)
            /\ \A i \in IdsOf(template) : OnPage(ElementOf(template, i).rect) => OnPage(ElementOf(t, i).rect)
      BY <1>1, <2>3, DragMoves
    <3>2. template' = t
      BY <1>1, <3>1, Commits DEF Inv
    <3> QED BY <1>1, <3>1, <3>2
  <2>4. ASSUME NEW d \in Deltas, held = "resize", ResizeMove(d) PROVE OnPage(ElementOf(template', id).rect)
    <3>1. PICK t \in WellFormed :
            /\ Commit(t, <<"resize", resize.id>>)
            /\ held = "resize" => \A i \in IdsOf(template) :
                 OnPage(ElementOf(template, i).rect) => OnPage(ElementOf(t, i).rect)
      BY <1>1, <2>4, ResizeMoves
    <3>2. template' = t
      BY <1>1, <3>1, Commits DEF Inv
    <3> QED BY <1>1, <2>4, <3>1, <3>2
  <2> QED BY <2>2, <2>3, <2>4
<1>2. ASSUME Inv, Next, held = "page", template'.page # template.page
      PROVE  template'.page.height >= ContentHeight
  <2>1. held # None /\ editing = None
    BY <1>2, NoneAssumption DEF Inv, HeldInv
  <2>2. ~Delete
    <3> SUFFICES ASSUME Delete PROVE FALSE
      OBVIOUS
    <3>1. PICK t : t = RemoveElements(template, Range(selected))
      OBVIOUS
    <3>2. t \in WellFormed /\ Commit(t, None)
      BY <1>2, <3>1, Removed DEF Delete, Inv, HistoryInv
    <3>3. template' = t
      BY <1>2, <3>2, Commits DEF Inv
    <3>4. t.page = template.page
      BY <1>2, <3>1 DEF RemoveElements, Inv, HistoryInv, WellFormed, Templates
    <3> QED BY <1>2, <3>3, <3>4
  <2>3. history' # history
    BY <1>2 DEF template
  <2>4. \E d \in Deltas : GripMove(d)
    <3>1. CASE ElementPointer
      BY <1>2, <2>1, <2>3, <3>1 DEF ElementPointer, PressElement, ToggleElement, BeginEdit, PressHandle, Pressed,
         ReleaseElement, ReleaseHandle, Released, DragMove, ResizeMove, Uncaptured
    <3>2. CASE PagePointer
      BY <1>2, <2>1, <2>3, <3>2 DEF PagePointer, PressGrip, PressPage, Pressed, MarqueeMove, Drop, Elsewhere,
         ReleaseGrip, ReleasePage, Released
    <3>3. CASE InlineEditor
      BY <2>1, <3>3 DEF InlineEditor, Type, Escape, CloseEditor
    <3>4. CASE Toolbar
      <4>1. ~Elsewhere
        BY <2>1 DEF Elsewhere
      <4> QED BY <2>2, <3>4, <4>1 DEF Toolbar, Undo, Redo, TurnPage, SetSettings, Align, Distribute, Arrange
    <3>5. CASE Panels
      <4>1. ~Elsewhere
        BY <2>1 DEF Elsewhere
      <4> QED BY <3>5, <4>1 DEF Panels, Insert, EditRect, EditText, Orient
    <3> QED BY <1>2, <3>1, <3>2, <3>3, <3>4, <3>5 DEF Next
  <2>5. PICK d \in Deltas : GripMove(d)
    BY <2>4
  <2>6. PICK t \in WellFormed : Commit(t, <<"resize-page">>) /\ t.page.height >= ContentHeight
    BY <1>2, <2>5, GripMoves
  <2>7. template' = t
    BY <1>2, <2>6, Commits DEF Inv
  <2> QED BY <2>6, <2>7
<1>3. Inv /\ [Next]_vars =>
        [/\ held' = held /\ held \in {"drag", "resize"} =>
              \A id \in IdsOf(template) :
                OnPage(ElementOf(template, id).rect) => OnPage(ElementOf(template', id).rect)
         /\ held = "page" /\ template'.page # template.page =>
              template'.page.height >= ContentHeight]_vars
  BY <1>1, <1>2
<1> QED BY <1>3, InvHolds, PTL DEF Spec, GesturesStayOnPage

-----------------------------------------------------------------------------
(***************************************************************************)
(* What the tools do.                                                      *)
(***************************************************************************)

\* s names the things of d by S; what l, e and p say of them, L, E and P say of their names.
Named(d, l, e, p, S, L, E, P, s) ==
  /\ \A i \in d : s[i] \in S
  /\ \A x \in S : \E i \in d : s[i] = x
  /\ \A i, j \in d : s[i] = s[j] => i = j
  /\ \A i \in d : L[s[i]] = l[i] /\ E[s[i]] = e[i] /\ P[s[i]] = p[i]

\* What is spread evenly is so under other names.
LEMMA SpreadRenamed ==
  ASSUME NEW d, NEW n, NEW l, NEW e, NEW p, Spread(d, n, l, e, p),
         NEW S, NEW L, NEW E, NEW P, NEW s, Named(d, l, e, p, S, L, E, P, s)
  PROVE  Spread(S, n, L, E, P)
<1> USE DEF Named
<1>1. \E x \in S : (\A y \in S : L[x] <= L[y]) /\ P[x] = L[x]
  <2>1. PICK i \in d : (\A j \in d : l[i] <= l[j]) /\ p[i] = l[i]
    BY DEF Spread
  <2>2. \A y \in S : L[s[i]] <= L[y]
    BY <2>1
  <2> QED BY <2>1, <2>2
<1>2. ASSUME NEW x \in S, \A y \in S \ {x} : L[y] < L[x]
      PROVE  Distance(P[x], L[x]) < n - 1
  <2>1. PICK i \in d : s[i] = x
    OBVIOUS
  <2>2. \A j \in d \ {i} : l[j] < l[i]
    BY <1>2, <2>1
  <2>3. Distance(p[i], l[i]) < n - 1
    BY <2>2 DEF Spread
  <2> QED BY <2>1, <2>3
<1>3. \E last \in S, gap \in Int :
        /\ \A y \in S \ {last} : \E z \in S \ {y} : P[z] - P[y] - E[y] = gap
        /\ gap >= 0 /\ (\A y \in S : E[y] > 0) =>
             \A y, z \in S : L[y] < L[z] => P[y] < P[z]
  <2>1. PICK last \in d, gap \in Int :
          /\ \A j \in d \ {last} : \E k \in d \ {j} : p[k] - p[j] - e[j] = gap
          /\ gap >= 0 /\ (\A j \in d : e[j] > 0) =>
               \A j, k \in d : l[j] < l[k] => p[j] < p[k]
    BY DEF Spread
  <2>2. s[last] \in S
    OBVIOUS
  <2>3. ASSUME NEW y \in S \ {s[last]}
        PROVE  \E z \in S \ {y} : P[z] - P[y] - E[y] = gap
    <3>1. PICK j \in d : s[j] = y
      OBVIOUS
    <3>2. j # last
      BY <3>1
    <3>3. PICK k \in d \ {j} : p[k] - p[j] - e[j] = gap
      BY <2>1, <3>2
    <3>4. s[k] \in S \ {y}
      BY <3>1, <3>3
    <3>5. P[s[k]] = p[k] /\ P[y] = p[j] /\ E[y] = e[j]
      BY <3>1, <3>3
    <3> QED BY <3>3, <3>4, <3>5
  <2>4. ASSUME gap >= 0, \A y \in S : E[y] > 0, NEW y \in S, NEW z \in S, L[y] < L[z]
        PROVE  P[y] < P[z]
    <3>1. PICK j \in d : s[j] = y
      OBVIOUS
    <3>2. PICK k \in d : s[k] = z
      OBVIOUS
    <3>3. \A i \in d : e[i] > 0
      BY <2>4
    <3>4. l[j] < l[k]
      BY <2>4, <3>1, <3>2
    <3>5. p[j] < p[k]
      BY <2>1, <2>4, <3>3, <3>4
    <3> QED BY <3>1, <3>2, <3>5
  <2> QED BY <2>2, <2>3, <2>4
<1> QED BY <1>1, <1>2, <1>3 DEF Spread

\* A distribution spreads the selection evenly (distributeRects).
LEMMA DistributeHolds == Inv => DistributeSpreads
<1> SUFFICES ASSUME Inv, NEW axis \in Axes, Distribute(axis),
                    Cardinality(Range(selected) \cap IdsOf(template)) >= 3
             PROVE  LET ids        == Range(selected) \cap IdsOf(template)
                        From(t, id) == Lead(ElementOf(t, id).rect, axis)
                        Span(id)   == Extent(ElementOf(template, id).rect, axis)
                        IsFirst(id) == \A j \in ids : From(template, id) <= From(template, j)
                        IsLast(id)  == \A j \in ids \ {id} : From(template, j) < From(template, id)
                        Space(j, k) == From(template', k) - From(template', j) - Span(j)
                        Followed(gap) == {j \in ids : \E k \in ids \ {j} : Space(j, k) = gap}
                    IN  /\ \E id \in ids : IsFirst(id) /\ From(template', id) = From(template, id)
                        /\ \A id \in ids :
                             IsLast(id) => Distance(From(template', id), From(template, id)) < Cardinality(ids) - 1
                        /\ \E a, b \in ids :
                             /\ a # b /\ Cardinality(Followed(Space(a, b))) >= Cardinality(ids) - 1
                             /\ Space(a, b) >= 0 /\ (\A j \in ids : Span(j) > 0) =>
                                  \A j, k \in ids : From(template, j) < From(template, k)
                                                      => From(template', j) < From(template', k)
  BY DEF DistributeSpreads
<1>1. PICK ids : ids = Arranged
  OBVIOUS
<1>2. PICK was : was = RectsOf(Arranged)
  OBVIOUS
<1>3. PICK now : now = DistributeRects(was, axis)
  OBVIOUS
<1>4. Rearranged(ids, was, now)
  <2>1. Arrange(DistributeRects(RectsOf(Arranged), axis)) /\ Arranged # <<>>
    BY DEF Distribute, Arrange
  <2>2. \A i \in DOMAIN Arranged : DistributeRects(RectsOf(Arranged), axis)[i] \in AnyRect
    BY <2>1, ArrangedAreThere, DistributedRects
  <2>3. Rearranged(Arranged, RectsOf(Arranged), DistributeRects(RectsOf(Arranged), axis))
    BY <2>1, <2>2, ArrangeMovesSelection
  <2> QED BY <1>1, <1>2, <1>3, <2>3
<1> DEFINE S == Range(selected) \cap IdsOf(template)
<1>5. Cardinality(S) >= 3
  OBVIOUS
<1> HIDE DEF S
<1>6. PICK n : n = Len(ids)
  OBVIOUS
<1>7. /\ n \in Nat /\ DOMAIN ids = 1 .. n /\ was \in Seq(AnyRect) /\ n = Len(was)
      /\ \A i \in 1 .. n : ids[i] \in S
      /\ \A id \in S : \E i \in 1 .. n : ids[i] = id
      /\ \A i, j \in 1 .. n : ids[i] = ids[j] => i = j
      /\ \A i \in 1 .. n : /\ ElementOf(template, ids[i]).rect = was[i]
                           /\ ElementOf(template', ids[i]).rect = now[i]
  <2>1. /\ ids \in Seq(Ids) /\ was \in Seq(AnyRect) /\ Len(was) = n
        /\ \A i, j \in DOMAIN ids : ids[i] = ids[j] => i = j
        /\ Range(ids) = S
        /\ \A i \in DOMAIN ids : /\ ElementOf(template, ids[i]).rect = was[i]
                                 /\ ElementOf(template', ids[i]).rect = now[i]
    BY <1>4, <1>6 DEF Rearranged, S
  <2>2. n \in Nat /\ DOMAIN ids = 1 .. n
    BY <1>6, <2>1
  <2>3. /\ \A i \in DOMAIN ids : ids[i] \in S
        /\ \A id \in S : \E i \in DOMAIN ids : ids[i] = id
    BY <2>1 DEF Range
  <2> QED BY <2>1, <2>2, <2>3
<1>8. IsFiniteSet(S) /\ Cardinality(S) = n /\ n >= 3
  <2>1. PICK d : d = 1 .. n
    OBVIOUS
  <2>2. PICK g : g = [i \in d |-> ids[i]]
    OBVIOUS
  <2>3. g \in Bijection(d, S)
    <3>1. g \in [d -> S] /\ (\A i, j \in d : g[i] = g[j] => i = j) /\ (\A id \in S : \E i \in d : g[i] = id)
      BY <1>7, <2>1, <2>2
    <3> QED BY <3>1 DEF Bijection, Injection, Surjection, IsInjective
  <2>4. IsFiniteSet(d) /\ Cardinality(d) = n
    <3>1. n \in Nat
      BY <1>7
    <3> QED BY ONLY <2>1, <3>1, FS_Interval
  <2>5. IsFiniteSet(S) /\ Cardinality(S) = n
    BY <2>3, <2>4, FS_Bijection DEF ExistsBijection
  <2> QED BY <1>5, <2>5
<1>9. PICK l : l = [i \in 1 .. n |-> Lead(was[i], axis)]
  OBVIOUS
<1>10. PICK e : e = [i \in 1 .. n |-> Extent(was[i], axis)]
  OBVIOUS
<1>11. PICK p : p = [i \in 1 .. n |-> Lead(now[i], axis)]
  OBVIOUS
<1>12. Spread(1 .. n, n, l, e, p)
  <2>1. /\ \A i \in 1 .. n : l[i] = Lead(was[i], axis)
        /\ \A i \in 1 .. n : e[i] = Extent(was[i], axis)
        /\ \A i \in 1 .. n : p[i] = Lead(DistributeRects(was, axis)[i], axis)
    BY <1>3, <1>9, <1>10, <1>11
  <2> QED BY <1>7, <1>8, <2>1, DistributedSpread
<1>13. PICK L : L = [id \in S |-> Lead(ElementOf(template, id).rect, axis)]
  OBVIOUS
<1>14. PICK E : E = [id \in S |-> Extent(ElementOf(template, id).rect, axis)]
  OBVIOUS
<1>15. PICK P : P = [id \in S |-> Lead(ElementOf(template', id).rect, axis)]
  OBVIOUS
<1>16. Spread(S, n, L, E, P)
  <2>1. ASSUME NEW i \in 1 .. n PROVE L[ids[i]] = l[i] /\ E[ids[i]] = e[i] /\ P[ids[i]] = p[i]
    <3>1. PICK id : id = ids[i]
      OBVIOUS
    <3>2. id \in S /\ ElementOf(template, id).rect = was[i] /\ ElementOf(template', id).rect = now[i]
      BY <1>7, <3>1
    <3>3. L[id] = Lead(was[i], axis) /\ E[id] = Extent(was[i], axis) /\ P[id] = Lead(now[i], axis)
      BY <1>13, <1>14, <1>15, <3>2
    <3>4. l[i] = Lead(was[i], axis) /\ e[i] = Extent(was[i], axis) /\ p[i] = Lead(now[i], axis)
      BY ONLY <1>9, <1>10, <1>11, i \in 1 .. n
    <3> QED BY ONLY <3>1, <3>3, <3>4
  <2>2. PICK d : d = 1 .. n
    OBVIOUS
  <2>3. Named(d, l, e, p, S, L, E, P, ids)
    BY ONLY <1>7, <2>1, <2>2 DEF Named
  <2> QED BY ONLY <1>12, <2>2, <2>3, SpreadRenamed
<1>17. \E id \in S : (\A j \in S : L[id] <= L[j]) /\ P[id] = L[id]
  BY <1>16 DEF Spread
<1>18. \A id \in S : (\A j \in S \ {id} : L[j] < L[id]) => Distance(P[id], L[id]) < n - 1
  BY <1>16 DEF Spread
<1>19. \E a, b \in S :
         /\ a # b /\ Cardinality({j \in S : \E k \in S \ {j} : P[k] - P[j] - E[j] = P[b] - P[a] - E[a]}) >= n - 1
         /\ P[b] - P[a] - E[a] >= 0 /\ (\A j \in S : E[j] > 0) =>
              \A j, k \in S : L[j] < L[k] => P[j] < P[k]
  <2>1. PICK last \in S, gap \in Int :
          /\ \A j \in S \ {last} : \E k \in S \ {j} : P[k] - P[j] - E[j] = gap
          /\ gap >= 0 /\ (\A j \in S : E[j] > 0) =>
               \A j, k \in S : L[j] < L[k] => P[j] < P[k]
    BY <1>16 DEF Spread
  <2>2. PICK R : R = S \ {last}
    OBVIOUS
  <2>3. IsFiniteSet(R) /\ Cardinality(R) = n - 1
    BY <1>8, <2>2, FS_RemoveElement
  <2>4. R # {}
    BY <1>7, <1>8, <2>3, FS_EmptySet
  <2>5. PICK a \in R : TRUE
    BY <2>4
  <2>6. PICK b \in S \ {a} : P[b] - P[a] - E[a] = gap
    BY <2>1, <2>2, <2>5
  <2>7. PICK F : F = {j \in S : \E k \in S \ {j} : P[k] - P[j] - E[j] = P[b] - P[a] - E[a]}
    OBVIOUS
  <2>8. R \subseteq F /\ F \in SUBSET S
    BY <2>1, <2>2, <2>6, <2>7
  <2>9. IsFiniteSet(F) /\ Cardinality(F) >= n - 1
    <3>1. IsFiniteSet(F)
      BY <1>8, <2>8, FS_Subset
    <3>2. Cardinality(R) <= Cardinality(F)
      BY <2>8, <3>1, FS_Subset
    <3>3. Cardinality(R) \in Nat /\ Cardinality(F) \in Nat
      BY <2>3, <3>1, FS_CardinalityType
    <3> QED BY <2>3, <3>1, <3>2, <3>3
  <2>10. a \in S /\ b \in S /\ a # b
    BY <2>2, <2>5, <2>6
  <2> QED BY <2>1, <2>6, <2>7, <2>9, <2>10
<1>20. \A id \in S : /\ L[id] = Lead(ElementOf(template, id).rect, axis)
                     /\ E[id] = Extent(ElementOf(template, id).rect, axis)
                     /\ P[id] = Lead(ElementOf(template', id).rect, axis)
  BY <1>13, <1>14, <1>15
<1> DEFINE From(t, id) == Lead(ElementOf(t, id).rect, axis)
           Span(id)    == Extent(ElementOf(template, id).rect, axis)
           Space(j, k) == From(template', k) - From(template', j) - Span(j)
<1>21. \E id \in S : (\A j \in S : From(template, id) <= From(template, j)) /\ From(template', id) = From(template, id)
  BY <1>17, <1>20
<1>22. \A id \in S : (\A j \in S \ {id} : From(template, j) < From(template, id))
                       => Distance(From(template', id), From(template, id)) < Cardinality(S) - 1
  BY <1>8, <1>18, <1>20
<1>23. \E a, b \in S :
         /\ a # b /\ Cardinality({j \in S : \E k \in S \ {j} : Space(j, k) = Space(a, b)}) >= Cardinality(S) - 1
         /\ Space(a, b) >= 0 /\ (\A j \in S : Span(j) > 0) =>
              \A j, k \in S : From(template, j) < From(template, k) => From(template', j) < From(template', k)
  <2>1. PICK a \in S, b \in S :
          /\ a # b /\ Cardinality({j \in S : \E k \in S \ {j} : P[k] - P[j] - E[j] = P[b] - P[a] - E[a]}) >= n - 1
          /\ P[b] - P[a] - E[a] >= 0 /\ (\A j \in S : E[j] > 0) =>
               \A j, k \in S : L[j] < L[k] => P[j] < P[k]
    BY <1>19
  <2>2. \A j, k \in S : P[k] - P[j] - E[j] = Space(j, k)
    BY <1>20
  <2> HIDE DEF Space
  <2>3. {j \in S : \E k \in S \ {j} : P[k] - P[j] - E[j] = P[b] - P[a] - E[a]} =
          {j \in S : \E k \in S \ {j} : Space(j, k) = Space(a, b)}
    BY <2>2
  <2>4. Cardinality({j \in S : \E k \in S \ {j} : Space(j, k) = Space(a, b)}) >= Cardinality(S) - 1
    BY <1>8, <2>1, <2>3
  <2>5. Space(a, b) >= 0 /\ (\A j \in S : Span(j) > 0) =>
          \A j, k \in S : From(template, j) < From(template, k) => From(template', j) < From(template', k)
    BY <1>20, <2>1, <2>2
  <2> QED BY <2>1, <2>4, <2>5
<1> QED BY <1>21, <1>22, <1>23 DEF S

\* Two things centered on one line have their center lines next to each other.
LEMMA CentersMeet ==
  ASSUME NEW c \in Int, NEW v \in Int, NEW w \in Int
  PROVE  Distance((c - v) \div 2 + v \div 2, (c - w) \div 2 + w \div 2) <= 1
<1>1. PICK a : a = (c - v) \div 2
  OBVIOUS
<1>2. PICK b : b = v \div 2
  OBVIOUS
<1>3. PICK d : d = (c - w) \div 2
  OBVIOUS
<1>4. PICK e : e = w \div 2
  OBVIOUS
<1>5. a \in Int /\ b \in Int /\ d \in Int /\ e \in Int
  BY <1>1, <1>2, <1>3, <1>4
<1>6. 2 * a <= c - v /\ c - v < 2 * a + 2 /\ 2 * b <= v /\ v < 2 * b + 2
  BY <1>1, <1>2
<1>7. 2 * d <= c - w /\ c - w < 2 * d + 2 /\ 2 * e <= w /\ w < 2 * e + 2
  BY <1>3, <1>4
<1>8. a + b - (d + e) <= 1 /\ d + e - (a + b) <= 1
  BY <1>5, <1>6, <1>7
<1>9. Distance(a + b, d + e) <= 1
  BY <1>5, <1>8 DEF Distance
<1> QED BY <1>1, <1>2, <1>3, <1>4, <1>9

\* Two rects that are aligned to one line have lines the guides take for one.
LEMMA LinesMeet ==
  ASSUME NEW a \in AnyRect, NEW b \in AnyRect, NEW edge \in {"left", "center", "right"},
         NEW c \in Int, OnLine(a, edge, c), OnLine(b, edge, c)
  PROVE  \E u \in VerticalLines(b) : \E m \in VerticalLines(a) : Distance(m, u) <= 1
<1>1. a.x \in Int /\ a.w \in Int /\ b.x \in Int /\ b.w \in Int
  BY DEF AnyRect
<1>2. CASE edge = "left"
  <2>1. a.x \in VerticalLines(a) /\ b.x \in VerticalLines(b) /\ Distance(a.x, b.x) <= 1
    BY <1>1, <1>2 DEF OnLine, VerticalLines, Distance
  <2> QED BY <2>1
<1>3. CASE edge = "right"
  <2>1. Right(a) \in VerticalLines(a) /\ Right(b) \in VerticalLines(b)
    BY DEF VerticalLines
  <2>2. Distance(Right(a), Right(b)) <= 1
    BY <1>1, <1>3 DEF OnLine, Right, Distance
  <2> QED BY <2>1, <2>2
<1>4. CASE edge = "center"
  <2>1. a.x + a.w \div 2 \in VerticalLines(a) /\ b.x + b.w \div 2 \in VerticalLines(b)
    BY DEF VerticalLines
  <2>2. a.x = (c - a.w) \div 2 /\ b.x = (c - b.w) \div 2
    BY <1>4 DEF OnLine
  <2>3. Distance(a.x + a.w \div 2, b.x + b.w \div 2) <= 1
    BY <1>1, <2>2, CentersMeet
  <2> QED BY <2>1, <2>3
<1> QED BY <1>2, <1>3, <1>4

\* Elements that are aligned share a line the smart guides find (align.ts, guides.ts).
LEMMA AlignmentHolds == Inv => AlignmentShowsGuides
<1> DEFINE S == Range(selected) \cap IdsOf(template)
           at == AbsoluteRects(template')
<1> SUFFICES ASSUME Inv, NEW edge \in {"left", "center", "right"}, Align(edge), NEW id \in S, S # {id}
             PROVE  \E guide \in AlignmentGuides(at[id], {at[j] : j \in S \ {id}}, 1) :
                      guide.orientation = "vertical"
  BY DEF AlignmentShowsGuides
<1> HIDE DEF S, at
<1>1. PICK ids : ids = Arranged
  OBVIOUS
<1>2. PICK was : was = RectsOf(Arranged)
  OBVIOUS
<1>3. PICK now : now = AlignRects(was, edge)
  OBVIOUS
<1>4. edge \in Edges
  BY DEF Edges
<1>5. Arrange(AlignRects(RectsOf(Arranged), edge)) /\ Arranged # <<>>
  BY DEF Align, Arrange
<1>6. was \in Seq(AnyRect) /\ was # <<>> /\ DOMAIN was = DOMAIN ids
  BY <1>1, <1>2, <1>5, ArrangedAreThere
<1>7. /\ \A i \in DOMAIN ids : now[i] \in AnyRect
      /\ \E c \in Int : \A i \in DOMAIN ids : OnLine(now[i], edge, c)
  BY <1>3, <1>4, <1>6, AlignedRects
<1>8. Rearranged(ids, was, now)
  <2>1. \A i \in DOMAIN Arranged : AlignRects(RectsOf(Arranged), edge)[i] \in AnyRect
    BY <1>1, <1>2, <1>3, <1>7
  <2>2. Rearranged(Arranged, RectsOf(Arranged), AlignRects(RectsOf(Arranged), edge))
    BY <1>5, <2>1, ArrangeMovesSelection
  <2> QED BY <1>1, <1>2, <1>3, <2>2
<1>9. PICK c \in Int : \A i \in DOMAIN ids : OnLine(now[i], edge, c)
  BY <1>7
<1>10. ASSUME NEW j \in S
       PROVE  at[j] \in AnyRect /\ OnLine(at[j], edge, c)
  <2>1. j \in Range(ids) /\ j \in IdsOf(template')
    BY <1>8 DEF Rearranged, S
  <2>2. PICK i \in DOMAIN ids : ids[i] = j
    BY <2>1 DEF Range
  <2>3. PICK r : r = ElementOf(template', j).rect
    OBVIOUS
  <2>4. r \in AnyRect /\ OnLine(r, edge, c)
    BY <1>8, <1>9, <2>2, <2>3 DEF Rearranged
  <2>5. PICK top : top = BandTops(Heights)[PlaceOf(template', j)[1]]
    OBVIOUS
  <2>6. at[j] = [r EXCEPT !.y = @ + top]
    BY <2>1, <2>3, <2>5 DEF at, AbsoluteRects
  <2>7. top \in Int
    <3>1. PICK t : t = template'
      OBVIOUS
    <3>2. Inv'
      BY <1>4, ToolsKeepInv
    <3>3. t \in WellFormed
      BY <3>1, <3>2 DEF Inv, HistoryInv
    <3>4. PlaceOf(t, j) \in Places(t) /\ t \in Templates
      BY <2>1, <3>1, <3>3, ElementsAre
    <3>5. PlaceOf(t, j)[1] \in DOMAIN BandOrder
      BY <3>4, PlacesAre
    <3>6. BandTops(Heights)[PlaceOf(t, j)[1]] \in Nat
      BY <3>5, BandsAreStacked
    <3> QED BY <2>5, <3>1, <3>6
  <2>8. PICK y : y = r.y + top
    OBVIOUS
  <2>9. y \in Int /\ at[j] = [r EXCEPT !.y = y]
    BY <2>4, <2>6, <2>7, <2>8 DEF AnyRect
  <2>10. [r EXCEPT !.y = y] \in AnyRect /\ [r EXCEPT !.y = y].x = r.x /\ [r EXCEPT !.y = y].w = r.w
    BY <2>4, <2>9 DEF AnyRect
  <2> QED BY <2>4, <2>9, <2>10 DEF OnLine
<1>11. PICK other \in S \ {id} : TRUE
  OBVIOUS
<1>12. PICK u \in VerticalLines(at[other]) : \E m \in VerticalLines(at[id]) : Distance(m, u) <= 1
  BY <1>10, <1>11, LinesMeet
<1>13. PICK others : others = {at[j] : j \in S \ {id}}
  OBVIOUS
<1>14. u \in UNION {VerticalLines(o) : o \in others}
  BY <1>11, <1>12, <1>13
<1>15. PICK guide : guide = [orientation |-> "vertical", position |-> u]
  OBVIOUS
<1>16. guide \in AlignmentGuides(at[id], others, 1)
  BY <1>12, <1>14, <1>15 DEF AlignmentGuides
<1> QED BY <1>13, <1>15, <1>16

\* Rects that cover something intersect where they cover the same squares.
LEMMA SquaresMeet ==
  ASSUME NEW a \in AnyRect, NEW b \in AnyRect, Squares(a) # {}, Squares(b) # {}
  PROVE  RectsIntersect(a, b) <=> Squares(b) \cap Squares(a) # {}
<1>1. /\ a.x \in Int /\ a.y \in Int /\ Right(a) \in Int /\ Bottom(a) \in Int
      /\ b.x \in Int /\ b.y \in Int /\ Right(b) \in Int /\ Bottom(b) \in Int
  BY DEF AnyRect, Right, Bottom
<1>2. a.x < Right(a) /\ a.y < Bottom(a)
  <2>1. PICK q \in Squares(a) : TRUE
    OBVIOUS
  <2>2. q[1] \in a.x .. Right(a) - 1 /\ q[2] \in a.y .. Bottom(a) - 1
    BY DEF Squares
  <2> QED BY <1>1, <2>2
<1>3. b.x < Right(b) /\ b.y < Bottom(b)
  <2>1. PICK q \in Squares(b) : TRUE
    OBVIOUS
  <2>2. q[1] \in b.x .. Right(b) - 1 /\ q[2] \in b.y .. Bottom(b) - 1
    BY DEF Squares
  <2> QED BY <1>1, <2>2
<1>4. ASSUME RectsIntersect(a, b) PROVE Squares(b) \cap Squares(a) # {}
  <2>1. PICK x : x = Larger(a.x, b.x)
    OBVIOUS
  <2>2. PICK y : y = Larger(a.y, b.y)
    OBVIOUS
  <2>3. /\ x \in a.x .. Right(a) - 1 /\ x \in b.x .. Right(b) - 1
        /\ y \in a.y .. Bottom(a) - 1 /\ y \in b.y .. Bottom(b) - 1
    BY <1>1, <1>2, <1>3, <1>4, <2>1, <2>2 DEF RectsIntersect, Larger
  <2>4. <<x, y>> \in Squares(b) /\ <<x, y>> \in Squares(a)
    BY <2>3 DEF Squares
  <2> QED BY <2>4
<1>5. ASSUME Squares(b) \cap Squares(a) # {} PROVE RectsIntersect(a, b)
  <2>1. PICK q : q \in Squares(b) /\ q \in Squares(a)
    BY <1>5
  <2>2. /\ q[1] \in a.x .. Right(a) - 1 /\ q[2] \in a.y .. Bottom(a) - 1
        /\ q[1] \in b.x .. Right(b) - 1 /\ q[2] \in b.y .. Bottom(b) - 1
    BY <2>1 DEF Squares
  <2> QED BY <1>1, <2>2 DEF RectsIntersect
<1> QED BY <1>4, <1>5

\* Only letting go of the page ends a marquee (handlePagePointerUp).
LEMMA MarqueeEnds ==
  ASSUME Inv, Next, anchor # None, anchor' = None
  PROVE  ReleasePage /\ held = "marquee"
<1>1. held = "marquee" /\ held # None /\ editing = None
  BY NoneAssumption DEF Inv, HeldInv
<1>2. anchor' # anchor
  OBVIOUS
<1>3. ~Elsewhere
  BY <1>1 DEF Elsewhere
<1>4. CASE ElementPointer
  BY <1>1, <1>2, <1>4, NoneAssumption DEF ElementPointer, PressElement, ToggleElement, BeginEdit, PressHandle, Pressed,
     ReleaseElement, ReleaseHandle, Released, DragMove, ResizeMove, Uncaptured, refs
<1>5. CASE PagePointer
  <2>1. ASSUME NEW p \in Points, MarqueeMove(p) PROVE FALSE
    <3>1. anchor \in [from : AnyPoint, at : AnyPoint, moved : BOOLEAN]
      BY DEF Inv, ViewInv
    <3>2. [anchor EXCEPT !.at = p, !.moved = TRUE] # None
      BY <2>1, <3>1, CanvasAssumption, NoneAssumption
    <3> QED BY <2>1, <3>2 DEF MarqueeMove
  <2> QED BY <1>1, <1>2, <1>3, <1>5, <2>1, NoneAssumption DEF PagePointer, PressGrip, PressPage, Pressed, GripMove, Drop,
           ReleaseGrip, refs
<1>6. CASE InlineEditor
  BY <1>1, <1>6 DEF InlineEditor, Type, Escape, CloseEditor
<1>7. CASE Toolbar
  BY <1>2, <1>3, <1>7 DEF Toolbar, Undo, Redo, TurnPage, SetSettings, Align, Distribute, Arrange, Delete, refs
<1>8. CASE Panels
  BY <1>3, <1>8 DEF Panels, Insert, EditRect, EditText, Orient
<1> QED BY <1>1, <1>4, <1>5, <1>6, <1>7, <1>8 DEF Next

\* A marquee selects the elements it covers a part of (ReportCanvas.tsx).
LEMMA MarqueeHolds == Inv /\ Next => MarqueeSelectsCovered
<1> DEFINE region == MarqueeRect(anchor.from, anchor.at)
           Top(i) == TotalLength([j \in 1 .. i - 1 |-> BandHeight[BandOrder[j]]])
           Lifted(p) == [At(template, p).rect EXCEPT !.y = @ + Top(p[1])]
<1> SUFFICES ASSUME Inv, Next, anchor # None, anchor' = None, anchor.moved,
                    Squares(region) # {}, NEW p \in Places(template), Squares(Lifted(p)) # {}
             PROVE  At(template, p).id \in Range(selected')
                      <=> Squares(Lifted(p)) \cap Squares(region) # {}
  BY DEF MarqueeSelectsCovered
<1>1. ReleasePage /\ held = "marquee"
  BY MarqueeEnds
<1>2. selected' = MarqueeSelect(region)
  BY <1>1 DEF ReleasePage
<1>3. template \in WellFormed
  BY DEF Inv, HistoryInv
<1> HIDE DEF region, Lifted, Top
<1>4. PICK q : q = region
  OBVIOUS
<1>5. q \in AnyRect
  <2>1. anchor.from \in AnyPoint /\ anchor.at \in AnyPoint
    BY DEF Inv, ViewInv
  <2>2. ASSUME NEW a \in AnyPoint, NEW b \in AnyPoint PROVE MarqueeRect(a, b) \in AnyRect
    BY DEF AnyPoint, AnyRect, MarqueeRect, Rect, Smaller, Distance
  <2> QED BY <1>4, <2>1, <2>2 DEF region
<1>6. PICK t : t = template
  OBVIOUS
<1>7. PICK e : e = At(t, p)
  OBVIOUS
<1>8. /\ t \in WellFormed /\ t \in Templates /\ e \in AnyElement /\ e.id \in IdsOf(t) /\ PlaceOf(t, e.id) = p
      /\ ElementOf(t, e.id) = e
  BY <1>3, <1>6, <1>7, ElementsAre
<1>9. p[1] \in DOMAIN BandOrder
  BY <1>6, <1>8, PlacesAre
<1>10. PICK r : r = Lifted(p)
  OBVIOUS
<1>11. BandTops(Heights)[p[1]] = Top(p[1]) /\ Top(p[1]) \in Int
  <2>1. PICK i : i = p[1]
    OBVIOUS
  <2>2. /\ BandTops(Heights)[i] = TotalLength([j \in 1 .. i - 1 |-> BandHeight[BandOrder[j]]])
        /\ BandTops(Heights)[i] \in Nat
    BY <1>9, <2>1, HeightsAre, BandsAreStacked
  <2>3. TotalLength([j \in 1 .. i - 1 |-> BandHeight[BandOrder[j]]]) = Top(i)
    BY DEF Top
  <2>4. BandTops(Heights)[i] = Top(i) /\ Top(i) \in Int
    BY ONLY <2>2, <2>3
  <2> QED BY <2>1, <2>4
<1>12. r \in AnyRect /\ AbsoluteRects(t)[e.id] = r
  <2>1. PICK top : top = Top(p[1])
    OBVIOUS
  <2>2. PICK was : was = e.rect
    OBVIOUS
  <2>3. r = [was EXCEPT !.y = @ + top] /\ was \in AnyRect /\ top \in Int
    BY <1>6, <1>7, <1>8, <1>10, <1>11, <2>1, <2>2 DEF Lifted, AnyElement
  <2>4. r \in AnyRect
    BY <2>3 DEF AnyRect
  <2>5. AbsoluteRects(t)[e.id] = [was EXCEPT !.y = @ + top]
    BY <1>8, <1>11, <2>1, <2>2 DEF AbsoluteRects
  <2> QED BY <2>3, <2>4, <2>5
<1>13. At(template, p).id \in Range(selected') <=> RectsIntersect(q, r)
  <2>1. At(template, p).id \in Range(MarqueeSelect(q)) <=> RectsIntersect(q, AbsoluteRects(t)[e.id])
    BY <1>3, <1>6, <1>7, MarqueeOnce
  <2> QED BY <1>2, <1>4, <1>12, <2>1
<1>14. RectsIntersect(q, r) <=> Squares(r) \cap Squares(q) # {}
  BY <1>4, <1>5, <1>10, <1>12, SquaresMeet
<1> QED BY <1>4, <1>10, <1>13, <1>14

\* The tools that work on several elements do what their names say, for any bands, any
\* elements and any selection: a marquee selects what it covers a part of, a distribution
\* spaces evenly, and what is aligned shares a line the guides find (ReportCanvas.tsx, align.ts).
THEOREM ToolsDoAsNamedHolds == Spec => ToolsDoAsNamed
<1>1. Inv /\ [Next]_vars => [MarqueeSelectsCovered /\ DistributeSpreads /\ AlignmentShowsGuides]_vars
  BY MarqueeHolds, DistributeHolds, AlignmentHolds
<1> QED BY <1>1, InvHolds, PTL DEF Spec, ToolsDoAsNamed

=============================================================================
