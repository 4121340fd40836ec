--------------------------- MODULE ListScreens_proofs ---------------------------
(***************************************************************************)
(* Proofs about the list screens, for any of them, any rows stored, any    *)
(* number of changes, renewals, openings and resizes, and any order of the *)
(* answers.                                                                *)
(*                                                                         *)
(* Inv says what every row is that is stored, listed, shown, edited or on  *)
(* its way (RowsInv, EditorInv, RequestsInv), and that rows of one key     *)
(* have one name (NamesInv).  CurrentInv rests on it: a list that is not   *)
(* the server's is known to be mixed up or missed, or it has a request     *)
(* under way that will say so or replace it.                               *)
(***************************************************************************)
EXTENDS ListScreens, FiniteSetTheorems, SequenceTheorems, TLAPS

(***************************************************************************)
(* The inductive invariant.                                                *)
(***************************************************************************)

\* The rows there can be by now: the numbers are the ids of rows added.
RowsNow == [id : {NewKey} \cup Ids \cup 1 .. sends \cup ToSet(EmissionTypes),
            name : Cells, value : Cells, active : BOOLEAN]
ListedIn(t) == {row \in RowsNow : ~IsNew(row) /\ Listable(t, row)}
Listed == ListedIn(tab)

\* What the screen is, what it has of its lists and what it shows.
RowsInv ==
  /\ screen \in Screens /\ sends \in Nat /\ tab \in TabsOf(screen)
  /\ layout \in {"grid", "cards"} /\ screen \in IF layout = "grid" THEN HasGrid ELSE HasCards
  /\ route \in RoutesOf(screen)
  /\ store \in [TabsOf(screen) -> [RoutesOf(screen) -> Seq(RowsNow)]]
  /\ \A t \in TabsOf(screen) : \A f \in RoutesOf(screen) : store[t][f] \in Seq(ListedIn(t))
  /\ lists \in [TabsOf(screen) -> {None} \cup Seq(RowsNow)]
  /\ \A t \in TabsOf(screen) : lists[t] \in {None} \cup Seq(ListedIn(t))
  /\ error \in BOOLEAN
  /\ asked \in {None} \cup ListedIn(screen)
  /\ DOMAIN cards = IF layout = "cards" /\ rows # None THEN KeysOf(rows) ELSE {}
  /\ \A k \in DOMAIN cards : cards[k] \in [editing : BOOLEAN, text : Cells]
  /\ form \in [name : Cells, value : Cells]

\* What is typed into a row.
Typeable(row) ==
  CASE tab \in {"orgs", "fields"} -> IsNew(row) \/ Filled(row.name)
    [] tab = "permits" -> IsNew(row) /\ row.value \in {Blank, Plain}
    [] tab = "limits" -> /\ row.name \in ToSet(EmissionTypes) /\ row.value \in Nat \cup {Blank}
                         /\ IsNew(row) \/ row.id = row.name
    [] tab = "ranges" -> ~IsNew(row) /\ row.name \in Nat \cup {Blank} /\ row.value \in Nat \cup {Blank}
    [] OTHER -> TRUE
Drafts == {row \in RowsNow : Typeable(row)}

EditorInv ==
  /\ clientPage \in Nat \ {0} /\ problems \subseteq {"name", "value"}
  /\ draft \in {NoRow} \cup Drafts
  /\ addedRow \in {NoRow} \cup {row \in Drafts : IsNew(row)}
  /\ editingKey # NoKey => draft # NoRow /\ KeyOf(draft) = editingKey
  /\ OneOpenEditor

\* The operations on each list, and what is sent with them.
OpsOn(t) ==
  CASE t \in {"facilities", "orgs", "limits"} -> {"add", "save", "remove"}
    [] t = "fields" -> {"add", "save", "retire", "reactivate"}
    [] t = "permits" -> {"add", "remove"}
    [] t = "ranges" -> {"save"}
    [] t = "reports" -> {"remove"}
    [] OTHER -> {}
OpsOf == OpsOn(tab)
Requests == [n : 0 .. sends, op : Ops, tab : {"head"} \cup TabsOf(screen), of : RoutesOf(screen),
             row : {NoRow} \cup RowsNow, effect : BOOLEAN, back : {"sent", "done", "lost"},
             list : Seq(RowsNow), at : Nat, late : BOOLEAN]

\* What each request carries.
Carries(r) ==
  /\ (r.op = "head" <=> r.tab = "head") /\ (r.op = "head" => r.list = <<>> /\ r.back = "sent")
  /\ r.op # "head" => r.op \in {"list"} \cup OpsOn(r.tab) /\ r.list \in Seq(ListedIn(r.tab))
  /\ r.op \notin {"list", "head"} => r.row \in RowsNow /\ ~r.effect
  /\ r.op \in {"add", "save"} => WellFormed(r.tab, r.row)
  /\ r.op = "add" => IsNew(r.row) /\ r.n # 0
  /\ r.op = "save" => r.row \in ListedIn(r.tab)
  /\ r.op = "save" /\ screen = "ranges" => rows # None
RequestsInv ==
  /\ requests \subseteq Requests
  /\ \A r \in requests : Carries(r)
  /\ \A r, q \in requests : r.n = q.n /\ r.tab = q.tab => r = q

\* The rows of existing keys that are anywhere: one key has one name, and the number of an
\* addition that is not served yet is no key so far.
AtServer == UNION {Range(store[tab][f]) : f \in RoutesOf(screen)}
OnScreen == IF rows = None THEN {} ELSE Range(rows)
Edited   == {d \in {draft} \ {NoRow} : ~IsNew(d)}
Saved    == {r.row : r \in {q \in requests : q.op = "save"}}
Answered == UNION {Range(r.list) : r \in requests}
Known    == AtServer \cup OnScreen \cup Edited \cup Saved \cup Answered
NamesInv ==
  tab \in {"orgs", "fields"} =>
    /\ \A x, y \in Known : x.id = y.id => x.name = y.name
    /\ \A r \in requests : r.op = "add" /\ r.back = "sent" => \A x \in Known : x.id # r.n

Inv == RowsInv /\ EditorInv /\ RequestsInv /\ NamesInv

-----------------------------------------------------------------------------
(***************************************************************************)
(* Rows, texts and what is typed.                                          *)
(***************************************************************************)

\* The four texts are four.
LEMMA TextsAreDistinct ==
  /\ Blank # Spaces /\ Blank # Padded /\ Blank # Plain
  /\ Spaces # Padded /\ Spaces # Plain /\ Padded # Plain
<1>1. ASSUME NEW a, NEW b, NEW c, Texts \subseteq {a, b, c} PROVE FALSE
  <2>1. IsFiniteSet({a, b, c}) /\ Cardinality({a, b, c}) \in Nat /\ Cardinality({a, b, c}) <= 3
    <3>1. PICK s1 : s1 = {a}
      OBVIOUS
    <3>2. IsFiniteSet(s1) /\ Cardinality(s1) = 1
      BY <3>1, FS_Singleton
    <3>3. PICK s2 : s2 = s1 \cup {b}
      OBVIOUS
    <3>4. IsFiniteSet(s2) /\ Cardinality(s2) \in Nat /\ Cardinality(s2) <= 2
      BY ONLY <3>2, <3>3, FS_AddElement
    <3>5. PICK s3 : s3 = s2 \cup {c}
      OBVIOUS
    <3>6. IsFiniteSet(s3) /\ Cardinality(s3) \in Nat /\ Cardinality(s3) <= 3
      BY ONLY <3>4, <3>5, FS_AddElement
    <3>7. s3 = {a, b, c}
      BY <3>1, <3>3, <3>5
    <3> QED BY <3>6, <3>7
  <2>2. Cardinality(Texts) <= 3
    BY <1>1, <2>1, FS_Subset, FS_CardinalityType
  <2> QED BY <2>2, ValuesAssumption
<1> QED BY <1>1 DEF Texts

\* A trimmed text has no spaces left.
LEMMA TrimmedTexts ==
  ASSUME NEW t
  PROVE  /\ ~IsBlank(t) <=> t \notin {Blank, Spaces}
         /\ ~IsBlank(t) => Filled(Trimmed(t))
         /\ Filled(t) => Trimmed(t) = t
         /\ t \in Cells => Trimmed(t) \in Cells
         /\ t \in Nat => Number(t) = t
         /\ Number(Blank) = 0
<1>1. Blank \in Cells /\ Plain \in Cells
  BY DEF Cells, Texts
<1>2. t \in Nat => t \notin {Blank, Spaces, Padded}
  BY ValuesAssumption DEF Texts
<1> QED BY <1>1, <1>2, TextsAreDistinct DEF IsBlank, Filled, Trimmed, Number

\* Rows that can be listed or typed now can be so later.
LEMMA RowsStay ==
  ASSUME sends \in Nat, sends' \in Nat, sends <= sends'
  PROVE  /\ RowsNow \subseteq RowsNow' /\ Seq(RowsNow) \subseteq Seq(RowsNow')
         /\ \A t : ListedIn(t) \subseteq ListedIn(t)' /\ Seq(ListedIn(t)) \subseteq Seq(ListedIn(t)')
         /\ tab' = tab =>
              /\ Listed \subseteq Listed' /\ Seq(Listed) \subseteq Seq(Listed')
              /\ Drafts \subseteq Drafts' /\ \A row : Typeable(row)' = Typeable(row)
              /\ OpsOf' = OpsOf
<1>1. RowsNow \subseteq RowsNow'
  BY DEF RowsNow
<1>2. \A t : ListedIn(t) \subseteq ListedIn(t)'
  BY <1>1 DEF ListedIn
<1>3. ASSUME NEW S, NEW T, S \subseteq T PROVE Seq(S) \subseteq Seq(T)
  BY <1>3
<1>4. Seq(RowsNow) \subseteq Seq(RowsNow') /\ \A t : Seq(ListedIn(t)) \subseteq Seq(ListedIn(t)')
  BY <1>1, <1>2, <1>3
<1>5. ASSUME tab' = tab PROVE Listed \subseteq Listed' /\ Seq(Listed) \subseteq Seq(Listed')
  BY <1>2, <1>4, <1>5 DEF Listed
<1>6. ASSUME tab' = tab PROVE /\ \A row : Typeable(row)' = Typeable(row)
                             /\ OpsOf' = OpsOf
  BY <1>6 DEF Typeable, OpsOf
<1>7. tab' = tab => Drafts \subseteq Drafts'
  BY <1>1, <1>6 DEF Drafts
<1> QED BY <1>1, <1>2, <1>4, <1>5, <1>6, <1>7

\* Which lists a screen has: its own, but for the details.
LEMMA TabsAre ==
  ASSUME NEW t \in TabsOf(screen)
  PROVE  /\ screen # "details" => t = screen
         /\ screen = "details" => t \in {"permits", "limits"}
         /\ t # "details"
         /\ RowsInv => t \in {"facilities", "orgs", "fields", "reports", "permits", "limits", "ranges"}
         /\ RowsInv => t # "head"
<1>1. RowsInv => screen \in HasGrid \cup HasCards
  BY ListsAssumption DEF RowsInv
<1> QED BY <1>1 DEF TabsOf, HasGrid, HasCards

\* The smaller of two numbers.
LEMMA MinOfTwo ==
  ASSUME NEW m \in Int, NEW n \in Int
  PROVE  Min({m, n}) = IF m <= n THEN m ELSE n
<1>1. PICK k : k \in {m, n} /\ \A y \in {m, n} : k <= y
  BY m <= n \/ n <= m
<1>2. Min({m, n}) \in {m, n} /\ \A y \in {m, n} : Min({m, n}) <= y
  BY <1>1 DEF Min
<1> QED
  BY <1>2

\* A page asked for too late is cut back to the last one.
LEMMA PageIsThere ==
  ASSUME clientPage \in Nat \ {0}, NEW count \in Nat
  PROVE  CurrentPage(count, 1) \in Nat \ {0}
<1>1. PICK pages : pages = IF count <= 1 THEN 1 ELSE count
  OBVIOUS
<1>2. (count + 1 - 1) \div 1 = count
  OBVIOUS
<1>3. TotalPages(count, 1) = pages
  <2>1. \A k \in {1, count} : k <= pages
    BY <1>1
  <2>2. pages \in {1, count}
    BY <1>1
  <2>3. Max({1, count}) \in {1, count} /\ \A y \in {1, count} : Max({1, count}) >= y
    BY <2>1, <2>2 DEF Max
  <2> QED BY <2>1, <2>2, <2>3, <1>2, <1>1 DEF TotalPages
<1> QED BY <1>1, <1>3, MinOfTwo DEF CurrentPage

\* The grid shows rows of the list, and the blank row that was added.
LEMMA VisibleRowsAre ==
  ASSUME rows \in {None} \cup Seq(Listed), clientPage \in Nat \ {0}, NEW row \in Range(Visible)
  PROVE  /\ rows # None
         /\ row \in Range(rows) \/ (row = addedRow /\ addedRow # NoRow)
<1>1. rows # None
  BY DEF Visible, Range
<1>2. PICK all : all = AllRows(rows)
  OBVIOUS
<1>3. rows \in Seq(Listed)
  BY <1>1
<1>4. all \in Seq(Listed \cup {addedRow}) /\ \A i \in DOMAIN all : all[i] \in Range(rows) \/ (all[i] = addedRow /\ addedRow # NoRow)
  <2>1. CASE addedRow = NoRow
    BY <2>1, <1>2, <1>3 DEF AllRows, Range
  <2>2. CASE addedRow # NoRow
    <3>1. PICK blank, list : blank = <<addedRow>> /\ list = rows
      OBVIOUS
    <3>2. blank \in Seq(Listed \cup {addedRow}) /\ Len(blank) = 1 /\ blank[1] = addedRow
      BY <3>1
    <3>3. list \in Seq(Listed \cup {addedRow}) /\ Len(list) \in Nat /\ \A i \in 1 .. Len(list) : list[i] \in Range(rows)
      BY <3>1, <1>3 DEF Range
    <3>4. all = blank \o list
      BY <3>1, <2>2, <1>2 DEF AllRows
    <3>a. PICK T : T = Listed \cup {addedRow}
      OBVIOUS
    <3>b. blank \in Seq(T) /\ list \in Seq(T)
      BY <3>2, <3>3, <3>a
    <3>c. blank \o list \in Seq(T)
      BY ONLY <3>b
    <3>d. Len(blank \o list) = Len(blank) + Len(list)
      BY ONLY <3>b
    <3>e. \A i \in 1 .. Len(blank) + Len(list) :
             (blank \o list)[i] = IF i <= Len(blank) THEN blank[i] ELSE list[i - Len(blank)]
      BY ONLY <3>b
    <3>5. all \in Seq(Listed \cup {addedRow}) /\ Len(all) = 1 + Len(list)
          /\ \A i \in 1 .. Len(all) : all[i] = IF i <= 1 THEN blank[i] ELSE list[i - 1]
      BY <3>a, <3>c, <3>d, <3>e, <3>4, <3>2
    <3>6. ASSUME NEW i \in DOMAIN all PROVE all[i] \in Range(rows) \/ all[i] = addedRow
      <4>1. i \in Nat /\ 1 <= i /\ i <= 1 + Len(list)
        BY <3>5, <3>3
      <4>2. CASE i = 1
        BY <4>1, <4>2, <3>5, <3>2
      <4>3. CASE i # 1
        <5>1. i - 1 \in 1 .. Len(list) /\ all[i] = list[i - 1]
          BY <4>1, <4>3, <3>5, <3>3
        <5> QED BY <5>1, <3>3
      <4> QED BY <4>2, <4>3
    <3> QED BY <3>5, <3>6, <2>2
  <2> QED BY <2>1, <2>2
<1>5. row \in Range(all)
  <2>1. CASE PageSize = 0
    BY <2>1, <1>1, <1>2 DEF Visible, VisibleRows
  <2>2. CASE PageSize # 0
    <3>1. PageSize = 1
      BY <2>2 DEF PageSize
    <3>2. PICK current, last : current = CurrentPage(Len(all), 1) /\ last = Min({current * 1, Len(all)})
      OBVIOUS
    <3>3. Len(all) \in Nat
      BY <1>4
    <3>4. current \in Nat \ {0}
      BY <3>2, <3>3, PageIsThere
    <3>5. last \in Nat /\ last <= Len(all) /\ last <= current
      BY <3>2, <3>3, <3>4, MinOfTwo
    <3>6. Visible = SubSeq(all, current, last)
      <4>1. PICK first : first = (current - 1) * 1 + 1
        OBVIOUS
      <4>2. first = current
        BY <3>4, <4>1
      <4>3. VisibleRows(rows, 1) = SubSeq(all, first, last)
        BY <4>1, <3>2, <1>2 DEF VisibleRows
      <4> QED BY <4>2, <4>3, <3>1, <1>1 DEF Visible
    <3>7. PICK i \in DOMAIN Visible : row = Visible[i]
      BY DEF Range
    <3>8. i \in 1 .. last - current + 1 /\ Visible[i] = all[current + i - 1]
      <4>1. PICK part : part = SubSeq(all, current, last)
        OBVIOUS
      <4>2. all \in Seq(Listed \cup {addedRow}) /\ current \in Int /\ last \in Int
        BY <3>4, <3>5, <1>4
      <4>3. PICK T : T = Listed \cup {addedRow}
        OBVIOUS
      <4>4. \A j \in current .. last : all[j] \in T
        BY <4>2, <4>3, <3>3, <3>4, <3>5
      <4>5. /\ part \in Seq(T) /\ Len(part) = IF current <= last THEN last - current + 1 ELSE 0
            /\ \A j \in 1 .. last - current + 1 : part[j] = all[current + j - 1]
        BY ONLY <4>1, <4>2, <4>4, SubSeqProperties
      <4>6. DOMAIN part = 1 .. last - current + 1
        BY <4>5, <4>2
      <4> QED BY <4>1, <4>5, <4>6, <3>6, <3>7
    <3>9. current + i - 1 \in DOMAIN all
      BY <3>3, <3>4, <3>5, <3>8, <1>4
    <3> QED BY <3>7, <3>8, <3>9 DEF Range
  <2> QED BY <2>1, <2>2
<1> QED BY <1>1, <1>4, <1>5 DEF Range

\* A row of now is one of the rows there can be, and null is none of them.
LEMMA RowsAreAny ==
  ASSUME RowsInv
  PROVE  RowsNow \subseteq AnyRow /\ NoRow \notin RowsNow /\ None \notin Seq(RowsNow) /\ None \notin RowsNow
<1>1. RowsNow \subseteq AnyRow
  <2>1. 1 .. sends \subseteq Nat
    BY DEF RowsInv
  <2> QED BY <2>1 DEF RowsNow, AnyRow, Keys
<1>2. Seq(RowsNow) \subseteq Seq(AnyRow)
  BY <1>1
<1> QED BY <1>1, <1>2, ValuesAssumption

\* The list on show is one of those of the screen.
LEMMA RowsAre ==
  ASSUME RowsInv
  PROVE  /\ rows = lists[tab] /\ rows \in {None} \cup Seq(Listed)
         /\ Listed \subseteq RowsNow /\ \A t : ListedIn(t) \subseteq RowsNow
BY DEF RowsInv, rows, Listed, ListedIn

\* A row with one column changed is a row with the others.
LEMMA EditedRows ==
  ASSUME NEW row \in RowsNow, NEW v
  PROVE  /\ /\ [row EXCEPT !.name = v].name = v /\ [row EXCEPT !.name = v].id = row.id
            /\ [row EXCEPT !.name = v].value = row.value
            /\ v \in Cells => [row EXCEPT !.name = v] \in RowsNow
         /\ /\ [row EXCEPT !.value = v].value = v /\ [row EXCEPT !.value = v].id = row.id
            /\ [row EXCEPT !.value = v].name = row.name
            /\ v \in Cells => [row EXCEPT !.value = v] \in RowsNow
         /\ /\ [row EXCEPT !.active = v].id = row.id /\ [row EXCEPT !.active = v].name = row.name
            /\ [row EXCEPT !.active = v].value = row.value
            /\ v \in BOOLEAN => [row EXCEPT !.active = v] \in RowsNow
         /\ /\ [row EXCEPT !.id = v].id = v /\ [row EXCEPT !.id = v].name = row.name
            /\ [row EXCEPT !.id = v].value = row.value
            /\ v \in Ids \cup 1 .. sends \cup ToSet(EmissionTypes) => [row EXCEPT !.id = v] \in RowsNow
BY DEF RowsNow

\* Whether a row can be listed depends on its columns, and its activity does not count.
LEMMA ListedRows ==
  ASSUME NEW row \in RowsNow, NEW v \in BOOLEAN
  PROVE  /\ \A t : [row EXCEPT !.active = v] \in ListedIn(t) <=> row \in ListedIn(t)
         /\ row.id \notin {NoKey} /\ (IsNew(row) <=> row.id = NewKey)
<1>1. [row EXCEPT !.active = v] \in RowsNow /\ [row EXCEPT !.active = v].id = row.id
      /\ [row EXCEPT !.active = v].name = row.name /\ [row EXCEPT !.active = v].value = row.value
  BY EditedRows
<1>2. PICK e : e = [row EXCEPT !.active = v]
  OBVIOUS
<1>3. IsNew(e) <=> IsNew(row)
  BY <1>1, <1>2 DEF IsNew, KeyOf
<1>4. \A t : Listable(t, e) <=> Listable(t, row)
  BY <1>1, <1>2 DEF Listable
<1>5. row.id \in Keys
  BY DEF RowsNow, Keys
<1> QED BY <1>1, <1>2, <1>3, <1>4, <1>5, ValuesAssumption DEF ListedIn, IsNew, KeyOf

(***************************************************************************)
(* What the server does with a list.                                       *)
(***************************************************************************)

\* A list without one of its rows.
LEMMA RemovedIsPart ==
  ASSUME NEW S, NEW list \in Seq(S), NEW row, NEW out \in Removed(list, row)
  PROVE  out \in Seq(S) /\ Range(out) \subseteq Range(list)
<1>1. PICK i \in DOMAIN list : out = RemoveAt(list, i)
  BY DEF Removed
<1>2. Len(list) \in Nat /\ i \in 1 .. Len(list) /\ \A j \in 1 .. Len(list) : list[j] \in Range(list)
  BY DEF Range
<1>3. PICK a, b, R : a = SubSeq(list, 1, i - 1) /\ b = SubSeq(list, i + 1, Len(list)) /\ R = Range(list)
  OBVIOUS
<1>4. R \subseteq S
  BY <1>3 DEF Range
<1>5. a \in Seq(R)
  <2>1. \A j \in 1 .. i - 1 : list[j] \in R
    BY <1>2, <1>3
  <2>2. 1 \in Int /\ i - 1 \in Int
    BY <1>2
  <2> QED BY ONLY <1>3, <2>1, <2>2, SubSeqProperties
<1>6. b \in Seq(R)
  <2>1. \A j \in i + 1 .. Len(list) : list[j] \in R
    BY <1>2, <1>3
  <2>2. i + 1 \in Int /\ Len(list) \in Int
    BY <1>2
  <2> QED BY ONLY <1>3, <2>1, <2>2, SubSeqProperties
<1>7. out = a \o b
  BY <1>1, <1>3 DEF RemoveAt
<1>8. out \in Seq(R)
  BY ONLY <1>5, <1>6, <1>7
<1>9. \A j \in DOMAIN out : out[j] \in R
  BY <1>8
<1>10. out \in Seq(S)
  BY ONLY <1>8, <1>4
<1> QED BY <1>3, <1>9, <1>10 DEF Range

\* A list with a row in the place of those of its key.
LEMMA ReplacedRows ==
  ASSUME NEW S, NEW list \in Seq(S), NEW row \in S, NEW out \in Replaced(list, row)
  PROVE  out \in Seq(S) /\ Range(out) \subseteq Range(list) \cup {row}
<1>1. out = [i \in DOMAIN list |-> IF KeyOf(list[i]) = KeyOf(row) THEN row ELSE list[i]]
  BY DEF Replaced
<1>2. Len(list) \in Nat /\ DOMAIN list = 1 .. Len(list)
  OBVIOUS
<1>3. out \in Seq(S)
  BY <1>1, <1>2
<1>4. \A i \in DOMAIN out : out[i] \in Range(list) \cup {row}
  BY <1>1 DEF Range
<1> QED BY <1>3, <1>4 DEF Range

\* A list with one row more.
LEMMA AddedRow ==
  ASSUME NEW S, NEW list \in Seq(S), NEW row, NEW id, [row EXCEPT !.id = id] \in S,
         NEW out \in Added(list, row, id)
  PROVE  out \in Seq(S) /\ Range(out) \subseteq Range(list) \cup {[row EXCEPT !.id = id]}
<1>1. PICK e : e = [row EXCEPT !.id = id]
  OBVIOUS
<1>2. out = Append(list, e)
  BY <1>1 DEF Added
<1>3. out \in Seq(S)
  BY <1>1, <1>2
<1>4. Len(list) \in Nat /\ DOMAIN list = 1 .. Len(list)
  OBVIOUS
<1>5. DOMAIN out = 1 .. Len(list) + 1 /\ \A j \in 1 .. Len(list) + 1 : out[j] = IF j <= Len(list) THEN list[j] ELSE e
  BY ONLY <1>2, <1>4, list \in Seq(S)
<1>6. \A j \in DOMAIN out : out[j] \in Range(list) \cup {e}
  BY <1>4, <1>5 DEF Range
<1> QED BY <1>1, <1>3, <1>6 DEF Range

\* Whatever a request does, the list stays one of such rows; for Orgs and fields every row
\* has the key and the name of a row of the list or of the one saved, or the number of the
\* addition.
LEMMA OutcomesAreLists ==
  ASSUME RowsInv, RequestsInv, NEW r \in requests, r.op # "head", NEW t, t = r.tab,
         NEW list \in Seq(ListedIn(t)), NEW out \in Outcomes(t, list, r)
  PROVE  /\ out \in Seq(ListedIn(t))
         /\ r.op = "list" => out = list
         /\ t \in {"orgs", "fields"} => \A x \in Range(out) :
              \/ \E y \in Range(list) : x.id = y.id /\ x.name = y.name
              \/ r.op = "save" /\ x.id = r.row.id /\ x.name = r.row.name
              \/ r.op = "add" /\ x.id = r.n /\ x.name = r.row.name
<1>1. /\ r \in Requests
      /\ r.op # "list" => r.row \in RowsNow
      /\ r.op \in {"add", "save"} => WellFormed(t, r.row)
      /\ r.op = "save" => r.row \in ListedIn(t)
  BY DEF RequestsInv, Carries
<1>2. /\ r.op \in {"list"} \cup OpsOn(t) /\ (r.op = "add" => r.n \in 1 .. sends)
      /\ t \in {"facilities", "orgs", "fields", "reports", "permits", "limits", "ranges"}
  <2>1. t \in TabsOf(screen) /\ r.n \in 0 .. sends /\ sends \in Nat
    BY <1>1 DEF RequestsInv, Carries, Requests, RowsInv
  <2>2. r.op \in {"list"} \cup OpsOn(t) /\ (r.op = "add" => r.n # 0)
    BY DEF RequestsInv, Carries
  <2> QED BY <2>1, <2>2, TabsAre
<1>3. \A x \in Range(list) : x \in ListedIn(t) /\ x \in RowsNow
  BY DEF Range, ListedIn
<1>4. CASE r.op = "list"
  <2>1. out = list
    BY <1>4 DEF Outcomes
  <2>2. \A x \in Range(out) : \E y \in Range(list) : x.id = y.id /\ x.name = y.name
    BY ONLY <2>1
  <2>3. out \in Seq(ListedIn(t))
    BY ONLY <2>1, list \in Seq(ListedIn(t))
  <2> QED BY <2>1, <2>2, <2>3, <1>4
<1>5. CASE r.op = "remove"
  <2>0. t \in {"facilities", "orgs", "limits", "permits", "reports"}
    BY <1>5, <1>2 DEF OpsOn
  <2>1. out \in Removed(list, r.row)
    BY <1>5, <2>0 DEF Outcomes, FacilitiesApi, OrgsApi, PermitsApi, LimitsApi, ReportsApi
  <2>2. out \in Seq(ListedIn(t)) /\ Range(out) \subseteq Range(list)
    BY <2>1, RemovedIsPart
  <2> QED BY <2>2, <1>5
<1>6. CASE r.op = "add"
  <2>1. t \in {"facilities", "orgs", "fields", "permits", "limits"}
    BY <1>6, <1>2 DEF OpsOn
  <2>2. PICK id : id = IF t = "limits" THEN r.row.name ELSE r.n
    OBVIOUS
  <2>3. out \in Added(list, r.row, id)
    BY <1>6, <2>1, <2>2 DEF Outcomes, FacilitiesApi, OrgsApi, FieldsApi, PermitsApi, LimitsApi
  <2>4. PICK e : e = [r.row EXCEPT !.id = id]
    OBVIOUS
  <2>5. WellFormed(t, r.row) /\ r.row \in RowsNow
    BY <1>1, <1>6
  <2>6. id \in 1 .. sends \cup ToSet(EmissionTypes)
    <3>1. t = "limits" => r.row.name \in ToSet(EmissionTypes)
      BY <2>5 DEF WellFormed
    <3>2. r.n \in 1 .. sends
      BY <1>2, <1>6
    <3> QED BY <2>2, <3>1, <3>2
  <2>7. e \in RowsNow /\ e.id = id /\ e.name = r.row.name /\ e.value = r.row.value
    BY <2>4, <2>5, <2>6, EditedRows
  <2>8. id # NewKey
    BY <2>6, ValuesAssumption
  <2>9. Listable(t, e)
    BY <2>1, <2>2, <2>5, <2>7 DEF WellFormed, Listable
  <2>10. e \in ListedIn(t)
    BY <2>7, <2>8, <2>9 DEF ListedIn, IsNew, KeyOf
  <2>11. out \in Seq(ListedIn(t)) /\ Range(out) \subseteq Range(list) \cup {e}
    BY <2>3, <2>4, <2>10, AddedRow
  <2> QED BY <2>2, <2>7, <2>11, <1>6
<1>7. CASE r.op \in {"save", "retire", "reactivate"}
  <2>1. PICK row : out \in Replaced(list, row) /\ row \in ListedIn(t)
                   /\ (t \in {"orgs", "fields"} =>
                         \/ \E y \in Range(list) : row.id = y.id /\ row.name = y.name
                         \/ r.op = "save" /\ row = r.row)
    <3>1. t \in {"facilities", "orgs", "fields", "limits", "ranges"}
      BY <1>7, <1>2 DEF OpsOn
    <3>2. t # "fields" => r.op = "save" /\ r.row \in ListedIn(t)
      BY <1>1, <1>2, <1>7, <3>1 DEF OpsOn
    <3>3. CASE t \in {"facilities", "limits"}
      <4>1. out \in Replaced(list, r.row)
        BY <3>2, <3>3 DEF Outcomes, FacilitiesApi, LimitsApi
      <4> QED BY <4>1, <3>2, <3>3
    <3>4. CASE t = "orgs"
      <4>1. out \in Replaced(list, r.row)
        BY <3>2, <3>4 DEF Outcomes, OrgsApi
      <4> QED BY <4>1, <3>2, <3>4
    <3>5. CASE t = "ranges"
      <4>1. PICK e : e = [r.row EXCEPT !.active = TRUE]
        OBVIOUS
      <4>2. out \in Replaced(list, e)
        BY <3>2, <3>5, <4>1 DEF Outcomes, RangesApi
      <4>3. e \in ListedIn(t)
        BY <3>2, <3>5, <4>1, ListedRows DEF ListedIn
      <4> QED BY <4>2, <4>3, <3>5
    <3>6. CASE t = "fields"
      <4>1. PICK x \in Found(list, r.row) :
              \/ r.op = "save" /\ out \in Replaced(list, [x EXCEPT !.value = r.row.value])
              \/ r.op = "retire" /\ out \in Replaced(list, [x EXCEPT !.active = FALSE])
              \/ r.op = "reactivate" /\ out \in Replaced(list, [x EXCEPT !.active = TRUE])
        BY <3>6, <1>7 DEF Outcomes, FieldsApi
      <4>2. x \in Range(list) /\ x \in ListedIn(t) /\ x \in RowsNow
        BY <4>1, <1>3 DEF Found, Range
      <4>3. CASE r.op = "save"
        <5>0. PICK v : v = r.row.value
          OBVIOUS
        <5>1. PICK e : e = [x EXCEPT !.value = v]
          OBVIOUS
        <5>2. r.row \in RowsNow
          BY <1>1, <4>3
        <5>3. v \in Cells
          BY <5>0, <5>2 DEF RowsNow
        <5>4. e \in RowsNow /\ e.id = x.id /\ e.name = x.name
          BY ONLY <5>1, <5>3, <4>2, EditedRows
        <5>5. e \in ListedIn(t)
          BY <5>4, <4>2, <3>6 DEF ListedIn, Listable, IsNew, KeyOf
        <5>6. out \in Replaced(list, e)
          BY <5>0, <5>1, <4>1, <4>3
        <5> QED BY <5>4, <5>5, <5>6, <4>2
      <4>4. CASE r.op \in {"retire", "reactivate"}
        <5>0. PICK v : v \in BOOLEAN /\ v = IF r.op = "reactivate" THEN TRUE ELSE FALSE
          OBVIOUS
        <5>1. PICK e : e = [x EXCEPT !.active = v]
          OBVIOUS
        <5>2. e.id = x.id /\ e.name = x.name
          BY ONLY <5>0, <5>1, <4>2, EditedRows
        <5>4. e \in ListedIn(t)
          BY ONLY <5>0, <5>1, <4>2, ListedRows
        <5>3. out \in Replaced(list, e)
          <6>1. CASE r.op = "retire"
            <7>1. e = [x EXCEPT !.active = FALSE]
              BY <5>0, <5>1, <6>1
            <7> QED BY <7>1, <4>1, <6>1
          <6>2. CASE r.op = "reactivate"
            <7>1. e = [x EXCEPT !.active = TRUE]
              BY <5>0, <5>1, <6>2
            <7> QED BY <7>1, <4>1, <6>2
          <6> QED BY <6>1, <6>2, <4>4
        <5> QED BY <5>2, <5>3, <5>4, <4>2
      <4> QED BY <4>3, <4>4, <1>7
    <3> QED BY <3>1, <3>3, <3>4, <3>5, <3>6
  <2>2. out \in Seq(ListedIn(t)) /\ Range(out) \subseteq Range(list) \cup {row}
    BY <2>1, ReplacedRows
  <2> QED BY <2>1, <2>2, <1>7
<1>8. \/ r.op = "list" \/ r.op = "remove" \/ r.op = "add"
      \/ r.op \in {"save", "retire", "reactivate"}
  BY <1>2 DEF OpsOn
<1> QED BY <1>4, <1>5, <1>6, <1>7, <1>8

(***************************************************************************)
(* Parts of the invariant that many steps share.                           *)
(***************************************************************************)

\* Where a row is known from.
LEMMA KnownIs ==
  ASSUME NEW x
  PROVE  x \in Known <=>
           \/ \E f \in RoutesOf(screen) : x \in Range(store[tab][f])
           \/ rows # None /\ x \in Range(rows)
           \/ draft # NoRow /\ ~IsNew(draft) /\ x = draft
           \/ \E q \in requests : q.op = "save" /\ x = q.row
           \/ \E q \in requests : x \in Range(q.list)
<1>1. x \in AtServer <=> \E f \in RoutesOf(screen) : x \in Range(store[tab][f])
  BY DEF AtServer
<1>2. x \in OnScreen <=> rows # None /\ x \in Range(rows)
  BY DEF OnScreen
<1>3. x \in Edited <=> draft # NoRow /\ ~IsNew(draft) /\ x = draft
  BY DEF Edited, IsNew, KeyOf
<1>4. x \in Saved <=> \E q \in requests : q.op = "save" /\ x = q.row
  BY DEF Saved
<1>5. x \in Answered <=> \E q \in requests : x \in Range(q.list)
  BY DEF Answered
<1> QED BY ONLY <1>1, <1>2, <1>3, <1>4, <1>5 DEF Known

\* Where a row will be known from.
LEMMA KnownIsLater ==
  ASSUME NEW x
  PROVE  x \in Known' <=>
           \/ \E f \in RoutesOf(screen') : x \in Range(store'[tab'][f])
           \/ rows' # None /\ x \in Range(rows')
           \/ draft' # NoRow /\ ~IsNew(draft)' /\ x = draft'
           \/ \E q \in requests' : q.op = "save" /\ x = q.row
           \/ \E q \in requests' : x \in Range(q.list)
<1>1. x \in AtServer' <=> \E f \in RoutesOf(screen') : x \in Range(store'[tab'][f])
  BY DEF AtServer
<1>2. x \in OnScreen' <=> rows' # None /\ x \in Range(rows')
  BY DEF OnScreen
<1>3. x \in Edited' <=> draft' # NoRow /\ ~IsNew(draft)' /\ x = draft'
  BY DEF Edited, IsNew, KeyOf
<1>4. x \in Saved' <=> \E q \in requests' : q.op = "save" /\ x = q.row
  BY DEF Saved
<1>5. x \in Answered' <=> \E q \in requests' : x \in Range(q.list)
  BY DEF Answered
<1> QED BY ONLY <1>1, <1>2, <1>3, <1>4, <1>5 DEF Known

\* Rows that are anywhere have a key of their own, and none has the next number.
LEMMA KnownRows ==
  ASSUME RowsInv, EditorInv, RequestsInv, NEW x \in Known
  PROVE  x \in RowsNow /\ ~IsNew(x) /\ x.id # sends + 1
<1>1. \A f \in RoutesOf(screen) : \A y \in Range(store[tab][f]) : y \in Listed
  BY DEF RowsInv, Range, Listed
<1>2. rows # None => \A y \in Range(rows) : y \in Listed
  BY RowsAre DEF Range
<1>3. draft # NoRow => draft \in RowsNow
  BY DEF EditorInv, Drafts
<1>4. \A q \in requests : q.op = "save" => q.row \in ListedIn(q.tab)
  BY DEF RequestsInv, Carries
<1>5. \A q \in requests : \A y \in Range(q.list) : y \in ListedIn(q.tab)
  <2>1. ASSUME NEW q \in requests, q.op # "head" PROVE q.list \in Seq(ListedIn(q.tab))
    BY <2>1 DEF RequestsInv, Carries
  <2>2. \A q \in requests : q.op = "head" => q.list = <<>>
    BY DEF RequestsInv, Carries
  <2> QED BY <2>1, <2>2 DEF Range
<1>6. x \in RowsNow /\ ~IsNew(x)
  BY <1>1, <1>2, <1>3, <1>4, <1>5, KnownIs DEF Listed, ListedIn
<1>7. x.id \in Ids \cup 1 .. sends \cup ToSet(EmissionTypes)
  BY <1>6 DEF RowsNow, IsNew, KeyOf
<1>8. sends + 1 \in Nat /\ sends + 1 \notin 1 .. sends
  BY DEF RowsInv
<1>9. sends + 1 \notin Ids \cup ToSet(EmissionTypes)
  BY <1>8, ValuesAssumption
<1> QED BY <1>6, <1>7, <1>8, <1>9

\* The names stay what they are while no row gets another, whatever additions are sent.
LEMMA NamesStay ==
  ASSUME RowsInv, EditorInv, RequestsInv, NamesInv, tab' = tab,
         tab \in {"orgs", "fields"} =>
           /\ \A x \in Known' : \E y \in Known : x.id = y.id /\ x.name = y.name
           /\ \A r \in requests' : r.op = "add" /\ r.back = "sent" =>
                r.n = sends + 1 \/ r \in requests
  PROVE  NamesInv'
<1> SUFFICES ASSUME tab \in {"orgs", "fields"} PROVE NamesInv'
  BY DEF NamesInv
<1>1. \A x, y \in Known : x.id = y.id => x.name = y.name
  BY DEF NamesInv
<1>2. \A x, y \in Known' : x.id = y.id => x.name = y.name
  BY <1>1
<1>3. ASSUME NEW r \in requests', r.op = "add", r.back = "sent", NEW x \in Known' PROVE x.id # r.n
  <2>1. PICK y \in Known : x.id = y.id
    OBVIOUS
  <2>2. y.id # sends + 1
    BY KnownRows
  <2>3. r \in requests => y.id # r.n
    BY <1>3 DEF NamesInv
  <2>4. r.n = sends + 1 \/ r \in requests
    BY <1>3
  <2> QED BY <2>1, <2>2, <2>3, <2>4
<1> QED BY <1>2, <1>3 DEF NamesInv

\* A request of now is a request later.
LEMMA RequestsStay ==
  ASSUME RowsInv, sends' \in Nat, sends <= sends', screen' = screen,
         rows # None => rows' # None \/ screen # "ranges",
         NEW r \in Requests, Carries(r)
  PROVE  r \in Requests' /\ Carries(r)'
<1>1. sends \in Nat
  BY DEF RowsInv
<1>2. /\ RowsNow \subseteq RowsNow' /\ Seq(RowsNow) \subseteq Seq(RowsNow')
      /\ \A t : ListedIn(t) \subseteq ListedIn(t)' /\ Seq(ListedIn(t)) \subseteq Seq(ListedIn(t)')
  BY <1>1, RowsStay
<1>3. 0 .. sends \subseteq 0 .. sends'
  BY <1>1
<1>4. r \in Requests'
  BY <1>2, <1>3 DEF Requests
<1>5. PICK t : t = r.tab
  OBVIOUS
<1>6. r.list \in Seq(ListedIn(t)) => r.list \in Seq(ListedIn(t)')
  BY <1>2
<1>7. Carries(r)'
  BY <1>2, <1>5, <1>6 DEF Carries, ListedIn, IsNew, KeyOf
<1> QED BY <1>4, <1>7

\* A step of the user that sends nothing: on the grid, on a card, in a form or a question.
LEMMA QuietStep ==
  ASSUME Inv, UNCHANGED <<screen, tab, route, lists, store, requests, sends>>,
         RowsInv', EditorInv',
         tab \in {"orgs", "fields"} /\ draft' # NoRow /\ ~IsNew(draft)' =>
           \E y \in Known : draft'.id = y.id /\ draft'.name = y.name
  PROVE  Inv'
<1>1. RequestsInv'
  <2>1. sends \in Nat /\ sends' = sends /\ requests' = requests /\ rows' = rows
    BY DEF Inv, RowsInv, rows
  <2>2. \A r \in requests' : r \in Requests' /\ Carries(r)'
    BY <2>1, RequestsStay DEF Inv, RequestsInv
  <2> QED BY <2>1, <2>2 DEF Inv, RequestsInv
<1>3. NamesInv'
  <2>1. ASSUME tab \in {"orgs", "fields"}, NEW x \in Known'
        PROVE  \E y \in Known : x.id = y.id /\ x.name = y.name
    <3>0. rows' = rows
      BY DEF rows
    <3>1. x \in Known \/ (x = draft' /\ draft' # NoRow /\ ~IsNew(draft)')
      BY <2>1, <3>0, KnownIs, KnownIsLater
    <3> QED BY <3>1, <2>1
  <2> QED BY <2>1, NamesStay DEF Inv
<1> QED BY <1>1, <1>3 DEF Inv

\* The editor is closed.
LEMMA ClosedEditor ==
  ASSUME EditorInv, CloseEditor
  PROVE  EditorInv' /\ draft' = NoRow
BY GridAssumption DEF EditorInv, CloseEditor, OneOpenEditor

\* The editor is left as it is.
LEMMA EditorIsLeft ==
  ASSUME RowsInv, EditorInv, UNCHANGED <<grid, tab>>, sends' \in Nat, sends <= sends'
  PROVE  EditorInv' /\ draft' = draft
<1>1. UNCHANGED <<clientPage, editingKey, draft, problems, addedRow>>
  BY DEF grid
<1>2. Drafts \subseteq Drafts' /\ \A row : IsNew(row)' = IsNew(row)
  BY RowsStay DEF RowsInv, IsNew, KeyOf
<1>3. addedRow # NoRow => addedRow \in Drafts' /\ IsNew(addedRow)
  BY <1>2 DEF EditorInv
<1>4. addedRow' \in {NoRow} \cup {row \in Drafts : IsNew(row)}'
  BY <1>1, <1>3 DEF IsNew, KeyOf
<1> QED BY <1>1, <1>2, <1>4 DEF EditorInv, OneOpenEditor, KeyOf

\* What is listed, shown and mounted is left as it is, but for the cards and the form.
LEMMA RowsAreLeft ==
  ASSUME RowsInv, UNCHANGED <<screen, layout, tab, lists, store>>, sends' \in Nat, sends <= sends',
         route' \in RoutesOf(screen), error' \in BOOLEAN,
         asked' \in {None} \cup ListedIn(screen), DOMAIN cards' = DOMAIN cards,
         \A k \in DOMAIN cards : cards'[k] \in [editing : BOOLEAN, text : Cells],
         form' \in [name : Cells, value : Cells]
  PROVE  RowsInv'
<1>1. /\ Seq(RowsNow) \subseteq Seq(RowsNow')
      /\ \A t : ListedIn(t) \subseteq ListedIn(t)' /\ Seq(ListedIn(t)) \subseteq Seq(ListedIn(t)')
  BY RowsStay DEF RowsInv
<1>2. /\ store' \in [TabsOf(screen') -> [RoutesOf(screen') -> Seq(RowsNow')]]
      /\ \A t \in TabsOf(screen') : \A f \in RoutesOf(screen') : store'[t][f] \in Seq(ListedIn(t)')
  <2>1. /\ store \in [TabsOf(screen) -> [RoutesOf(screen) -> Seq(RowsNow)]]
        /\ \A t \in TabsOf(screen) : \A f \in RoutesOf(screen) : store[t][f] \in Seq(ListedIn(t))
    BY DEF RowsInv
  <2>2. store \in [TabsOf(screen) -> [RoutesOf(screen) -> Seq(RowsNow')]]
    BY <2>1, <1>1
  <2> QED BY <2>1, <2>2, <1>1
<1>3. /\ lists' \in [TabsOf(screen') -> {None} \cup Seq(RowsNow')]
      /\ \A t \in TabsOf(screen') : lists'[t] \in {None} \cup Seq(ListedIn(t)')
  <2>1. /\ lists \in [TabsOf(screen) -> {None} \cup Seq(RowsNow)]
        /\ \A t \in TabsOf(screen) : lists[t] \in {None} \cup Seq(ListedIn(t))
    BY DEF RowsInv
  <2> QED BY <2>1, <1>1
<1>4. asked' \in {None} \cup ListedIn(screen)'
  BY <1>1 DEF ListedIn
<1>5. DOMAIN cards' = IF layout' = "cards" /\ rows' # None THEN KeysOf(rows') ELSE {}
  BY DEF RowsInv, rows
<1>7. /\ screen' \in Screens /\ layout' \in {"grid", "cards"}
      /\ screen' \in IF layout' = "grid" THEN HasGrid ELSE HasCards
      /\ tab' \in TabsOf(screen') /\ route' \in RoutesOf(screen')
  BY DEF RowsInv
<1>8. \A k \in DOMAIN cards' : cards'[k] \in [editing : BOOLEAN, text : Cells]
  OBVIOUS
<1> QED BY <1>2, <1>3, <1>4, <1>5, <1>7, <1>8 DEF RowsInv

\* A change is sent: its row is what the screen and the server hold it to be.
LEMMA RunKeepsInv ==
  ASSUME Inv, NEW op \in OpsOf, NEW row \in RowsNow, Run(op, row),
         UNCHANGED <<screen, layout, tab, route, head, lists, store>>,
         op \in {"add", "save"} => WellFormed(tab, row),
         op = "add" => IsNew(row),
         op = "save" => row \in Listed,
         op = "save" /\ tab \in {"orgs", "fields"} => \E y \in Known : row.id = y.id /\ row.name = y.name,
         rows # None \/ screen # "ranges",
         asked' \in {None} \cup ListedIn(screen), DOMAIN cards' = DOMAIN cards,
         \A k \in DOMAIN cards : cards'[k] \in [editing : BOOLEAN, text : Cells],
         form' \in [name : Cells, value : Cells],
         UNCHANGED grid \/ CloseEditor
  PROVE  Inv'
<1>1. sends' = sends + 1 /\ sends \in Nat /\ error' = FALSE /\ rows' = rows /\ sends' \in Nat /\ sends <= sends'
  BY DEF Inv, RowsInv, Run, rows
<1>2. PICK q : q = [n |-> sends + 1, op |-> op, tab |-> tab, of |-> route, row |-> row, effect |-> FALSE,
                    back |-> "sent", list |-> <<>>, at |-> 0, late |-> FALSE]
  OBVIOUS
<1>3. requests' = requests \cup {q}
  BY <1>1, <1>2 DEF Run, Request
<1>4. /\ q.n = sends + 1 /\ q.op = op /\ q.tab = tab /\ q.of = route /\ q.row = row /\ q.effect = FALSE
      /\ q.back = "sent" /\ q.list = <<>>
  BY <1>2
<1>5. /\ op \notin {"list", "head"} /\ op \in Ops /\ tab # "head" /\ tab \in TabsOf(screen)
      /\ route \in RoutesOf(screen)
  BY TabsAre DEF Inv, RowsInv, OpsOf, OpsOn, Ops
<1>6. RowsInv'
  <2>1. error' \in BOOLEAN
    BY <1>1
  <2>2. RowsInv /\ route' \in RoutesOf(screen)
    BY DEF Inv, RowsInv
  <2> QED BY <1>1, <2>1, <2>2, RowsAreLeft
<1>7. EditorInv' /\ draft' \in {draft, NoRow}
  BY <1>1, EditorIsLeft, ClosedEditor DEF Inv
<1>8. RequestsInv'
  <2>1. RowsNow \subseteq RowsNow' /\ \A t : ListedIn(t) \subseteq ListedIn(t)'
    BY <1>1, RowsStay
  <2>2. q \in Requests'
    <3>1. <<>> \in Seq(RowsNow')
      OBVIOUS
    <3>2. sends + 1 \in 0 .. sends' /\ route \in RoutesOf(screen') /\ row \in RowsNow' /\ tab \in TabsOf(screen')
      BY <1>1, <1>5, <2>1
    <3> QED BY <1>2, <1>5, <3>1, <3>2 DEF Requests
  <2>3. Carries(q)'
    <3>1. <<>> \in Seq(ListedIn(tab)') /\ sends + 1 # 0
      BY <1>1
    <3>2. op = "save" => row \in ListedIn(tab)'
      BY <2>1 DEF Listed
    <3>3. op \in {"list"} \cup OpsOn(tab)
      BY DEF OpsOf
    <3>4. row \in RowsNow'
      BY <2>1
    <3> QED BY <1>1, <1>4, <1>5, <3>1, <3>2, <3>3, <3>4 DEF Carries, IsNew, KeyOf
  <2>4. \A r \in requests : r \in Requests' /\ Carries(r)'
    BY <1>1, RequestsStay DEF Inv, RequestsInv
  <2>5. \A r \in requests : r.n # sends + 1
    BY <1>1 DEF Inv, RequestsInv, Requests
  <2>6. \A r, p \in requests' : r.n = p.n /\ r.tab = p.tab => r = p
    BY <1>3, <1>4, <2>5 DEF Inv, RequestsInv
  <2> QED BY <1>3, <2>2, <2>3, <2>4, <2>6 DEF RequestsInv
<1>9. NamesInv'
  <2>1. ASSUME tab \in {"orgs", "fields"}, NEW x \in Known'
        PROVE  \E y \in Known : x.id = y.id /\ x.name = y.name
    <3>1. x \in Known \/ (op = "save" /\ x = row) \/ x \in Range(<<>>)
      BY <1>1, <1>3, <1>4, <1>7, KnownIs, KnownIsLater DEF IsNew, KeyOf
    <3>2. x \notin Range(<<>>)
      BY DEF Range
    <3> QED BY <3>1, <3>2, <2>1
  <2>2. \A r \in requests' : r.n = sends + 1 \/ r \in requests
    BY <1>3, <1>4
  <2> QED BY <2>1, <2>2, NamesStay DEF Inv
<1> QED BY <1>6, <1>7, <1>8, <1>9 DEF Inv

(***************************************************************************)
(* What the user does on the grid.                                         *)
(***************************************************************************)

\* A shown row: it can be edited where its screen lets it, and it has a name it is known by.
LEMMA ShownRows ==
  ASSUME RowsInv, EditorInv, NEW row \in Range(Visible)
  PROVE  /\ rows # None /\ row \in RowsNow
         /\ ~IsNew(row) => row \in Listed /\ row \in Known
         /\ IsNew(row) => row \in Drafts
         /\ tab # "permits" => row \in Drafts
<1>1. rows # None /\ (row \in Range(rows) \/ (row = addedRow /\ addedRow # NoRow))
  BY VisibleRowsAre, RowsAre DEF RowsInv, EditorInv
<1>2. CASE row = addedRow /\ addedRow # NoRow
  BY <1>1, <1>2 DEF EditorInv, Drafts
<1>3. CASE row \in Range(rows)
  <2>1. row \in Listed /\ row \in RowsNow /\ ~IsNew(row) /\ Listable(tab, row)
    BY <1>1, <1>3, RowsAre DEF Range, Listed, ListedIn
  <2>2. row \in Known
    BY <1>1, <1>3, KnownIs
  <2>3. tab # "permits" => Typeable(row)
    BY <2>1 DEF Typeable, Listable, IsNew, KeyOf
  <2> QED BY <1>1, <2>1, <2>2, <2>3 DEF Drafts
<1> QED BY <1>1, <1>2, <1>3

\* The page of a screen is its cards and its lists.
LEMMA PageIsLeft ==
  ASSUME RowsInv, UNCHANGED <<screen, page, store, sends>>
  PROVE  RowsInv' /\ UNCHANGED <<layout, tab, route, head, lists, error, asked, cards, form>>
<1>1. UNCHANGED <<layout, tab, route, head, lists, error, asked, cards, form>>
  BY DEF page
<1>2. route' \in RoutesOf(screen) /\ sends' \in Nat /\ sends <= sends' /\ error' \in BOOLEAN
      /\ asked' \in {None} \cup ListedIn(screen) /\ form' \in [name : Cells, value : Cells]
      /\ \A k \in DOMAIN cards : cards'[k] \in [editing : BOOLEAN, text : Cells]
  BY <1>1 DEF RowsInv
<1> QED BY <1>1, <1>2, RowsAreLeft

\* An editor shown is one of a draft.
LEMMA EditedDraft ==
  ASSUME RowsInv, EditorInv, EditorShown
  PROVE  /\ GridShown /\ rows # None /\ layout = "grid" /\ screen \in HasGrid
         /\ editingKey # NoKey /\ draft # NoRow /\ draft \in Drafts /\ KeyOf(draft) = editingKey
<1>1. PICK row \in Range(Visible) : KeyOf(row) = editingKey
  BY DEF EditorShown
<1>2. rows # None /\ row \in RowsNow
  BY ShownRows
<1>3. row.id # NoKey
  BY <1>2, ListedRows
<1>4. layout = "grid" /\ GridShown /\ screen \in HasGrid
  BY DEF EditorShown, GridShown, RowsInv
<1> QED BY <1>1, <1>2, <1>3, <1>4 DEF EditorInv, KeyOf

\* What a grid opens for a new row can be typed into.
LEMMA NewRowsAreDrafts ==
  ASSUME RowsInv, rows = None \/ rows \in Seq(Listed), GridShown, NEW row \in NewRows(tab, rows)
  PROVE  row \in Drafts /\ IsNew(row)
<1>1. tab \in {"facilities", "orgs", "fields", "permits", "limits"}
  BY TabsAre DEF RowsInv, NewRows
<1>2. Blank \in Cells
  BY DEF Cells, Texts
<1>3. BlankRow \in RowsNow /\ BlankRow.id = NewKey /\ BlankRow.value = Blank
  BY <1>2 DEF BlankRow, RowsNow
<1>4. CASE tab # "limits"
  <2>1. row = BlankRow
    BY <1>1, <1>4 DEF NewRows
  <2> QED BY <2>1, <1>1, <1>3, <1>4 DEF Drafts, Typeable, IsNew, KeyOf
<1>5. CASE tab = "limits"
  <2>1. PICK i \in DOMAIN EmissionTypes : row = [BlankRow EXCEPT !.name = EmissionTypes[i]]
    BY <1>5 DEF NewRows, NewLimit
  <2>2. PICK type : type = EmissionTypes[i]
    OBVIOUS
  <2>3. type \in ToSet(EmissionTypes)
    BY <2>2 DEF ToSet
  <2>4. row = [BlankRow EXCEPT !.name = type]
    BY <2>1, <2>2
  <2>5. type \in Cells
    BY <2>3 DEF Cells
  <2>6. row \in RowsNow /\ row.name = type /\ row.id = NewKey /\ row.value = Blank
    BY ONLY <2>4, <2>5, <1>3 DEF RowsNow
  <2> QED BY <2>3, <2>6, <1>5 DEF Drafts, Typeable, IsNew, KeyOf
<1> QED BY <1>4, <1>5

\* The add button.
LEMMA AddRowKeepsInv ==
  ASSUME Inv, AddRow
  PROVE  Inv'
<1>1. PICK row \in NewRows(tab, rows) : BeginAdd(row)
  BY DEF AddRow
<1>2. GridShown /\ UNCHANGED <<screen, page, store, requests, sends>>
  BY DEF AddRow, ByGrid, NoSend
<1>3. row \in Drafts /\ IsNew(row)
  BY <1>1, <1>2, NewRowsAreDrafts, RowsAre DEF Inv
<1>4. RowsInv' /\ UNCHANGED <<tab, route, lists, error>>
  BY <1>2, PageIsLeft DEF Inv
<1>5. Drafts' = Drafts
  BY <1>2, <1>4 DEF Drafts, RowsNow, Typeable
<1>6. row # NoRow
  BY <1>3, RowsAreAny DEF Inv, Drafts
<1>7. EditorInv' /\ draft' = row
  BY <1>1, <1>3, <1>5, <1>6, GridAssumption DEF Inv, EditorInv, BeginAdd, OneOpenEditor, IsNew, KeyOf
<1>8. IsNew(draft)'
  BY <1>3, <1>7 DEF IsNew, KeyOf
<1> QED BY <1>2, <1>4, <1>7, <1>8, QuietStep

\* The edit button of a row.
LEMMA EditRowKeepsInv ==
  ASSUME Inv, EditRow
  PROVE  Inv'
<1>1. PICK row \in Range(Visible) : KeyOf(row) # editingKey /\ BeginEdit(KeyOf(row), row)
  BY DEF EditRow
<1>2. tab # "permits" /\ UNCHANGED <<screen, page, store, requests, sends>>
  BY DEF EditRow, ByGrid, NoSend
<1>3. row \in Drafts /\ (~IsNew(row) => row \in Known)
  BY <1>1, <1>2, ShownRows DEF Inv
<1>4. RowsInv' /\ UNCHANGED <<tab, route, lists, error>>
  BY <1>2, PageIsLeft DEF Inv
<1>5. Drafts' = Drafts
  BY <1>2, <1>4 DEF Drafts, RowsNow, Typeable
<1>6. row # NoRow /\ row.id # NoKey
  BY <1>3, RowsAreAny, ListedRows DEF Inv, Drafts
<1>7. IsNew(row) => addedRow # NoRow
  <2>1. row \in Range(rows) /\ rows # None => ~IsNew(row)
    BY RowsAre DEF Inv, Range, Listed, ListedIn
  <2> QED BY <2>1, <1>1, VisibleRowsAre, RowsAre DEF Inv, EditorInv
<1>8. EditorInv' /\ draft' = row
  BY <1>1, <1>3, <1>5, <1>6, <1>7 DEF Inv, EditorInv, BeginEdit, OneOpenEditor, IsNew, KeyOf
<1>9. IsNew(draft)' = IsNew(row)
  BY <1>8 DEF IsNew, KeyOf
<1> QED BY <1>2, <1>3, <1>4, <1>8, <1>9, QuietStep

\* What is typed makes one of the drafts there can be, and changes no name that is fixed.
LEMMA TypedDrafts ==
  ASSUME RowsInv, screen \in HasGrid, NEW d \in Drafts,
         NEW c \in Columns(d).editable, NEW v \in Typed(c)
  PROVE  /\ [d EXCEPT ![c] = v] \in Drafts /\ [d EXCEPT ![c] = v].id = d.id
         /\ tab \in {"orgs", "fields"} /\ ~IsNew(d) => [d EXCEPT ![c] = v].name = d.name
<1>1. tab \in {"facilities", "orgs", "fields", "permits", "limits", "ranges"}
  BY TabsAre DEF RowsInv, HasGrid
<1>2. c \in {"name", "value"} /\ (tab \in {"orgs", "fields", "limits"} /\ ~IsNew(d) => c = "value")
  BY <1>1 DEF Columns, FacilityColumns, OrgColumns, FieldColumns, PermitColumns, LimitColumns, RangeColumns
<1>3. /\ tab = "limits" /\ c = "name" => v \in ToSet(EmissionTypes)
      /\ tab = "limits" /\ c = "value" => v \in Nat
      /\ tab = "ranges" => v \in Nat
      /\ tab = "permits" /\ c = "value" => v = Plain
      /\ v \in ToSet(EmissionTypes) \cup Nat \cup Texts
  BY <1>1, <1>2 DEF Typed, Available, Texts
<1>4. v \in Cells
  BY <1>3 DEF Cells
<1>5. d \in RowsNow /\ Typeable(d)
  BY DEF Drafts
<1>6. CASE c = "name"
  <2>1. PICK e : e = [d EXCEPT !.name = v]
    OBVIOUS
  <2>2. e \in RowsNow /\ e.id = d.id /\ e.name = v /\ e.value = d.value
    BY ONLY <2>1, <1>4, <1>5 DEF RowsNow
  <2>3. IsNew(e) = IsNew(d)
    BY <2>2 DEF IsNew, KeyOf
  <2>4. Typeable(e)
    BY <2>2, <2>3, <1>1, <1>2, <1>3, <1>5, <1>6 DEF Typeable
  <2>5. e = [d EXCEPT ![c] = v]
    BY <2>1, <1>6
  <2> QED BY <2>2, <2>4, <2>5, <1>2, <1>6 DEF Drafts
<1>7. CASE c = "value"
  <2>1. PICK e : e = [d EXCEPT !.value = v]
    OBVIOUS
  <2>2. e \in RowsNow /\ e.id = d.id /\ e.name = d.name /\ e.value = v
    BY <2>1, <1>4, <1>5, EditedRows
  <2>3. IsNew(e) = IsNew(d)
    BY <2>2 DEF IsNew, KeyOf
  <2>4. Typeable(e)
    BY <2>2, <2>3, <1>1, <1>3, <1>5, <1>7 DEF Typeable
  <2>5. e = [d EXCEPT ![c] = v]
    BY <2>1, <1>7
  <2> QED BY <2>2, <2>4, <2>5 DEF Drafts
<1> QED BY <1>2, <1>6, <1>7

\* Typing into the row.
LEMMA TypeInRowKeepsInv ==
  ASSUME Inv, TypeInRow
  PROVE  Inv'
<1>1. PICK c \in Columns(draft).editable : \E v \in Typed(c) : ChangeDraft(c, v)
  BY DEF TypeInRow
<1>2. PICK v \in Typed(c) : ChangeDraft(c, v)
  BY <1>1
<1>3. EditorShown /\ UNCHANGED <<screen, page, store, requests, sends>>
  BY DEF TypeInRow, Type
<1>4. PICK d : d = draft
  OBVIOUS
<1>5. screen \in HasGrid /\ d \in Drafts /\ KeyOf(d) = editingKey /\ d # NoRow
  BY <1>3, <1>4, EditedDraft DEF Inv
<1>6. PICK e : e = [d EXCEPT ![c] = v]
  OBVIOUS
<1>7. c \in Columns(d).editable
  BY <1>1, <1>4
<1>8. e \in Drafts /\ e.id = d.id /\ (tab \in {"orgs", "fields"} /\ ~IsNew(d) => e.name = d.name)
  BY <1>2, <1>5, <1>6, <1>7, TypedDrafts DEF Inv
<1>9. draft' = e /\ UNCHANGED <<clientPage, editingKey, problems, addedRow>>
  BY <1>2, <1>4, <1>6 DEF ChangeDraft
<1>10. RowsInv' /\ UNCHANGED <<tab, route, lists, error>>
  BY <1>3, PageIsLeft DEF Inv
<1>11. Drafts' = Drafts
  BY <1>3, <1>10 DEF Drafts, RowsNow, Typeable
<1>12. EditorInv'
  <2>1. e # NoRow
    BY <1>8, RowsAreAny DEF Drafts, Inv
  <2> QED BY <2>1, <1>5, <1>8, <1>9, <1>11 DEF Inv, EditorInv, OneOpenEditor, KeyOf, IsNew
<1>13. tab \in {"orgs", "fields"} /\ ~IsNew(draft)' => d \in Known /\ draft'.id = d.id /\ draft'.name = d.name
  <2>1. IsNew(draft)' = IsNew(d)
    BY <1>8, <1>9 DEF IsNew, KeyOf
  <2> QED BY <2>1, <1>4, <1>5, <1>8, <1>9, KnownIs
<1> QED BY <1>3, <1>10, <1>12, <1>13, QuietStep

\* The pager.
LEMMA TurnThePageKeepsInv ==
  ASSUME Inv, TurnThePage
  PROVE  Inv'
<1>1. PICK step \in {-1, 1} : TurnPage(rows, PageSize, step)
  BY DEF TurnThePage
<1>2. UNCHANGED <<screen, page, store, requests, sends>>
  BY DEF TurnThePage, ByGrid, NoSend
<1>3. RowsInv' /\ UNCHANGED <<tab, route, lists, error>>
  BY <1>2, PageIsLeft DEF Inv
<1>4. UNCHANGED <<editingKey, draft, problems, addedRow>> /\ clientPage' \in Nat \ {0}
  <2>1. PICK current : current = CurrentPage(Len(AllRows(rows)), PageSize)
    OBVIOUS
  <2>2. PICK pages : pages = TotalPages(Len(AllRows(rows)), PageSize)
    OBVIOUS
  <2>3. current + step \in 1 .. pages /\ clientPage' = current + step /\ UNCHANGED <<editingKey, draft, problems, addedRow>>
    BY <1>1, <2>1, <2>2 DEF TurnPage
  <2>4. \A n \in 1 .. pages : n \in Nat \ {0}
    OBVIOUS
  <2> QED BY <2>3, <2>4
<1>5. Drafts' = Drafts
  BY <1>2, <1>3 DEF Drafts, RowsNow, Typeable
<1>6. EditorInv'
  BY <1>4, <1>5 DEF Inv, EditorInv, OneOpenEditor, KeyOf, IsNew
<1>7. draft' # NoRow /\ ~IsNew(draft)' => draft \in Known /\ draft' = draft
  BY <1>4, KnownIs DEF IsNew, KeyOf
<1> QED BY <1>2, <1>3, <1>6, <1>7, QuietStep

\* The other tab: another list is on show, and nothing of it is edited.
LEMMA SwitchTabKeepsInv ==
  ASSUME Inv, SwitchTab
  PROVE  Inv'
<1>1. PICK t \in TabsOf(screen) \ {tab} : tab' = t
  BY DEF SwitchTab
<1>2. /\ UNCHANGED <<screen, layout, route, head, lists, error, asked, cards, form, store, requests, sends>>
      /\ RemountGrid /\ layout = "grid"
  BY DEF SwitchTab, NoSend, GridShown
<1>3. screen = "details" /\ tab' \in {"permits", "limits"} /\ tab' \in TabsOf(screen)
  BY <1>1, TabsAre DEF TabsOf, Inv, RowsInv
<1>4. RowsInv'
  <2>1. RowsNow' = RowsNow /\ \A s : ListedIn(s)' = ListedIn(s)
    BY <1>2 DEF RowsNow, ListedIn
  <2>2. DOMAIN cards = {}
    BY <1>2 DEF Inv, RowsInv
  <2>3. DOMAIN cards' = IF layout' = "cards" /\ rows' # None THEN KeysOf(rows') ELSE {}
    BY <2>2, <1>2
  <2> QED BY <1>2, <1>3, <2>1, <2>2, <2>3 DEF Inv, RowsInv
<1>5. EditorInv'
  BY <1>2, GridAssumption DEF RemountGrid, EditorInv, OneOpenEditor
<1>6. RequestsInv'
  <2>1. sends' \in Nat /\ sends <= sends' /\ screen # "ranges"
    BY <1>2, <1>3 DEF Inv, RowsInv
  <2>2. \A r \in requests : r \in Requests' /\ Carries(r)'
    BY <1>2, <2>1, RequestsStay DEF Inv, RequestsInv
  <2> QED BY <1>2, <2>2 DEF Inv, RequestsInv
<1>7. NamesInv'
  BY <1>3 DEF NamesInv
<1> QED BY <1>4, <1>5, <1>6, <1>7 DEF Inv

\* The editor is cancelled.
LEMMA CancelRowKeepsInv ==
  ASSUME Inv, CancelRow
  PROVE  Inv'
<1>1. CloseEditor /\ UNCHANGED <<screen, page, store, requests, sends>>
  BY DEF CancelRow, ByGrid, NoSend
<1>2. RowsInv' /\ UNCHANGED <<tab, route, lists, error>>
  BY <1>1, PageIsLeft DEF Inv
<1>3. EditorInv' /\ draft' = NoRow
  BY <1>1, ClosedEditor DEF Inv
<1> QED BY <1>1, <1>2, <1>3, QuietStep

\* A row trimmed is a row.
LEMMA TrimmedRows ==
  ASSUME NEW d \in RowsNow
  PROVE  /\ TrimmedRow(d) \in RowsNow /\ TrimmedRow(d).id = d.id
         /\ TrimmedRow(d).name = Trimmed(d.name) /\ TrimmedRow(d).value = Trimmed(d.value)
<1>1. PICK n, v : n = Trimmed(d.name) /\ v = Trimmed(d.value)
  OBVIOUS
<1>2. n \in Cells /\ v \in Cells
  BY <1>1, TrimmedTexts DEF RowsNow
<1>3. PICK e : e = [d EXCEPT !.name = n, !.value = v]
  OBVIOUS
<1>4. e \in RowsNow /\ e.id = d.id /\ e.name = n /\ e.value = v
  BY ONLY <1>2, <1>3, d \in RowsNow DEF RowsNow
<1>5. TrimmedRow(d) = e
  BY <1>1, <1>3 DEF TrimmedRow
<1> QED BY <1>1, <1>4, <1>5

\* Where no column is at fault the save is one the server can accept: of a new row an addition,
\* of any other a change that keeps its key and, for Orgs and fields, its name.
LEMMA SavesAreWellFormed ==
  ASSUME RowsInv, screen \in HasGrid, NEW d \in Drafts, Columns(d).invalid = {}
  PROVE  /\ Save(d).op \in OpsOf /\ Save(d).op = IF IsNew(d) THEN "add" ELSE "save"
         /\ Save(d).row \in RowsNow /\ Save(d).row.id = d.id
         /\ WellFormed(tab, Save(d).row)
         /\ ~IsNew(d) => Save(d).row \in Listed
         /\ ~IsNew(d) /\ tab \in {"orgs", "fields"} => Save(d).row.name = d.name
<1>1. d \in RowsNow /\ Typeable(d)
  BY DEF Drafts
<1>2. SUFFICES ASSUME NEW op, NEW row, op = Save(d).op, row = Save(d).row
               PROVE  /\ op \in OpsOf /\ op = IF IsNew(d) THEN "add" ELSE "save"
                      /\ row \in RowsNow /\ row.id = d.id /\ WellFormed(tab, row)
                      /\ ~IsNew(d) => Listable(tab, row)
                      /\ ~IsNew(d) /\ tab \in {"orgs", "fields"} => row.name = d.name
  BY DEF Listed, ListedIn, IsNew, KeyOf
<1>3. tab \in {"facilities", "orgs", "fields", "permits", "limits", "ranges"}
  BY TabsAre DEF RowsInv, HasGrid
<1>4. CASE tab = "facilities"
  <2>1. op = SaveOp(d) /\ row = TrimmedRow(d) /\ ~IsBlank(d.name)
    BY <1>2, <1>4 DEF Save, FacilitySave, Columns, FacilityColumns, BlankAmong
  <2>2. row \in RowsNow /\ row.id = d.id /\ row.name = Trimmed(d.name)
    BY <2>1, <1>1, TrimmedRows
  <2> QED BY <2>1, <2>2, <1>4, TrimmedTexts DEF SaveOp, OpsOf, OpsOn, WellFormed, Listable
<1>5. CASE tab = "fields"
  <2>1. op = SaveOp(d) /\ row = TrimmedRow(d) /\ ~IsBlank(d.value) /\ (IsNew(d) => ~IsBlank(d.name))
    BY <1>2, <1>5 DEF Save, FieldSave, Columns, FieldColumns, BlankAmong
  <2>2. row \in RowsNow /\ row.id = d.id /\ row.name = Trimmed(d.name) /\ row.value = Trimmed(d.value)
    BY <2>1, <1>1, TrimmedRows
  <2>3. ~IsNew(d) => Filled(d.name) /\ row.name = d.name
    BY <2>2, <1>1, <1>5, TrimmedTexts DEF Typeable
  <2>4. Filled(row.name) /\ Filled(row.value)
    BY <2>1, <2>2, <2>3, TrimmedTexts
  <2> QED BY <2>1, <2>2, <2>3, <2>4, <1>5 DEF SaveOp, OpsOf, OpsOn, WellFormed, Listable
<1>6. CASE tab = "orgs"
  <2>1. op = SaveOp(d) /\ (IsNew(d) => ~IsBlank(d.name))
    BY <1>2, <1>6 DEF Save, OrgSave, Columns, OrgColumns, BlankAmong
  <2>2. PICK n, v : n = Trimmed(d.name) /\ v = Trimmed(d.value)
    OBVIOUS
  <2>3. n \in Cells /\ v \in Cells
    BY <2>2, <1>1, TrimmedTexts DEF RowsNow
  <2>4. row = IF IsNew(d) THEN [d EXCEPT !.name = n] ELSE [d EXCEPT !.value = v]
    BY <1>2, <1>6, <2>2 DEF Save, OrgSave
  <2>5. CASE IsNew(d)
    <3>1. row = [d EXCEPT !.name = n]
      BY <2>4, <2>5
    <3>2. row \in RowsNow /\ row.id = d.id /\ row.name = n
      BY ONLY <3>1, <2>3, <1>1, EditedRows
    <3>3. Filled(n)
      BY <2>1, <2>2, <2>5, TrimmedTexts
    <3> QED BY <3>2, <3>3, <2>1, <2>5, <1>6 DEF SaveOp, OpsOf, OpsOn, WellFormed
  <2>6. CASE ~IsNew(d)
    <3>1. row = [d EXCEPT !.value = v]
      BY <2>4, <2>6
    <3>2. row \in RowsNow /\ row.id = d.id /\ row.name = d.name
      BY ONLY <3>1, <2>3, <1>1, EditedRows
    <3>3. Filled(d.name)
      BY <2>6, <1>1, <1>6 DEF Typeable
    <3> QED BY <3>2, <3>3, <2>1, <2>6, <1>6 DEF SaveOp, OpsOf, OpsOn, WellFormed, Listable
  <2> QED BY <2>5, <2>6
<1>7. CASE tab = "permits"
  <2>1. op = "add" /\ ~IsBlank(d.name) /\ ~IsBlank(d.value)
    BY <1>2, <1>7 DEF Save, PermitSave, Columns, PermitColumns, BlankAmong
  <2>2. PICK n : n = Trimmed(d.name)
    OBVIOUS
  <2>3. n \in Cells
    BY <2>2, <1>1, TrimmedTexts DEF RowsNow
  <2>4. row = [d EXCEPT !.name = n]
    BY <1>2, <1>7, <2>2 DEF Save, PermitSave
  <2>5. row \in RowsNow /\ row.id = d.id /\ row.name = n /\ row.value = d.value
    BY ONLY <2>4, <2>3, <1>1, EditedRows
  <2>6. IsNew(d) /\ d.value = Plain
    BY <2>1, <1>1, <1>7, TrimmedTexts DEF Typeable
  <2>7. Filled(n) /\ Filled(Plain)
    BY <2>1, <2>2, TrimmedTexts, TextsAreDistinct DEF Filled
  <2> QED BY <2>1, <2>5, <2>6, <2>7, <1>7 DEF OpsOf, OpsOn, WellFormed
<1>8. CASE tab = "limits"
  <2>1. op = SaveOp(d) /\ Number(d.value) > 0
    BY <1>2, <1>8 DEF Save, LimitSave, Columns, LimitColumns
  <2>2. d.value \in Nat \cup {Blank} /\ d.name \in ToSet(EmissionTypes) /\ (IsNew(d) \/ d.id = d.name)
    BY <1>1, <1>8 DEF Typeable
  <2>3. PICK v : v = Number(d.value)
    OBVIOUS
  <2>4. v \in Nat \ {0}
    <3>1. CASE d.value \in Nat
      BY <3>1, <2>1, <2>3, TrimmedTexts
    <3>2. CASE d.value = Blank
      BY <3>2, <2>1, TrimmedTexts
    <3> QED BY <3>1, <3>2, <2>2
  <2>5. row = [d EXCEPT !.value = v]
    BY <1>2, <1>8, <2>3 DEF Save, LimitSave
  <2>6. v \in Cells
    BY <2>4 DEF Cells
  <2>7. row \in RowsNow /\ row.id = d.id /\ row.name = d.name /\ row.value = v
    BY ONLY <2>5, <2>6, <1>1, EditedRows
  <2> QED BY <2>1, <2>2, <2>4, <2>7, <1>8 DEF SaveOp, OpsOf, OpsOn, WellFormed, Listable
<1>9. CASE tab = "ranges"
  <2>1. op = "save" /\ ~IsBlank(d.name) /\ ~IsBlank(d.value) /\ ~(Number(d.value) < Number(d.name))
    <3>1. op = "save" /\ Columns(d).invalid = BlankAmong(d, {"name", "value"})
              \cup {c \in {"value"} : ~IsBlank(d.value) /\ Number(d.value) < Number(d.name)}
      BY <1>2, <1>9 DEF Save, RangeSave, Columns, RangeColumns
    <3>2. BlankAmong(d, {"name", "value"}) = {}
          /\ ~(~IsBlank(d.value) /\ Number(d.value) < Number(d.name))
      BY <3>1
    <3> QED BY <3>1, <3>2 DEF BlankAmong
  <2>2. ~IsNew(d) /\ d.name \in Nat \cup {Blank} /\ d.value \in Nat \cup {Blank}
    BY <1>1, <1>9 DEF Typeable
  <2>3. d.name \in Nat /\ d.value \in Nat
    BY <2>1, <2>2, TrimmedTexts
  <2>4. PICK n, v : n = d.name /\ v = d.value
    OBVIOUS
  <2>5. n \in Nat /\ v \in Nat /\ Number(n) = n /\ Number(v) = v /\ n <= v
    <3>1. n \in Nat /\ v \in Nat
      BY <2>3, <2>4
    <3>2. Number(n) = n /\ Number(v) = v
      BY <3>1, TrimmedTexts
    <3> QED BY <3>1, <3>2, <2>1, <2>4
  <2>6. row = [d EXCEPT !.name = n, !.value = v]
    BY <1>2, <1>9, <2>4, <2>5 DEF Save, RangeSave
  <2>7. n \in Cells /\ v \in Cells
    BY <2>5 DEF Cells
  <2>8. row \in RowsNow /\ row.id = d.id /\ row.name = n /\ row.value = v
    BY ONLY <2>6, <2>7, <1>1 DEF RowsNow
  <2> QED BY <2>1, <2>2, <2>5, <2>8, <1>9 DEF OpsOf, OpsOn, WellFormed, Listable
<1> QED BY <1>3, <1>4, <1>5, <1>6, <1>7, <1>8, <1>9

\* Saving the row.
LEMMA SaveRowKeepsInv ==
  ASSUME Inv, SaveRow
  PROVE  Inv'
<1>1. PICK d : d = draft
  OBVIOUS
<1>2. EditorShown /\ rows # None /\ screen \in HasGrid /\ d \in Drafts /\ draft # NoRow
  BY <1>1, EditedDraft DEF SaveRow, Inv
<1>3. CASE RefuseSave(Columns(draft).invalid) /\ ByGrid
  <2>1. UNCHANGED <<clientPage, editingKey, draft, addedRow>> /\ problems' = Columns(d).invalid
    BY <1>1, <1>3 DEF RefuseSave
  <2>2. Columns(d).invalid \subseteq {"name", "value"}
    BY <1>2, TabsAre DEF Inv, RowsInv, HasGrid, Columns, FacilityColumns, OrgColumns, FieldColumns, PermitColumns, LimitColumns, RangeColumns, BlankAmong
  <2>3. UNCHANGED <<screen, page, store, requests, sends>>
    BY <1>3 DEF ByGrid, NoSend
  <2>4. RowsInv' /\ UNCHANGED <<tab, route, lists, error>>
    BY <2>3, PageIsLeft DEF Inv
  <2>5. Drafts' = Drafts
    BY <2>3, <2>4 DEF Drafts, RowsNow, Typeable
  <2>6. EditorInv'
    BY <2>1, <2>2, <2>5 DEF Inv, EditorInv, OneOpenEditor, KeyOf, IsNew
  <2>7. draft' # NoRow /\ ~IsNew(draft)' => draft \in Known /\ draft' = draft
    BY <2>1, KnownIs DEF IsNew, KeyOf
  <2> QED BY <2>3, <2>4, <2>6, <2>7, QuietStep
<1>4. CASE /\ Columns(draft).invalid = {}
           /\ CloseEditor
           /\ Run(Save(draft).op, Save(draft).row)
           /\ UNCHANGED <<screen, layout, tab, route, head, lists, asked, cards, form, store>>
  <2>1. PICK op, row : op = Save(d).op /\ row = Save(d).row
    OBVIOUS
  <2>2. /\ op \in OpsOf /\ op = IF IsNew(d) THEN "add" ELSE "save"
        /\ row \in RowsNow /\ row.id = d.id /\ WellFormed(tab, row)
        /\ ~IsNew(d) => row \in Listed
        /\ ~IsNew(d) /\ tab \in {"orgs", "fields"} => row.name = d.name
    BY <2>1, <1>1, <1>2, <1>4, SavesAreWellFormed DEF Inv
  <2>3. op = "add" => IsNew(row)
    BY <2>2 DEF IsNew, KeyOf
  <2>4. op = "save" => d \in Known
    BY <2>2, <1>1, <1>2, KnownIs
  <2>5. Run(op, row)
    BY <2>1, <1>1, <1>4
  <2>6. /\ asked' \in {None} \cup ListedIn(screen) /\ DOMAIN cards' = DOMAIN cards
        /\ \A k \in DOMAIN cards : cards'[k] \in [editing : BOOLEAN, text : Cells]
        /\ form' \in [name : Cells, value : Cells]
    BY <1>4 DEF Inv, RowsInv
  <2> QED BY <2>2, <2>3, <2>4, <2>5, <2>6, <1>2, <1>4, RunKeepsInv
<1> QED BY <1>3, <1>4 DEF SaveRow

(***************************************************************************)
(* The buttons, the questions and the cards.                               *)
(***************************************************************************)

\* A step that sends nothing and leaves the grid alone: a question or a card.
LEMMA QuietPageStep ==
  ASSUME Inv, UNCHANGED <<grid, screen, layout, tab, route, head, lists, store>>, NoSend, error' = error,
         asked' \in {None} \cup ListedIn(screen), DOMAIN cards' = DOMAIN cards,
         \A k \in DOMAIN cards : cards'[k] \in [editing : BOOLEAN, text : Cells],
         form' \in [name : Cells, value : Cells]
  PROVE  Inv'
<1>1. UNCHANGED <<requests, sends>> /\ sends \in Nat
  BY DEF NoSend, Inv, RowsInv
<1>2. RowsInv'
  <2>1. sends' \in Nat /\ sends <= sends' /\ route' \in RoutesOf(screen) /\ RowsInv
    BY <1>1 DEF Inv, RowsInv
  <2>2. error' \in BOOLEAN
    BY DEF Inv, RowsInv
  <2> QED BY <2>1, <2>2, RowsAreLeft
<1>3. EditorInv' /\ draft' = draft
  <2>1. sends' \in Nat /\ sends <= sends'
    BY <1>1
  <2> QED BY <2>1, EditorIsLeft DEF Inv
<1>4. draft' # NoRow /\ ~IsNew(draft)' => draft \in Known
  BY <1>3, KnownIs DEF IsNew, KeyOf
<1> QED BY <1>1, <1>2, <1>3, <1>4, QuietStep

\* Asking, or sending at once, about a row that is listed.
LEMMA AskOrRun ==
  ASSUME Inv, NEW row \in Listed, rows # None,
         \/ screen \in {"facilities", "reports"} /\ Ask(row)
         \/ /\ tab \in {"orgs", "permits", "limits"}
            /\ Run("remove", row) /\ UNCHANGED asked
         \/ screen = "fields" /\ FieldButtons(row),
         UNCHANGED <<grid, screen, layout, tab, route, head, lists, cards, form, store>>
  PROVE  Inv'
<1>1. row \in RowsNow
  BY DEF Listed, ListedIn
<1>0. screen # "details" => tab = screen /\ Listed = ListedIn(screen)
  BY TabsAre DEF Inv, RowsInv, Listed
<1>2. /\ asked \in {None} \cup ListedIn(screen)
      /\ \A k \in DOMAIN cards : cards'[k] \in [editing : BOOLEAN, text : Cells]
      /\ form' \in [name : Cells, value : Cells] /\ DOMAIN cards' = DOMAIN cards
  BY DEF Inv, RowsInv
<1>3. CASE screen \in {"facilities", "reports"} /\ Ask(row)
  BY <1>0, <1>2, <1>3, QuietPageStep DEF Ask
<1>4. CASE tab \in {"orgs", "permits", "limits"} /\ Run("remove", row) /\ UNCHANGED asked
  <2>1. "remove" \in OpsOf
    BY <1>4 DEF OpsOf, OpsOn
  <2> QED BY <2>1, <1>1, <1>2, <1>4, RunKeepsInv
<1>5. CASE screen = "fields" /\ FieldButtons(row)
  <2>1. PICK op : op = IF row.active THEN "retire" ELSE "reactivate"
    OBVIOUS
  <2>2. op \in OpsOf /\ op \notin {"add", "save"}
    BY <2>1, <1>0, <1>5 DEF OpsOf, OpsOn
  <2>3. Run(op, row) /\ UNCHANGED asked
    BY <2>1, <1>5 DEF FieldButtons
  <2> QED BY <2>2, <2>3, <1>1, <1>2, RunKeepsInv
<1> QED BY <1>3, <1>4, <1>5

\* The button of a row.
LEMMA RowButtonKeepsInv ==
  ASSUME Inv, RowButton
  PROVE  Inv'
<1>1. PICK row \in Range(Visible) :
        /\ KeyOf(row) # editingKey /\ ~IsNew(row)
        /\ \/ screen = "facilities" /\ FacilityButtons(row)
           \/ screen = "orgs" /\ OrgButtons(row)
           \/ screen = "fields" /\ FieldButtons(row)
           \/ tab = "permits" /\ PermitButtons(row)
           \/ tab = "limits" /\ LimitButtons(row)
  BY DEF RowButton
<1>2. rows # None /\ row \in Listed
  BY <1>1, ShownRows DEF Inv
<1>3. UNCHANGED <<grid, screen, layout, tab, route, head, lists, cards, form, store>>
  BY DEF RowButton
<1>4. screen # "details" => tab = screen
  BY TabsAre DEF Inv, RowsInv
<1> QED BY <1>1, <1>2, <1>3, <1>4, AskOrRun DEF FacilityButtons, OrgButtons, PermitButtons, LimitButtons

\* The button of a card.
LEMMA CardButtonKeepsInv ==
  ASSUME Inv, CardButton
  PROVE  Inv'
<1>1. PICK row \in Range(rows) :
        \/ screen = "facilities" /\ FacilityButtons(row)
        \/ screen = "orgs" /\ OrgButtons(row)
        \/ screen = "fields" /\ FieldButtons(row)
        \/ screen = "reports" /\ ReportButtons(row)
  BY DEF CardButton
<1>2. rows # None /\ UNCHANGED <<grid, screen, layout, tab, route, head, lists, cards, form, store>>
  BY DEF CardButton
<1>3. row \in Listed
  BY <1>2, RowsAre DEF Inv, Range
<1>4. screen # "details" => tab = screen
  BY TabsAre DEF Inv, RowsInv
<1> QED BY <1>1, <1>2, <1>3, <1>4, AskOrRun DEF FacilityButtons, OrgButtons, ReportButtons

\* The dialog of Facilities.
LEMMA ConfirmDialogKeepsInv ==
  ASSUME Inv, ConfirmDialog
  PROVE  Inv'
<1>1. PICK row : row = asked
  OBVIOUS
<1>2. row \in RowsNow /\ Run("remove", row) /\ tab = "facilities" /\ screen = "facilities" /\ asked' = None
  BY <1>1, TabsAre DEF ConfirmDialog, Inv, RowsInv, ListedIn
<1>3. "remove" \in OpsOf
  BY <1>2 DEF OpsOf, OpsOn
<1>4. UNCHANGED <<grid, screen, layout, tab, route, head, lists, cards, form, store>>
  BY DEF ConfirmDialog
<1>5. /\ \A k \in DOMAIN cards : cards'[k] \in [editing : BOOLEAN, text : Cells]
      /\ form' \in [name : Cells, value : Cells] /\ DOMAIN cards' = DOMAIN cards
  BY <1>4 DEF Inv, RowsInv
<1> QED BY <1>2, <1>3, <1>4, <1>5, RunKeepsInv

\* The question on the card of a template.
LEMMA ConfirmCardKeepsInv ==
  ASSUME Inv, ConfirmCard
  PROVE  Inv'
<1>1. PICK row \in Range(rows) : Run("remove", row)
  BY DEF ConfirmCard
<1>2. screen = "reports" /\ tab = "reports"
  BY TabsAre DEF ConfirmCard, Inv, RowsInv
<1>3. UNCHANGED <<grid, screen, layout, tab, route, head, lists, asked, cards, form, store>> /\ asked # None
  BY DEF ConfirmCard
<1>4. rows # None /\ row \in Listed /\ row \in RowsNow
  BY RowsAre DEF ConfirmCard, Inv, Range
<1>5. "remove" \in OpsOf
  BY <1>2 DEF OpsOf, OpsOn
<1>6. /\ \A k \in DOMAIN cards : cards'[k] \in [editing : BOOLEAN, text : Cells]
      /\ form' \in [name : Cells, value : Cells] /\ DOMAIN cards' = DOMAIN cards
      /\ asked' \in {None} \cup ListedIn(screen)
  BY <1>3 DEF Inv, RowsInv
<1> QED BY <1>1, <1>2, <1>3, <1>4, <1>5, <1>6, RunKeepsInv

\* The question is taken back.
LEMMA DoNotConfirmKeepsInv ==
  ASSUME Inv, DoNotConfirm
  PROVE  Inv'
<1>1. /\ asked' = None /\ NoSend
      /\ UNCHANGED <<grid, screen, layout, tab, route, head, lists, error, cards, form, store>>
  BY DEF DoNotConfirm
<1>2. /\ \A k \in DOMAIN cards : cards'[k] \in [editing : BOOLEAN, text : Cells]
      /\ form' \in [name : Cells, value : Cells] /\ DOMAIN cards' = DOMAIN cards
  BY <1>1 DEF Inv, RowsInv
<1> QED BY <1>1, <1>2, QuietPageStep

\* The row of a card.
LEMMA RowsOfCards ==
  ASSUME RowsInv, layout = "cards", rows # None, NEW k \in DOMAIN cards
  PROVE  RowOf(k) \in Listed /\ RowOf(k) \in Range(rows) /\ RowOf(k).id = k /\ RowOf(k) \in Known
<1>1. k \in KeysOf(rows)
  BY DEF RowsInv
<1>2. \E row \in Range(rows) : KeyOf(row) = k
  BY <1>1 DEF KeysOf, Range
<1>3. RowOf(k) \in Range(rows) /\ KeyOf(RowOf(k)) = k
  BY <1>2 DEF RowOf
<1>4. RowOf(k) \in Known
  BY <1>3, KnownIs
<1> QED BY <1>3, <1>4, RowsAre DEF Range, KeyOf

\* What is typed into a card or a form is a text, or what its row has already.
LEMMA TypedTexts ==
  ASSUME tab \in {"facilities", "orgs", "fields"}, NEW c, NEW v \in Typed(c)
  PROVE  v \in Cells
BY DEF Typed, Cells, Texts

\* A card that has no editor open is opened, typed into or cancelled.
LEMMA CardKeepsInv ==
  ASSUME Inv, HasCardEditor, ByCards, NEW k \in DOMAIN cards,
         EditCard(k) \/ TypeInCard(k) \/ CancelCard(k)
  PROVE  Inv'
<1>1. /\ UNCHANGED <<grid, screen, layout, tab, route, head, lists, asked, store>>
      /\ layout = "cards" /\ rows # None /\ screen \in {"facilities", "orgs", "fields"} /\ tab = screen
  BY TabsAre DEF ByCards, HasCardEditor, Inv, RowsInv, HasCards
<1>2. UNCHANGED <<error, form>> /\ UNCHANGED <<requests, sends>>
  BY DEF EditCard, TypeInCard, CancelCard, NoSend, Type
<1>3. PICK v : cards' = [cards EXCEPT ![k] = v] /\ v \in [editing : BOOLEAN, text : Cells]
  <2>0. PICK card : card = cards[k] /\ card \in [editing : BOOLEAN, text : Cells]
    BY DEF Inv, RowsInv
  <2>1. CASE EditCard(k)
    <3>1. PICK v : v = [card EXCEPT !.editing = TRUE]
      OBVIOUS
    <3>2. cards' = [cards EXCEPT ![k] = v]
      BY <3>1, <2>0, <2>1 DEF EditCard
    <3>3. v \in [editing : BOOLEAN, text : Cells]
      BY <3>1, <2>0
    <3> QED BY <3>2, <3>3
  <2>2. CASE TypeInCard(k)
    <3>1. PICK text \in Typed(IF screen = "facilities" THEN "name" ELSE "value") :
            cards' = [cards EXCEPT ![k].text = text]
      BY <2>2 DEF TypeInCard
    <3>2. text \in Cells
      BY <3>1, <1>1, TypedTexts
    <3>3. PICK v : v = [card EXCEPT !.text = text]
      OBVIOUS
    <3>4. cards' = [cards EXCEPT ![k] = v]
      BY <3>1, <3>3, <2>0
    <3>5. v \in [editing : BOOLEAN, text : Cells]
      BY <3>2, <3>3, <2>0
    <3> QED BY <3>4, <3>5
  <2>3. CASE CancelCard(k)
    <3>1. PICK row : row = RowOf(k) /\ row \in Listed
      BY <1>1, RowsOfCards DEF Inv
    <3>2. CardText(screen, row) \in Cells
      BY <3>1 DEF CardText, Listed, ListedIn, RowsNow
    <3>3. PICK v : v = [editing |-> FALSE, text |-> CardText(screen, row)]
      OBVIOUS
    <3>4. cards' = [cards EXCEPT ![k] = v]
      BY <3>1, <3>3, <2>3 DEF CancelCard
    <3>5. v \in [editing : BOOLEAN, text : Cells]
      BY <3>2, <3>3
    <3> QED BY <3>4, <3>5
  <2> QED BY <2>1, <2>2, <2>3
<1>4. DOMAIN cards' = DOMAIN cards /\ \A j \in DOMAIN cards : cards'[j] \in [editing : BOOLEAN, text : Cells]
  BY <1>3 DEF Inv, RowsInv
<1>5. asked' \in {None} \cup ListedIn(screen) /\ form' \in [name : Cells, value : Cells] /\ error' = error
  BY <1>1, <1>2 DEF Inv, RowsInv
<1>6. sends' \in Nat /\ sends <= sends' /\ sends' = sends
  BY <1>2 DEF Inv, RowsInv
<1>7. RowsInv'
  <2>1. route' \in RoutesOf(screen) /\ RowsInv
    BY <1>1 DEF Inv, RowsInv
  <2>2. error' \in BOOLEAN
    BY <1>2 DEF Inv, RowsInv
  <2> QED BY <1>1, <1>4, <1>5, <1>6, <2>1, <2>2, RowsAreLeft
<1>8. EditorInv' /\ draft' = draft
  BY <1>1, <1>6, EditorIsLeft DEF Inv
<1>9. draft' # NoRow /\ ~IsNew(draft)' => draft \in Known
  BY <1>8, KnownIs DEF IsNew, KeyOf
<1> QED BY <1>1, <1>2, <1>7, <1>8, <1>9, QuietStep

\* A card is saved.
LEMMA SaveCardKeepsInv ==
  ASSUME Inv, HasCardEditor, ByCards, NEW k \in DOMAIN cards, SaveCard(k)
  PROVE  Inv'
<1>1. /\ UNCHANGED <<grid, screen, layout, tab, route, head, lists, asked, store>>
      /\ layout = "cards" /\ rows # None /\ screen \in {"facilities", "orgs", "fields"} /\ tab = screen
  BY TabsAre DEF ByCards, HasCardEditor, Inv, RowsInv, HasCards
<1>2. PICK old, text, v : old = RowOf(k) /\ text = cards[k].text /\ v = Trimmed(text)
  OBVIOUS
<1>3. old \in Listed /\ old \in Known /\ old \in RowsNow /\ ~IsNew(old) /\ Listable(tab, old)
  BY <1>1, <1>2, RowsOfCards DEF Inv, Listed, ListedIn
<1>4. text \in Cells /\ v \in Cells
  BY <1>2, TrimmedTexts DEF Inv, RowsInv
<1>5. PICK row : row = CardRow(screen, old, text)
  OBVIOUS
<1>6. Run("save", row) /\ UNCHANGED form /\ cards' = [cards EXCEPT ![k].editing = FALSE]
      /\ (screen # "orgs" => Filled(v))
  BY <1>2, <1>5, TrimmedTexts DEF SaveCard, CardMayBeSaved
<1>7. row \in RowsNow /\ row.id = old.id /\ (tab \in {"orgs", "fields"} => row.name = old.name)
      /\ WellFormed(tab, row) /\ row \in Listed
  <2>1. CASE screen = "facilities"
    <3>1. row = [old EXCEPT !.name = v]
      BY <1>2, <1>5, <2>1 DEF CardRow, FacilityCard
    <3>a. tab = "facilities"
      BY <1>1, <2>1
    <3>2. row \in RowsNow /\ row.id = old.id /\ row.name = v
      BY ONLY <3>1, <1>3, <1>4, EditedRows
    <3> QED BY <3>a, <3>2, <1>3, <1>6, <2>1 DEF WellFormed, Listed, ListedIn, Listable, IsNew, KeyOf
  <2>2. CASE tab \in {"orgs", "fields"}
    <3>1. row = [old EXCEPT !.value = v]
      BY <1>1, <1>2, <1>5, <2>2 DEF CardRow, OrgCard, FieldCard
    <3>2. row \in RowsNow /\ row.id = old.id /\ row.name = old.name /\ row.value = v
      BY ONLY <3>1, <1>3, <1>4 DEF RowsNow
    <3> QED BY <3>2, <1>1, <1>3, <1>6, <2>2 DEF WellFormed, Listed, ListedIn, Listable, IsNew, KeyOf
  <2> QED BY <2>1, <2>2, <1>1
<1>8. "save" \in OpsOf
  BY <1>1 DEF OpsOf, OpsOn
<1>9. /\ asked' \in {None} \cup ListedIn(screen) /\ DOMAIN cards' = DOMAIN cards
      /\ \A j \in DOMAIN cards : cards'[j] \in [editing : BOOLEAN, text : Cells]
      /\ form' \in [name : Cells, value : Cells]
  <2>1. PICK card : card = cards[k] /\ card \in [editing : BOOLEAN, text : Cells]
    BY DEF Inv, RowsInv
  <2>2. PICK w : w = [card EXCEPT !.editing = FALSE]
    OBVIOUS
  <2>3. w \in [editing : BOOLEAN, text : Cells] /\ cards' = [cards EXCEPT ![k] = w]
    BY <1>6, <2>1, <2>2
  <2> QED BY <2>3, <1>1, <1>6 DEF Inv, RowsInv
<1> QED BY <1>1, <1>3, <1>6, <1>7, <1>8, <1>9, RunKeepsInv

\* A step on a card.
LEMMA OnCardKeepsInv ==
  ASSUME Inv, OnCard
  PROVE  Inv'
BY CardKeepsInv, SaveCardKeepsInv DEF OnCard

\* Typing into the form above the cards.
LEMMA TypeInFormKeepsInv ==
  ASSUME Inv, TypeInForm
  PROVE  Inv'
<1>1. /\ UNCHANGED <<grid, screen, layout, tab, route, head, lists, asked, store>>
      /\ screen \in {"facilities", "orgs", "fields"} /\ tab = screen
  BY TabsAre DEF TypeInForm, ByCards, HasCardEditor, Inv, RowsInv, HasCards
<1>2. PICK c \in FormColumns : \E v \in Typed(c) : form' = [form EXCEPT ![c] = v]
  BY DEF TypeInForm
<1>3. PICK v \in Typed(c) : form' = [form EXCEPT ![c] = v]
  BY <1>2
<1>4. UNCHANGED <<error, cards>> /\ UNCHANGED <<requests, sends>>
  BY DEF TypeInForm, Type
<1>5. v \in Cells
  BY <1>1, <1>3, TypedTexts
<1>6. form' \in [name : Cells, value : Cells]
  BY <1>3, <1>5 DEF Inv, RowsInv
<1>7. sends' \in Nat /\ sends <= sends' /\ sends' = sends
  BY <1>4 DEF Inv, RowsInv
<1>8. RowsInv'
  <2>1. route' \in RoutesOf(screen) /\ RowsInv /\ asked' \in {None} \cup ListedIn(screen) /\ DOMAIN cards' = DOMAIN cards
        /\ \A k \in DOMAIN cards : cards'[k] \in [editing : BOOLEAN, text : Cells]
    BY <1>1, <1>4 DEF Inv, RowsInv
  <2>2. error' \in BOOLEAN
    BY <1>4 DEF Inv, RowsInv
  <2> QED BY <1>1, <1>6, <1>7, <2>1, <2>2, RowsAreLeft
<1>9. EditorInv' /\ draft' = draft
  BY <1>1, <1>7, EditorIsLeft DEF Inv
<1>10. draft' # NoRow /\ ~IsNew(draft)' => draft \in Known
  BY <1>9, KnownIs DEF IsNew, KeyOf
<1> QED BY <1>1, <1>4, <1>8, <1>9, <1>10, QuietStep

\* Adding what the form holds.
LEMMA AddByFormKeepsInv ==
  ASSUME Inv, AddByForm
  PROVE  Inv'
<1>1. /\ UNCHANGED <<grid, screen, layout, tab, route, head, lists, asked, store>>
      /\ screen \in {"facilities", "orgs", "fields"} /\ tab = screen /\ rows # None
  BY TabsAre DEF AddByForm, ByCards, HasCardEditor, Inv, RowsInv, HasCards
<1>2. PICK n, v : n = form.name /\ v = form.value
  OBVIOUS
<1>3. n \in Cells /\ v \in Cells
  BY <1>2 DEF Inv, RowsInv
<1>4. ~IsBlank(n) /\ (screen = "fields" => ~IsBlank(v))
  BY <1>2 DEF AddByForm, FormColumns
<1>5. PICK d : d = [BlankRow EXCEPT !.name = n, !.value = v]
  OBVIOUS
<1>6. d \in RowsNow /\ d.id = NewKey /\ d.name = n /\ d.value = v
  BY ONLY <1>5, <1>3 DEF BlankRow, RowsNow
<1>7. PICK row : row = TrimmedRow(d)
  OBVIOUS
<1>8. row \in RowsNow /\ row.id = NewKey /\ row.name = Trimmed(n) /\ row.value = Trimmed(v)
  BY <1>6, <1>7, TrimmedRows
<1>9. Run("add", row) /\ form' = EmptyForm /\ UNCHANGED cards
  BY <1>2, <1>5, <1>7 DEF AddByForm
<1>10. WellFormed(tab, row) /\ IsNew(row) /\ "add" \in OpsOf
  <2>1. Filled(row.name) /\ (screen = "fields" => Filled(row.value))
    BY <1>4, <1>8, TrimmedTexts
  <2> QED BY <2>1, <1>1, <1>8 DEF WellFormed, IsNew, KeyOf, OpsOf, OpsOn
<1>11. /\ asked' \in {None} \cup ListedIn(screen) /\ DOMAIN cards' = DOMAIN cards
       /\ \A k \in DOMAIN cards : cards'[k] \in [editing : BOOLEAN, text : Cells]
       /\ form' \in [name : Cells, value : Cells]
  BY <1>1, <1>9 DEF Inv, RowsInv, EmptyForm, Cells, Texts
<1> QED BY <1>1, <1>8, <1>9, <1>10, <1>11, RunKeepsInv

(***************************************************************************)
(* What happens around the screen.                                         *)
(***************************************************************************)

\* The loads a screen sends together, with one number.
LoadsAt(n, of) ==
  {Request(n, "list", t, of, NoRow, TRUE) : t \in TabsOf(screen)}
    \cup {Request(n, "head", "head", of, NoRow, TRUE) : x \in IF HasHead THEN {of} ELSE {}}

\* What a load is.
Load(q, n, of) ==
  /\ q.op \in {"list", "head"} /\ q.tab \in {"head"} \cup TabsOf(screen) /\ (q.op = "head" <=> q.tab = "head")
  /\ q = [n |-> n, op |-> q.op, tab |-> q.tab, of |-> of, row |-> NoRow, effect |-> TRUE,
          back |-> "sent", list |-> <<>>, at |-> 0, late |-> FALSE]

\* A screen loads each of its lists, and those with a second load that too.
LEMMA LoadsAre ==
  ASSUME RowsInv, NEW n, NEW of
  PROVE  /\ \A q \in LoadsAt(n, of) : Load(q, n, of)
         /\ \A p, q \in LoadsAt(n, of) : p.tab = q.tab => p = q
         /\ \A t \in TabsOf(screen) : \E q \in LoadsAt(n, of) : q.op = "list" /\ q.tab = t
<1>1. ASSUME NEW t \in TabsOf(screen)
      PROVE  /\ Load(Request(n, "list", t, of, NoRow, TRUE), n, of)
             /\ Request(n, "list", t, of, NoRow, TRUE).op = "list"
             /\ Request(n, "list", t, of, NoRow, TRUE).tab = t
  <2>1. t # "head"
    BY TabsAre
  <2> QED BY <2>1 DEF Request, Load
<1>2. Load(Request(n, "head", "head", of, NoRow, TRUE), n, of)
  BY DEF Request, Load
<1>3. \A q \in LoadsAt(n, of) : Load(q, n, of)
  BY <1>1, <1>2 DEF LoadsAt
<1>4. \A t \in TabsOf(screen) : \E q \in LoadsAt(n, of) : q.op = "list" /\ q.tab = t
  BY <1>1 DEF LoadsAt
<1>5. ASSUME NEW p \in LoadsAt(n, of), NEW q \in LoadsAt(n, of), p.tab = q.tab PROVE p = q
  <2>1. Load(p, n, of) /\ Load(q, n, of)
    BY <1>3
  <2>2. p.op = q.op
    BY <2>1, <1>5 DEF Load
  <2>3. PICK op, t : op = p.op /\ t = p.tab
    OBVIOUS
  <2>4. p = [n |-> n, op |-> op, tab |-> t, of |-> of, row |-> NoRow, effect |-> TRUE,
             back |-> "sent", list |-> <<>>, at |-> 0, late |-> FALSE]
    BY <2>1, <2>3 DEF Load
  <2>5. q = [n |-> n, op |-> op, tab |-> t, of |-> of, row |-> NoRow, effect |-> TRUE,
             back |-> "sent", list |-> <<>>, at |-> 0, late |-> FALSE]
    BY <2>1, <2>2, <2>3, <1>5 DEF Load
  <2> QED BY ONLY <2>4, <2>5
<1> QED BY <1>3, <1>4, <1>5

\* The fields of a load.
LEMMA LoadFields ==
  ASSUME NEW n, NEW of, NEW q, Load(q, n, of)
  PROVE  /\ q.n = n /\ q.of = of /\ q.row = NoRow /\ q.effect = TRUE /\ q.back = "sent"
         /\ q.list = <<>> /\ q.at = 0 /\ q.late = FALSE
<1>1. PICK op, t : op = q.op /\ t = q.tab
  OBVIOUS
<1>2. q = [n |-> n, op |-> op, tab |-> t, of |-> of, row |-> NoRow, effect |-> TRUE,
           back |-> "sent", list |-> <<>>, at |-> 0, late |-> FALSE]
  BY <1>1 DEF Load
<1> QED BY ONLY <1>2

\* A load is a request.
LEMMA LoadsAreRequests ==
  ASSUME NEW n, NEW of, NEW q, Load(q, n, of)
  PROVE  /\ n \in 0 .. sends /\ of \in RoutesOf(screen) => q \in Requests /\ Carries(q)
         /\ screen' = screen /\ n \in 0 .. sends' /\ of \in RoutesOf(screen) => q \in Requests' /\ Carries(q)'
<1>2. PICK op, t : op = q.op /\ t = q.tab
  OBVIOUS
<1>3. op \in {"list", "head"} /\ t \in {"head"} \cup TabsOf(screen) /\ (op = "head" <=> t = "head")
  BY <1>2 DEF Load
<1>4. q = [n |-> n, op |-> op, tab |-> t, of |-> of, row |-> NoRow, effect |-> TRUE,
           back |-> "sent", list |-> <<>>, at |-> 0, late |-> FALSE]
  BY <1>2 DEF Load
<1>1. q.row = NoRow /\ q.effect = TRUE /\ q.back = "sent" /\ q.list = <<>>
  BY ONLY <1>4
<1>5. op \in Ops /\ \A S : <<>> \in Seq(S)
  BY <1>3 DEF Ops
<1>6. ASSUME n \in 0 .. sends, of \in RoutesOf(screen) PROVE q \in Requests
  BY <1>3, <1>4, <1>5, <1>6 DEF Requests
<1>7. ASSUME screen' = screen, n \in 0 .. sends', of \in RoutesOf(screen) PROVE q \in Requests'
  BY <1>3, <1>4, <1>5, <1>7 DEF Requests
<1>8. Carries(q)
  BY <1>1, <1>2, <1>3, <1>5 DEF Carries
<1>9. Carries(q)'
  BY <1>1, <1>2, <1>3, <1>5 DEF Carries
<1> QED BY <1>6, <1>7, <1>8, <1>9

\* The load effects run again.
LEMMA LoadAgainKeepsInv ==
  ASSUME Inv, NEW of \in RoutesOf(screen), LoadAgain(of), route' = of,
         UNCHANGED <<grid, screen, layout, tab, head, lists, error, asked, cards, form, store>>
  PROVE  Inv'
<1>1. /\ sends' = sends + 1 /\ requests' = {r \in requests : ~r.effect} \cup Loads(of)
  BY DEF LoadAgain
<1>2. PICK L, n : L = LoadsAt(n, of) /\ n = sends'
  OBVIOUS
<1>3. sends \in Nat /\ sends' \in Nat /\ sends <= sends' /\ n = sends + 1 /\ rows' = rows
  BY <1>1, <1>2 DEF Inv, RowsInv, rows
<1>4. requests' = {r \in requests : ~r.effect} \cup L
  BY <1>1, <1>2 DEF Loads, LoadsAt
<1>5. /\ \A q \in L : Load(q, n, of)
      /\ \A p, q \in L : p.tab = q.tab => p = q
  BY <1>2, LoadsAre DEF Inv
<1>6. \A q \in L : /\ q.n = n /\ q.back = "sent" /\ q.list = <<>> /\ q.op \in {"list", "head"}
                   /\ q \in Requests' /\ Carries(q)'
  <2> SUFFICES ASSUME NEW q \in L
               PROVE  /\ q.n = n /\ q.back = "sent" /\ q.list = <<>> /\ q.op \in {"list", "head"}
                      /\ q \in Requests' /\ Carries(q)'
    OBVIOUS
  <2>1. Load(q, n, of)
    BY <1>5
  <2>2. n \in 0 .. sends'
    BY <1>1, <1>3
  <2> QED BY <2>1, <2>2, LoadFields, LoadsAreRequests DEF Load
<1>7. RowsInv'
  <2>1. /\ RowsInv /\ asked' \in {None} \cup ListedIn(screen) /\ route' \in RoutesOf(screen)
        /\ DOMAIN cards' = DOMAIN cards
        /\ \A k \in DOMAIN cards : cards'[k] \in [editing : BOOLEAN, text : Cells]
        /\ form' \in [name : Cells, value : Cells]
    BY DEF Inv, RowsInv
  <2>2. error' \in BOOLEAN
    BY DEF Inv, RowsInv
  <2> QED BY <1>3, <2>1, <2>2, RowsAreLeft
<1>8. EditorInv' /\ draft' = draft
  BY <1>3, EditorIsLeft DEF Inv
<1>9. \A r \in requests' : r \in requests \/ r \in L
  BY <1>4
<1>10. RequestsInv'
  <2>1. \A r \in requests : r \in Requests' /\ Carries(r)' /\ r.n # n
    <3>1. \A r \in requests : r \in Requests' /\ Carries(r)'
      BY <1>3, RequestsStay DEF Inv, RequestsInv
    <3>2. \A r \in requests : r.n \in 0 .. sends
      BY DEF Inv, RequestsInv, Requests
    <3> QED BY <3>1, <3>2, <1>3
  <2>2. \A r \in requests' : r \in Requests' /\ Carries(r)'
    BY <1>6, <1>9, <2>1
  <2>3. \A r, p \in requests' : r.n = p.n /\ r.tab = p.tab => r = p
    BY <1>5, <1>6, <1>9, <2>1 DEF Inv, RequestsInv
  <2> QED BY <2>2, <2>3 DEF RequestsInv
<1>11. NamesInv'
  <2>1. ASSUME NEW x \in Known' PROVE x \in Known
    <3>1. \A q \in L : q.op # "save" /\ x \notin Range(q.list)
      BY <1>6 DEF Range
    <3>2. UNCHANGED <<screen, tab, store>>
      OBVIOUS
    <3> QED BY <3>1, <3>2, <1>3, <1>8, <1>9, KnownIs, KnownIsLater DEF IsNew, KeyOf
  <2>2. \A r \in requests' : r.op = "add" => r \in requests
    BY <1>6, <1>9
  <2> QED BY <2>1, <2>2, NamesStay DEF Inv
<1> QED BY <1>7, <1>8, <1>10, <1>11 DEF Inv

\* The access token is renewed.
LEMMA RenewKeepsInv ==
  ASSUME Inv, Renew
  PROVE  Inv'
BY LoadAgainKeepsInv DEF Renew, page, Inv, RowsInv

\* Another Facility is opened.
LEMMA OpenFacilityKeepsInv ==
  ASSUME Inv, OpenFacility
  PROVE  Inv'
<1>1. PICK f \in Routes \ {route} : route' = f /\ LoadAgain(f)
  BY DEF OpenFacility
<1>2. f \in RoutesOf(screen)
  BY DEF OpenFacility, RoutesOf
<1> QED BY <1>1, <1>2, LoadAgainKeepsInv DEF OpenFacility

\* The cards of a list are those of its keys.
LEMMA CardsOfRows ==
  ASSUME NEW t, NEW list \in Seq(ListedIn(t)), NEW mounted,
         \A k \in DOMAIN mounted : mounted[k] \in [editing : BOOLEAN, text : Cells]
  PROVE  /\ DOMAIN CardsOf(list, mounted) = KeysOf(list)
         /\ \A k \in KeysOf(list) : CardsOf(list, mounted)[k] \in [editing : BOOLEAN, text : Cells]
<1>1. DOMAIN CardsOf(list, mounted) = KeysOf(list)
  BY DEF CardsOf
<1>2. ASSUME NEW k \in KeysOf(list)
      PROVE  CardsOf(list, mounted)[k] \in [editing : BOOLEAN, text : Cells]
  <2>1. CASE k \in DOMAIN mounted
    BY <2>1 DEF CardsOf
  <2>2. CASE k \notin DOMAIN mounted
    <3>1. PICK row : row = CHOOSE x \in Range(list) : KeyOf(x) = k
      OBVIOUS
    <3>2. \E x \in Range(list) : KeyOf(x) = k
      BY DEF KeysOf, Range
    <3>3. row \in Range(list)
      BY <3>1, <3>2
    <3>4. row \in ListedIn(t)
      BY <3>3 DEF Range
    <3>5. CardText(screen, row) \in Cells
      BY <3>4 DEF CardText, ListedIn, RowsNow
    <3>6. CardsOf(list, mounted)[k] = [editing |-> FALSE, text |-> CardText(screen, row)]
      BY <3>1, <2>2 DEF CardsOf
    <3> QED BY <3>5, <3>6
  <2> QED BY <2>1, <2>2
<1> QED BY <1>1, <1>2

\* The window crosses the breakpoint.
LEMMA ResizeKeepsInv ==
  ASSUME Inv, Resize
  PROVE  Inv'
<1>1. /\ UNCHANGED <<screen, tab, route, head, lists, error, asked, store, requests, sends>>
      /\ screen \in HasGrid \cap HasCards /\ form' = EmptyForm /\ RemountGrid
      /\ layout' = IF layout = "grid" THEN "cards" ELSE "grid"
      /\ cards' = IF layout' = "cards" /\ rows # None THEN CardsOf(rows, NoCards) ELSE NoCards
  BY DEF Resize
<1>2. DOMAIN NoCards = {}
  BY DEF NoCards
<1>3. /\ DOMAIN cards' = IF layout' = "cards" /\ rows # None THEN KeysOf(rows) ELSE {}
      /\ \A k \in DOMAIN cards' : cards'[k] \in [editing : BOOLEAN, text : Cells]
  <2>1. CASE layout' = "cards" /\ rows # None
    <3>1. rows \in Seq(ListedIn(tab))
      BY <2>1, RowsAre DEF Inv, Listed
    <3>2. cards' = CardsOf(rows, NoCards)
      BY <2>1, <1>1
    <3> QED BY <3>1, <3>2, <2>1, <1>2, CardsOfRows
  <2>2. CASE ~(layout' = "cards" /\ rows # None)
    BY <2>2, <1>1, <1>2
  <2> QED BY <2>1, <2>2
<1>4. rows' = rows /\ RowsNow' = RowsNow /\ \A t : ListedIn(t)' = ListedIn(t)
  BY <1>1 DEF rows, ListedIn, RowsNow
<1>5. form' \in [name : Cells, value : Cells]
  BY <1>1 DEF EmptyForm, Cells, Texts
<1>6. layout' \in {"grid", "cards"} /\ screen' \in IF layout' = "grid" THEN HasGrid ELSE HasCards
  BY <1>1
<1>7. RowsInv'
  BY <1>1, <1>3, <1>4, <1>5, <1>6 DEF Inv, RowsInv
<1>8. EditorInv' /\ draft' = NoRow
  BY <1>1, GridAssumption DEF RemountGrid, EditorInv, OneOpenEditor
<1> QED BY <1>1, <1>7, <1>8, QuietStep

(***************************************************************************)
(* The server works and the answers arrive.                                *)
(***************************************************************************)

\* The work done for each list is counted.
ServedInv == served \in [TabsOf(screen) -> [RoutesOf(screen) -> Nat]]

\* A table of tables with one entry changed.
LEMMA OneEntry ==
  ASSUME NEW A, NEW B, NEW S, NEW table \in [A -> [B -> S]], NEW a \in A, NEW b \in B, NEW v \in S
  PROVE  /\ [table EXCEPT ![a][b] = v] \in [A -> [B -> S]]
         /\ \A x \in A : \A y \in B :
              [table EXCEPT ![a][b] = v][x][y] = IF x = a /\ y = b THEN v ELSE table[x][y]
OBVIOUS

\* What any request is about.
LEMMA RequestsAre ==
  ASSUME RowsInv, RequestsInv, NEW r \in requests
  PROVE  /\ r \in Requests /\ r.of \in RoutesOf(screen) /\ r.n \in 0 .. sends /\ r.at \in Nat
         /\ r.back \in {"sent", "done", "lost"} /\ r.late \in BOOLEAN /\ r.effect \in BOOLEAN
         /\ r.op # "head" =>
              /\ r.tab \in TabsOf(screen) /\ r.op \in {"list"} \cup OpsOn(r.tab)
              /\ r.list \in Seq(ListedIn(r.tab))
              /\ store[r.tab][r.of] \in Seq(ListedIn(r.tab))
         /\ r.op = "head" => r.tab = "head" /\ r.list = <<>> /\ r.back = "sent"
         /\ r.op \in Ops
<1>1. r \in Requests /\ Carries(r)
  BY DEF RequestsInv
<1>2. r.op # "head" => r.tab \in TabsOf(screen)
  BY <1>1 DEF Requests, Carries
<1>3. r.op # "head" => store[r.tab][r.of] \in Seq(ListedIn(r.tab))
  BY <1>1, <1>2 DEF Requests, RowsInv
<1> QED BY <1>1, <1>2, <1>3 DEF Requests, Carries

\* What the server does with a request: the list it is for becomes one of the outcomes, the
\* work is counted, and the answer that tells of it is on its way, or lost.
WorkOn(r, out, q) ==
  /\ out \in Outcomes(r.tab, store[r.tab][r.of], r) /\ out \in Seq(ListedIn(r.tab))
  /\ store' \in [TabsOf(screen) -> [RoutesOf(screen) -> Seq(RowsNow)]]
  /\ \A x \in TabsOf(screen) : \A y \in RoutesOf(screen) :
       store'[x][y] = IF x = r.tab /\ y = r.of THEN out ELSE store[x][y]
  /\ served' \in [TabsOf(screen) -> [RoutesOf(screen) -> Nat]]
  /\ \A x \in TabsOf(screen) : \A y \in RoutesOf(screen) :
       served'[x][y] = IF x = r.tab /\ y = r.of THEN served[x][y] + 1 ELSE served[x][y]
  /\ requests' = (requests \ {r}) \cup {q}
  /\ q \in Requests /\ q.n = r.n /\ q.op = r.op /\ q.tab = r.tab /\ q.of = r.of
  /\ q.row = r.row /\ q.effect = r.effect /\ q.late = r.late
  /\ q.back \in {"done", "lost"} /\ (r.op = "list" => q.back = "done")
  /\ q.list = IF r.op = "list" THEN out ELSE r.list
  /\ q.at = served[r.tab][r.of] + 1

\* Serving a request is such work.
LEMMA ServeIs ==
  ASSUME RowsInv, RequestsInv, ServedInv, NEW r \in requests, Serve(r)
  PROVE  \E out, q : WorkOn(r, out, q)
<1>1. r.back = "sent" /\ r.op # "head" /\ r.op \in {"list"} \cup OpsOn(r.tab) /\ r \in Requests
      /\ r.tab \in TabsOf(screen) /\ r.of \in RoutesOf(screen) /\ r.list \in Seq(ListedIn(r.tab))
      /\ store[r.tab][r.of] \in Seq(ListedIn(r.tab))
  BY RequestsAre DEF Serve
<1>2. PICK t, f, op, old : t = r.tab /\ f = r.of /\ op = r.op /\ old = r.list
  OBVIOUS
<1>3. PICK out \in Outcomes(t, store[t][f], r) :
        /\ store' = [store EXCEPT ![t][f] = out]
        /\ \E back \in {"done"} \cup {b \in {"lost"} : r.op # "list"} :
             requests' = (requests \ {r}) \cup
               {[r EXCEPT !.back = back, !.list = IF r.op = "list" THEN out ELSE @,
                          !.at = served'[t][f]]}
  BY <1>2 DEF Serve
<1>4. PICK back \in {"done"} \cup {b \in {"lost"} : op # "list"} :
        requests' = (requests \ {r}) \cup
          {[r EXCEPT !.back = back, !.list = IF r.op = "list" THEN out ELSE @, !.at = served'[t][f]]}
  BY <1>2, <1>3
<1>5. out \in Seq(ListedIn(t)) /\ out \in Seq(RowsNow)
  <2>1. out \in Seq(ListedIn(t))
    <3>1. PICK list : list = store[t][f] /\ list \in Seq(ListedIn(t))
      BY <1>1, <1>2
    <3> QED BY <3>1, <1>1, <1>2, <1>3, OutcomesAreLists
  <2>2. ListedIn(t) \subseteq RowsNow
    BY DEF ListedIn
  <2> QED BY <2>1, <2>2
<1>6. /\ store' \in [TabsOf(screen) -> [RoutesOf(screen) -> Seq(RowsNow)]]
      /\ \A x \in TabsOf(screen) : \A y \in RoutesOf(screen) :
           store'[x][y] = IF x = t /\ y = f THEN out ELSE store[x][y]
  <2>1. store \in [TabsOf(screen) -> [RoutesOf(screen) -> Seq(RowsNow)]] /\ t \in TabsOf(screen) /\ f \in RoutesOf(screen)
    BY <1>1, <1>2 DEF RowsInv
  <2> QED BY ONLY <2>1, <1>3, <1>5, OneEntry
<1>7. PICK now : now = served[t][f] + 1 /\ now \in Nat
  BY <1>1, <1>2 DEF ServedInv
<1>8. /\ served' \in [TabsOf(screen) -> [RoutesOf(screen) -> Nat]]
      /\ \A x \in TabsOf(screen) : \A y \in RoutesOf(screen) :
           served'[x][y] = IF x = t /\ y = f THEN now ELSE served[x][y]
  <2>1. served \in [TabsOf(screen) -> [RoutesOf(screen) -> Nat]] /\ t \in TabsOf(screen) /\ f \in RoutesOf(screen)
    BY <1>1, <1>2 DEF ServedInv
  <2>2. served' = [served EXCEPT ![t][f] = now]
    BY <1>2, <1>7 DEF Serve
  <2> QED BY ONLY <2>1, <2>2, <1>7, OneEntry
<1>9. served'[t][f] = now
  BY <1>1, <1>2, <1>8
<1>10. PICK list : list = (IF op = "list" THEN out ELSE old)
  OBVIOUS
<1>11. PICK q : q = [r EXCEPT !.back = back, !.list = list, !.at = now]
  OBVIOUS
<1>12. requests' = (requests \ {r}) \cup {q}
  <2>1. [r EXCEPT !.back = back, !.list = IF r.op = "list" THEN out ELSE @, !.at = served'[t][f]] = q
    BY <1>1, <1>2, <1>9, <1>10, <1>11 DEF Requests
  <2> QED BY <2>1, <1>4
<1>13. list \in Seq(ListedIn(t)) /\ list \in Seq(RowsNow) /\ back \in {"sent", "done", "lost"}
  <2>1. old \in Seq(RowsNow) /\ old \in Seq(ListedIn(t))
    BY <1>1, <1>2 DEF Requests
  <2> QED BY <2>1, <1>4, <1>5, <1>10
<1>14. /\ q.n = r.n /\ q.op = r.op /\ q.tab = r.tab /\ q.of = r.of /\ q.row = r.row /\ q.effect = r.effect
       /\ q.late = r.late /\ q.back = back /\ q.list = list /\ q.at = now /\ q \in Requests
  BY ONLY <1>1, <1>7, <1>11, <1>13 DEF Requests
<1>15. back \in {"done", "lost"} /\ (op = "list" => back = "done")
  BY <1>4
<1>16. now = served[r.tab][r.of] + 1 /\ list = IF r.op = "list" THEN out ELSE r.list
  BY <1>2, <1>7, <1>10
<1>17. \A x \in TabsOf(screen) : \A y \in RoutesOf(screen) :
         served'[x][y] = IF x = r.tab /\ y = r.of THEN served[x][y] + 1 ELSE served[x][y]
  BY <1>2, <1>7, <1>8
<1>18. /\ out \in Outcomes(r.tab, store[r.tab][r.of], r) /\ out \in Seq(ListedIn(r.tab))
       /\ \A x \in TabsOf(screen) : \A y \in RoutesOf(screen) :
            store'[x][y] = IF x = r.tab /\ y = r.of THEN out ELSE store[x][y]
       /\ r.op = "list" => back = "done"
  BY <1>2, <1>3, <1>5, <1>6, <1>15
<1>19. WorkOn(r, out, q)
  <2>1. q.at = served[r.tab][r.of] + 1 /\ q.list = IF r.op = "list" THEN out ELSE r.list
    BY ONLY <1>14, <1>16, Zenon
  <2>2. q.back \in {"done", "lost"} /\ (r.op = "list" => q.back = "done")
    BY ONLY <1>14, <1>15, <1>18, Zenon
  <2> QED BY ONLY <1>6, <1>8, <1>12, <1>14, <1>17, <1>18, <2>1, <2>2, Zenon DEF WorkOn
<1> QED BY ONLY <1>19

\* The server works on a request.
LEMMA ServeKeepsInv ==
  ASSUME Inv, ServedInv, NEW r \in requests, Serve(r)
  PROVE  Inv'
<1>0. PICK out, q : WorkOn(r, out, q)
  BY ServeIs DEF Inv
<1>1. /\ out \in Outcomes(r.tab, store[r.tab][r.of], r) /\ out \in Seq(ListedIn(r.tab))
      /\ store' \in [TabsOf(screen) -> [RoutesOf(screen) -> Seq(RowsNow)]]
      /\ \A t \in TabsOf(screen) : \A f \in RoutesOf(screen) :
           store'[t][f] = IF t = r.tab /\ f = r.of THEN out ELSE store[t][f]
      /\ requests' = (requests \ {r}) \cup {q}
      /\ q \in Requests /\ q.n = r.n /\ q.op = r.op /\ q.tab = r.tab /\ q.of = r.of
      /\ q.row = r.row /\ q.effect = r.effect
      /\ q.back \in {"done", "lost"}
      /\ q.list = IF r.op = "list" THEN out ELSE r.list
  BY <1>0 DEF WorkOn
<1>2. r.back = "sent" /\ r.op # "head" /\ UNCHANGED <<grid, screen, page, sends>>
  BY DEF Serve
<1>3. UNCHANGED <<layout, tab, route, head, lists, error, asked, cards, form>> /\ rows' = rows
  BY <1>2 DEF page, rows
<1>4. r \in Requests /\ r.tab \in TabsOf(screen) /\ r.of \in RoutesOf(screen) /\ r.list \in Seq(ListedIn(r.tab))
      /\ store[r.tab][r.of] \in Seq(ListedIn(r.tab))
  BY <1>2, RequestsAre DEF Inv
<1>5. RowsNow' = RowsNow /\ (\A t : ListedIn(t)' = ListedIn(t)) /\ Requests' = Requests
  BY <1>2 DEF RowsNow, ListedIn, Requests
<1>6. RowsInv'
  <2>1. \A t \in TabsOf(screen) : \A f \in RoutesOf(screen) : store'[t][f] \in Seq(ListedIn(t))
    BY <1>1 DEF Inv, RowsInv
  <2> QED BY <1>1, <1>2, <1>3, <1>5, <2>1 DEF Inv, RowsInv
<1>7. EditorInv' /\ draft' = draft
  <2>1. sends' \in Nat /\ sends <= sends'
    BY <1>2 DEF Inv, RowsInv
  <2> QED BY <2>1, <1>2, <1>3, EditorIsLeft DEF Inv
<1>8. RequestsInv'
  <2>1. requests' \subseteq Requests'
    BY <1>1, <1>5 DEF Inv, RequestsInv
  <2>2. \A x, y \in requests' : x.n = y.n /\ x.tab = y.tab => x = y
    BY <1>1 DEF Inv, RequestsInv
  <2>3. Carries(q)
    <3>1. Carries(r)
      BY DEF Inv, RequestsInv
    <3>2. q.list \in Seq(ListedIn(q.tab))
      BY <1>1, <1>4
    <3> QED BY <3>1, <3>2, <1>1, <1>2 DEF Carries
  <2>4. \A x \in requests' : Carries(x)
    BY <2>3, <1>1 DEF Inv, RequestsInv
  <2>5. ASSUME NEW x \in requests' PROVE Carries(x)'
    <3>1. PICK t : t = x.tab
      OBVIOUS
    <3>2. ListedIn(t)' = ListedIn(t) /\ Carries(x)
      BY <2>4, <1>5
    <3> QED BY <3>1, <3>2, <1>2, <1>3, <1>5 DEF Carries, IsNew, KeyOf
  <2> QED BY <2>1, <2>2, <2>5 DEF RequestsInv
<1>9. NamesInv'
  <2> SUFFICES ASSUME tab \in {"orgs", "fields"} PROVE NamesInv'
    BY <1>3 DEF NamesInv
  <2>0. r.tab = tab
    <3>1. screen # "details"
      BY TabsAre DEF Inv, RowsInv
    <3> QED BY <3>1, <1>4, TabsAre DEF Inv, RowsInv
  <2>1. \A x, y \in Known : x.id = y.id => x.name = y.name
    BY DEF Inv, NamesInv
  <2>2. \A p \in requests : p.op = "add" /\ p.back = "sent" => \A x \in Known : x.id # p.n
    BY DEF Inv, NamesInv
  <2>3. ASSUME NEW x \in Range(out)
        PROVE  \/ \E y \in Known : x.id = y.id /\ x.name = y.name
               \/ r.op = "add" /\ x.id = r.n /\ x.name = r.row.name
    <3>1. \A y \in Range(store[r.tab][r.of]) : y \in Known
      BY <1>4, <2>0, KnownIs
    <3>2. r.op = "save" => r.row \in Known
      BY KnownIs
    <3>3. \/ \E y \in Range(store[r.tab][r.of]) : x.id = y.id /\ x.name = y.name
          \/ r.op = "save" /\ x.id = r.row.id /\ x.name = r.row.name
          \/ r.op = "add" /\ x.id = r.n /\ x.name = r.row.name
      <4>1. PICK t, list : t = r.tab /\ list = store[r.tab][r.of]
        OBVIOUS
      <4>2. list \in Seq(ListedIn(t)) /\ out \in Outcomes(t, list, r)
        BY <4>1, <1>1, <1>4
      <4> QED BY <4>1, <4>2, <1>2, <2>0, OutcomesAreLists DEF Inv
    <3> QED BY <3>1, <3>2, <3>3
  <2>4. ASSUME NEW x \in Known'
        PROVE  \/ \E y \in Known : x.id = y.id /\ x.name = y.name
               \/ r.op = "add" /\ x.id = r.n /\ x.name = r.row.name
    <3>1. x \in Range(r.list) => x \in Known
      BY KnownIs
    <3>2. (\E p \in requests' : p.op = "save" /\ x = p.row) => \E p \in requests : p.op = "save" /\ x = p.row
      BY <1>1
    <3>3. (\E p \in requests' : x \in Range(p.list)) =>
            x \in Range(out) \/ \E p \in requests : x \in Range(p.list)
      BY <1>1
    <3>4. (\E f \in RoutesOf(screen') : x \in Range(store'[tab'][f])) =>
             x \in Range(out) \/ \E f \in RoutesOf(screen) : x \in Range(store[tab][f])
      BY <1>1, <1>2, <1>3, <1>4, <2>0
    <3>5. x \in Known \/ x \in Range(out)
      BY <3>1, <3>2, <3>3, <3>4, <1>3, <1>7, KnownIs, KnownIsLater DEF IsNew, KeyOf
    <3> QED BY <3>5, <2>3
  <2>5. \A x, y \in Known' : x.id = y.id => x.name = y.name
    <3> SUFFICES ASSUME NEW x \in Known', NEW y \in Known', x.id = y.id PROVE x.name = y.name
      OBVIOUS
    <3>1. r.op = "add" => \A z \in Known : z.id # r.n
      BY <2>2, <1>2
    <3> QED BY <3>1, <2>1, <2>4
  <2>6. ASSUME NEW p \in requests', p.op = "add", p.back = "sent", NEW x \in Known' PROVE x.id # p.n
    <3>1. p \in requests /\ p # r
      BY <2>6, <1>1
    <3>2. r.op = "add" => p.n # r.n
      <4>1. p.tab = tab
        <5>1. screen # "details"
          BY TabsAre DEF Inv, RowsInv
        <5>2. p.tab \in TabsOf(screen)
          BY <3>1, <2>6, RequestsAre DEF Inv
        <5> QED BY <5>1, <5>2, TabsAre DEF Inv, RowsInv
      <4> QED BY <4>1, <2>0, <3>1 DEF Inv, RequestsInv
    <3>3. \A z \in Known : z.id # p.n
      BY <3>1, <2>2, <2>6
    <3> QED BY <3>2, <3>3, <2>4
  <2> QED BY <2>5, <2>6 DEF NamesInv
<1> QED BY <1>6, <1>7, <1>8, <1>9 DEF Inv

\* The list that a merged limit makes is one that can be shown.
LEMMA MergedRows ==
  ASSUME RowsInv, RequestsInv, rows # None, screen = "ranges", NEW r \in requests, r.op = "save"
  PROVE  Merged(r.row) \in Seq(ListedIn("ranges"))
<1>0. tab = "ranges" /\ r.tab = "ranges"
  <2>1. r.tab \in TabsOf(screen)
    BY RequestsAre
  <2> QED BY <2>1, TabsAre DEF RowsInv
<1>1. r.row \in ListedIn("ranges") /\ r.row \in RowsNow
  BY <1>0 DEF RequestsInv, Carries, ListedIn
<1>2. PICK e : e = [r.row EXCEPT !.active = TRUE]
  OBVIOUS
<1>3. e \in ListedIn("ranges")
  BY <1>1, <1>2, ListedRows
<1>4. PICK list : list = rows /\ list \in Seq(ListedIn("ranges"))
  BY <1>0, RowsAre DEF Listed
<1>5. PICK out : out = [i \in DOMAIN list |-> IF KeyOf(list[i]) = KeyOf(r.row) THEN e ELSE list[i]]
  OBVIOUS
<1>6. out = Merged(r.row)
  BY <1>2, <1>4, <1>5 DEF Merged
<1>7. Len(list) \in Nat /\ DOMAIN list = 1 .. Len(list) /\ \A i \in DOMAIN list : list[i] \in ListedIn("ranges")
  BY <1>4
<1>8. out \in [1 .. Len(list) -> ListedIn("ranges")]
  BY <1>3, <1>5, <1>7
<1>9. out \in Seq(ListedIn("ranges"))
  BY <1>7, <1>8, SeqDef
<1> QED BY <1>6, <1>9

\* A request as it is after an answer: the same, but that later work was heard of.
Same(p, q) ==
  /\ p.n = q.n /\ p.op = q.op /\ p.tab = q.tab /\ p.of = q.of /\ p.row = q.row
  /\ p.effect = q.effect /\ p.back = q.back /\ p.list = q.list /\ p.at = q.at
Overtaken(q, r) == Place(q) = Place(r) /\ 0 < q.at /\ q.at < r.at
HeardAs(p, q, r) == Same(p, q) /\ p \in Requests /\ (p.late <=> q.late \/ Overtaken(q, r))

\* The other requests stay.
LEMMA HeardAre ==
  ASSUME RowsInv, RequestsInv, NEW r \in requests
  PROVE  /\ \A p \in Heard(r) : \E q \in requests : q # r /\ HeardAs(p, q, r)
         /\ \A q \in requests : q # r => \E p \in Heard(r) : HeardAs(p, q, r)
<1>1. ASSUME NEW q \in requests \ {r}
      PROVE  HeardAs(IF Place(q) = Place(r) /\ 0 < q.at /\ q.at < r.at THEN [q EXCEPT !.late = TRUE] ELSE q, q, r)
  <2>1. q \in Requests
    BY DEF RequestsInv
  <2>2. CASE Overtaken(q, r)
    <3>1. PICK p : p = [q EXCEPT !.late = TRUE]
      OBVIOUS
    <3>2. p \in Requests /\ Same(p, q) /\ p.late = TRUE
      BY ONLY <3>1, <2>1 DEF Requests, Same
    <3>3. HeardAs(p, q, r)
      BY ONLY <3>2, <2>2 DEF HeardAs
    <3> QED BY <3>1, <3>3, <2>2 DEF Overtaken
  <2>3. CASE ~Overtaken(q, r)
    <3>1. Same(q, q)
      BY DEF Same
    <3>2. HeardAs(q, q, r)
      BY <2>1, <2>3, <3>1 DEF HeardAs
    <3> QED BY <3>2, <2>3 DEF Overtaken
  <2> QED BY <2>2, <2>3
<1> QED BY <1>1 DEF Heard

\* What an answer changes of the requests: it is taken away, and after a change that worked
\* the list it changed is loaded again.
Reload(q, r) ==
  /\ q.n = sends + 1 /\ q.op = "list" /\ q.tab = r.tab /\ q.of = r.of /\ q.row = NoRow /\ q.effect = FALSE
  /\ q.back = "sent" /\ q.list = <<>> /\ q.at = 0 /\ q.late = FALSE
Reloads(r) == r.back = "done" /\ r.op # "list" /\ screen # "ranges"
LEMMA ArriveRequests ==
  ASSUME RowsInv, RequestsInv, NEW r \in requests, Arrive(r)
  PROVE  /\ r.back # "sent" /\ r.op # "head" /\ screen' = screen
         /\ sends \in Nat /\ sends' \in Nat /\ sends <= sends'
         /\ Reloads(r) => \E q \in Requests' : Reload(q, r) /\ requests' = Heard(r) \cup {q}
         /\ ~Reloads(r) => requests' = Heard(r) /\ sends' = sends
<1>1. sends \in Nat /\ screen' = screen /\ r.back # "sent"
  BY DEF Arrive, RowsInv
<1>2. r.op # "head" /\ r.tab \in TabsOf(screen) /\ r.of \in RoutesOf(screen)
  BY <1>1, RequestsAre
<1>3. CASE Reloads(r)
  <2>1. sends' = sends + 1 /\ requests' = Heard(r) \cup {Request(sends', "list", r.tab, r.of, NoRow, FALSE)}
    BY <1>3 DEF Arrive, AfterChange, Reloads
  <2>2. PICK n, t, f : n = sends' /\ t = r.tab /\ f = r.of
    OBVIOUS
  <2>3. PICK q : q = [n |-> n, op |-> "list", tab |-> t, of |-> f, row |-> NoRow, effect |-> FALSE,
                      back |-> "sent", list |-> <<>>, at |-> 0, late |-> FALSE]
    OBVIOUS
  <2>4. requests' = Heard(r) \cup {q}
    BY <2>1, <2>2, <2>3 DEF Request
  <2>5. q \in Requests'
    <3>1. \A S : <<>> \in Seq(S)
      OBVIOUS
    <3>2. n \in 0 .. sends' /\ t \in TabsOf(screen') /\ f \in RoutesOf(screen')
      BY <2>1, <2>2, <1>1, <1>2
    <3> QED BY <3>1, <3>2, <2>3 DEF Requests, Ops
  <2>6. Reload(q, r)
    BY <2>1, <2>2, <2>3 DEF Reload
  <2>7. sends' \in Nat /\ sends <= sends'
    BY <2>1, <1>1
  <2> QED BY <1>1, <1>2, <1>3, <2>4, <2>5, <2>6, <2>7
<1>4. CASE ~Reloads(r)
  <2>1. requests' = Heard(r) /\ sends' = sends
    BY <1>4 DEF Arrive, AfterChange, Reloads
  <2> QED BY <2>1, <1>1, <1>2, <1>4
<1> QED BY <1>3, <1>4

\* What an answer changes of the page: a list is shown as it was sent, a limit is merged.
Answers(r, list) ==
  \/ r.op = "list" /\ list = r.list
  \/ screen = "ranges" /\ r.op = "save" /\ list = Merged(r.row)
ShowsNow(r, list) ==
  /\ list \in Seq(ListedIn(r.tab)) /\ Answers(r, list)
  /\ lists' = [lists EXCEPT ![r.tab] = list]
  /\ cards' = IF layout = "cards" THEN CardsOf(list, cards) ELSE cards
LEMMA ArriveLists ==
  ASSUME RowsInv, RequestsInv, NEW r \in requests, Arrive(r)
  PROVE  /\ r.tab \in TabsOf(screen)
         /\ ~Shows(r) => lists' = lists /\ cards' = cards
         /\ Shows(r) => \E list : ShowsNow(r, list)
<1>1. r.back # "sent" /\ r.op # "head" /\ r.tab \in TabsOf(screen) /\ r.list \in Seq(ListedIn(r.tab))
  BY RequestsAre DEF Arrive
<1>2. CASE r.back = "done" /\ r.op = "list"
  <2>1. ShowsNow(r, r.list)
    BY <1>1, <1>2 DEF Arrive, Show, ShowsNow, Answers
  <2> QED BY <1>1, <1>2, <2>1 DEF Shows
<1>3. CASE r.back = "done" /\ r.op # "list" /\ Shows(r)
  <2>1. screen = "ranges" /\ r.op = "save"
    BY <1>3 DEF Shows
  <2>2. rows # None
    BY <2>1 DEF RequestsInv, Carries
  <2>3. Merged(r.row) \in Seq(ListedIn(r.tab))
    BY <2>1, <2>2, <1>1, MergedRows, TabsAre
  <2>4. lists' = [lists EXCEPT ![r.tab] = Merged(r.row)]
        /\ cards' = IF layout = "cards" THEN CardsOf(Merged(r.row), cards) ELSE cards
    BY <1>3 DEF Arrive, Show
  <2>5. ShowsNow(r, Merged(r.row))
    BY <2>1, <2>3, <2>4 DEF ShowsNow, Answers
  <2> QED BY <1>1, <1>3, <2>5
<1>4. CASE ~Shows(r)
  BY <1>1, <1>4 DEF Arrive, Shows
<1> QED BY <1>2, <1>3, <1>4 DEF Shows

\* An answer arrives.
LEMMA ArriveKeepsInv ==
  ASSUME Inv, NEW r \in requests, Arrive(r)
  PROVE  Inv'
<1>1. /\ r.back # "sent" /\ r.op # "head" /\ screen' = screen
      /\ sends \in Nat /\ sends' \in Nat /\ sends <= sends'
      /\ Reloads(r) => \E q \in Requests' : Reload(q, r) /\ requests' = Heard(r) \cup {q}
      /\ ~Reloads(r) => requests' = Heard(r) /\ sends' = sends
  BY ArriveRequests DEF Inv
<1>2. /\ UNCHANGED <<grid, screen, layout, tab, route, form, store>>
      /\ error' \in BOOLEAN /\ asked' \in {asked, None}
  BY DEF Arrive, Inv, RowsInv
<1>3. /\ RowsNow \subseteq RowsNow' /\ Seq(RowsNow) \subseteq Seq(RowsNow')
      /\ \A t : ListedIn(t) \subseteq ListedIn(t)' /\ Seq(ListedIn(t)) \subseteq Seq(ListedIn(t)')
  BY <1>1, RowsStay
<1>4. /\ r.tab \in TabsOf(screen)
      /\ ~Shows(r) => lists' = lists /\ cards' = cards
      /\ Shows(r) => \E list : ShowsNow(r, list)
  BY ArriveLists DEF Inv
<1>5. /\ lists' \in [TabsOf(screen) -> {None} \cup Seq(RowsNow)]
      /\ \A t \in TabsOf(screen) : lists'[t] \in {None} \cup Seq(ListedIn(t))
      /\ \A t \in TabsOf(screen) : lists[t] # None => lists'[t] # None
      /\ \A t \in TabsOf(screen) : lists'[t] = lists[t] \/ (t = r.tab /\ \E list : Answers(r, list) /\ lists'[t] = list)
      /\ DOMAIN cards' = IF layout = "cards" /\ lists'[tab] # None THEN KeysOf(lists'[tab]) ELSE {}
      /\ \A k \in DOMAIN cards' : cards'[k] \in [editing : BOOLEAN, text : Cells]
  <2>0. /\ lists \in [TabsOf(screen) -> {None} \cup Seq(RowsNow)]
        /\ \A t \in TabsOf(screen) : lists[t] \in {None} \cup Seq(ListedIn(t))
        /\ tab \in TabsOf(screen)
        /\ DOMAIN cards = IF layout = "cards" /\ lists[tab] # None THEN KeysOf(lists[tab]) ELSE {}
        /\ \A k \in DOMAIN cards : cards[k] \in [editing : BOOLEAN, text : Cells]
    BY DEF Inv, RowsInv, rows
  <2>1. CASE ~Shows(r)
    BY <2>0, <2>1, <1>4
  <2>2. CASE Shows(r)
    <3>1. PICK list : ShowsNow(r, list)
      BY <2>2, <1>4
    <3>2. /\ list \in Seq(ListedIn(r.tab)) /\ Answers(r, list)
          /\ lists' = [lists EXCEPT ![r.tab] = list]
          /\ cards' = IF layout = "cards" THEN CardsOf(list, cards) ELSE cards
      BY <3>1 DEF ShowsNow
    <3>3. list \in Seq(RowsNow) /\ list # None
      <4>1. ListedIn(r.tab) \subseteq RowsNow
        BY DEF ListedIn
      <4>2. list \in Seq(RowsNow)
        BY <4>1, <3>2
      <4> QED BY <4>2, RowsAreAny DEF Inv
    <3>4. \A t \in TabsOf(screen) : lists'[t] = IF t = r.tab THEN list ELSE lists[t]
      BY <2>0, <3>2
    <3>5. lists' \in [TabsOf(screen) -> {None} \cup Seq(RowsNow)]
      BY <2>0, <3>2, <3>3
    <3>6. /\ DOMAIN cards' = IF layout = "cards" /\ lists'[tab] # None THEN KeysOf(lists'[tab]) ELSE {}
          /\ \A k \in DOMAIN cards' : cards'[k] \in [editing : BOOLEAN, text : Cells]
      <4>1. CASE layout = "cards"
        <5>1. tab = r.tab
          <6>1. screen # "details"
            BY <4>1 DEF Inv, RowsInv, HasCards
          <6> QED BY <6>1, <2>0, <1>4, TabsAre
        <5>2. lists'[tab] = list
          BY <5>1, <2>0, <3>4
        <5>3. PICK t : t = r.tab
          OBVIOUS
        <5>4. PICK old : old = cards
          OBVIOUS
        <5>5. DOMAIN CardsOf(list, old) = KeysOf(list)
              /\ \A k \in KeysOf(list) : CardsOf(list, old)[k] \in [editing : BOOLEAN, text : Cells]
          <6>1. list \in Seq(ListedIn(t))
            BY <5>3, <3>2
          <6>2. \A k \in DOMAIN old : old[k] \in [editing : BOOLEAN, text : Cells]
            BY <5>4, <2>0
          <6> QED BY ONLY <6>1, <6>2, CardsOfRows
        <5>6. cards' = CardsOf(list, old)
          BY <5>4, <4>1, <3>2
        <5> QED BY <5>2, <5>5, <5>6, <4>1, <3>3
      <4>2. CASE layout # "cards"
        BY <4>2, <2>0, <3>2
      <4> QED BY <4>1, <4>2
    <3>7. \A t \in TabsOf(screen) : lists'[t] \in {None} \cup Seq(ListedIn(t))
      BY <2>0, <3>2, <3>4
    <3> QED BY <3>2, <3>3, <3>4, <3>5, <3>6, <3>7
  <2> QED BY <2>1, <2>2
<1>6. RowsInv'
  <2>1. /\ screen' \in Screens /\ tab' \in TabsOf(screen') /\ layout' \in {"grid", "cards"}
        /\ screen' \in IF layout' = "grid" THEN HasGrid ELSE HasCards
        /\ route' \in RoutesOf(screen') /\ form' \in [name : Cells, value : Cells]
    BY <1>2 DEF Inv, RowsInv
  <2>2. /\ store' \in [TabsOf(screen') -> [RoutesOf(screen') -> Seq(RowsNow')]]
        /\ \A t \in TabsOf(screen') : \A f \in RoutesOf(screen') : store'[t][f] \in Seq(ListedIn(t)')
    <3>1. store \in [TabsOf(screen) -> [RoutesOf(screen) -> Seq(RowsNow)]]
          /\ \A t \in TabsOf(screen) : \A f \in RoutesOf(screen) : store[t][f] \in Seq(ListedIn(t))
      BY DEF Inv, RowsInv
    <3>2. store \in [TabsOf(screen) -> [RoutesOf(screen) -> Seq(RowsNow')]]
      BY <3>1, <1>3
    <3> QED BY <3>1, <3>2, <1>2, <1>3
  <2>3. asked' \in {None} \cup ListedIn(screen)'
    <3>1. PICK s : s = screen
      OBVIOUS
    <3>2. asked \in {None} \cup ListedIn(s)
      BY <3>1 DEF Inv, RowsInv
    <3>3. asked' \in {None} \cup ListedIn(s)'
      BY <3>2, <1>2, <1>3
    <3> QED BY <3>1, <3>3, <1>2
  <2>4. /\ lists' \in [TabsOf(screen') -> {None} \cup Seq(RowsNow')]
        /\ \A t \in TabsOf(screen') : lists'[t] \in {None} \cup Seq(ListedIn(t)')
    BY <1>2, <1>3, <1>5
  <2>5. DOMAIN cards' = IF layout' = "cards" /\ rows' # None THEN KeysOf(rows') ELSE {}
    BY <1>2, <1>5 DEF rows
  <2> QED BY <1>1, <1>2, <1>5, <2>1, <2>2, <2>3, <2>4, <2>5 DEF RowsInv
<1>7. EditorInv' /\ draft' = draft
  BY <1>1, <1>2, EditorIsLeft DEF Inv
<1>8. rows # None => rows' # None
  BY <1>2, <1>5 DEF rows, Inv, RowsInv
<1>9. \A q \in requests : q \in Requests' /\ Carries(q)'
  BY <1>1, <1>8, RequestsStay DEF Inv, RequestsInv
<1>10. ASSUME NEW p \in Heard(r) PROVE \E q \in requests : q # r /\ Same(p, q) /\ p \in Requests
  BY HeardAre DEF Inv, HeardAs
<1>11. ASSUME NEW p \in Heard(r)
       PROVE  /\ p \in Requests' /\ Carries(p)' /\ p.n \in 0 .. sends
              /\ \E q \in requests : q # r /\ Same(p, q)
  <2>1. PICK q \in requests : q # r /\ Same(p, q) /\ p \in Requests
    BY <1>10
  <2>2. q \in Requests /\ Carries(q)
    BY DEF Inv, RequestsInv
  <2>3. Carries(p)
    BY <2>1, <2>2 DEF Carries, Same
  <2>4. p \in Requests' /\ Carries(p)'
    BY <2>1, <2>3, <1>1, <1>8, RequestsStay DEF Inv
  <2> QED BY <2>1, <2>4 DEF Requests
<1>12. \A p, s \in Heard(r) : p.n = s.n /\ p.tab = s.tab => p = s
  <2> SUFFICES ASSUME NEW p \in Heard(r), NEW s \in Heard(r), p.n = s.n, p.tab = s.tab PROVE p = s
    OBVIOUS
  <2>1. PICK x \in requests : x # r /\ HeardAs(p, x, r)
    BY HeardAre DEF Inv
  <2>2. PICK y \in requests : y # r /\ HeardAs(s, y, r)
    BY HeardAre DEF Inv
  <2>3. x = y
    BY <2>1, <2>2 DEF HeardAs, Same, Inv, RequestsInv
  <2>4. /\ p.n = s.n /\ p.op = s.op /\ p.tab = s.tab /\ p.of = s.of /\ p.row = s.row /\ p.effect = s.effect
        /\ p.back = s.back /\ p.list = s.list /\ p.at = s.at /\ p.late = s.late
        /\ p \in Requests /\ s \in Requests
    <3>1. (p.late <=> s.late) /\ p \in Requests /\ s \in Requests
      BY <2>1, <2>2, <2>3 DEF HeardAs
    <3>2. p.late \in BOOLEAN /\ s.late \in BOOLEAN
      BY <3>1 DEF Requests
    <3>3. Same(p, x) /\ Same(s, x)
      BY <2>1, <2>2, <2>3 DEF HeardAs
    <3> QED BY <3>1, <3>2, <3>3 DEF Same
  <2> QED BY ONLY <2>4 DEF Requests
<1>13. RequestsInv'
  <2>1. CASE Reloads(r)
    <3>1. PICK q \in Requests' : Reload(q, r) /\ requests' = Heard(r) \cup {q}
      BY <2>1, <1>1
    <3>2. Carries(q)'
      <4>1. \A S : <<>> \in Seq(S)
        OBVIOUS
      <4>2. r.tab # "head"
        BY <1>4, TabsAre DEF Inv
      <4> QED BY <3>1, <4>1, <4>2 DEF Carries, Reload
    <3>3. \A p \in Heard(r) : p.n # q.n
      <4>1. q.n = sends + 1
        BY <3>1 DEF Reload
      <4> QED BY <4>1, <1>1, <1>11
    <3>4. \A p, s \in requests' : p.n = s.n /\ p.tab = s.tab => p = s
      BY <3>1, <3>3, <1>12
    <3> QED BY <3>1, <3>2, <3>4, <1>11 DEF RequestsInv
  <2>2. CASE ~Reloads(r)
    BY <2>2, <1>1, <1>11, <1>12 DEF RequestsInv
  <2> QED BY <2>1, <2>2
<1>14. \A p \in requests' : (p.op = "list" /\ p.list = <<>>) \/ (\E q \in requests : Same(p, q))
  <2>1. \A q : Reload(q, r) => q.op = "list" /\ q.list = <<>>
    BY DEF Reload
  <2> QED BY <2>1, <1>1, <1>11
<1>15. NamesInv'
  <2> SUFFICES ASSUME tab \in {"orgs", "fields"} PROVE NamesInv'
    BY <1>2 DEF NamesInv
  <2>1. ASSUME NEW x \in Known' PROVE x \in Known
    <3>1. rows' # None /\ x \in Range(rows') => x \in Known
      <4>1. rows' = lists'[tab] /\ rows = lists[tab] /\ tab \in TabsOf(screen)
        BY <1>2 DEF rows, Inv, RowsInv
      <4>2. CASE rows' = rows
        BY <4>2, KnownIs
      <4>3. CASE rows' # rows
        <5>1. PICK list : Answers(r, list) /\ rows' = list
          BY <4>1, <4>3, <1>5
        <5>2. screen # "ranges"
          BY TabsAre DEF Inv, RowsInv
        <5>3. list = r.list
          BY <5>1, <5>2 DEF Answers
        <5> QED BY <5>1, <5>3, KnownIs
      <4> QED BY <4>2, <4>3
    <3>2. (\E q \in requests' : q.op = "save" /\ x = q.row) => \E q \in requests : q.op = "save" /\ x = q.row
      <4>1. ASSUME NEW p \in requests', p.op = "save", x = p.row PROVE \E q \in requests : q.op = "save" /\ x = q.row
        BY <4>1, <1>14 DEF Same
      <4> QED BY <4>1
    <3>3. (\E q \in requests' : x \in Range(q.list)) => \E q \in requests : x \in Range(q.list)
      <4>1. ASSUME NEW p \in requests', x \in Range(p.list) PROVE \E q \in requests : x \in Range(q.list)
        <5>1. p.list # <<>>
          BY <4>1 DEF Range
        <5>2. PICK q \in requests : Same(p, q)
          BY <5>1, <1>14
        <5> QED BY <4>1, <5>2 DEF Same
      <4> QED BY <4>1
    <3> QED BY <3>1, <3>2, <3>3, <1>2, <1>7, KnownIs, KnownIsLater DEF IsNew, KeyOf
  <2>2. ASSUME NEW p \in requests', p.op = "add", p.back = "sent", NEW x \in Known' PROVE x.id # p.n
    <3>1. PICK q \in requests : Same(p, q)
      BY <2>2, <1>14
    <3>2. q.op = "add" /\ q.back = "sent" /\ q.n = p.n
      BY <3>1, <2>2 DEF Same
    <3>3. \A z \in Known : z.id # q.n
      BY <3>2 DEF Inv, NamesInv
    <3> QED BY <3>2, <3>3, <2>1
  <2>3. \A x, y \in Known' : x.id = y.id => x.name = y.name
    BY <2>1 DEF Inv, NamesInv
  <2> QED BY <2>2, <2>3 DEF NamesInv
<1> QED BY <1>6, <1>7, <1>13, <1>15 DEF Inv

\* Nothing comes of a request but that it is taken away.
LEMMA TakenAway ==
  ASSUME Inv, requests' \subseteq requests, error' \in BOOLEAN,
         UNCHANGED <<grid, screen, layout, tab, route, lists, asked, cards, form, store, sends>>
  PROVE  Inv'
<1>1. sends \in Nat /\ sends' \in Nat /\ sends <= sends' /\ rows' = rows /\ RowsInv
  BY DEF Inv, RowsInv, rows
<1>2. RowsInv'
  <2>1. /\ asked' \in {None} \cup ListedIn(screen) /\ route' \in RoutesOf(screen)
        /\ DOMAIN cards' = DOMAIN cards
        /\ \A k \in DOMAIN cards : cards'[k] \in [editing : BOOLEAN, text : Cells]
        /\ form' \in [name : Cells, value : Cells]
    BY DEF Inv, RowsInv
  <2> QED BY <1>1, <2>1, RowsAreLeft
<1>3. EditorInv' /\ draft' = draft
  BY <1>1, EditorIsLeft DEF Inv
<1>4. RequestsInv'
  <2>1. \A q \in requests : q \in Requests' /\ Carries(q)'
    BY <1>1, RequestsStay DEF Inv, RequestsInv
  <2> QED BY <2>1 DEF Inv, RequestsInv
<1>5. NamesInv'
  <2>1. ASSUME NEW x \in Known' PROVE x \in Known
    <3>1. UNCHANGED <<screen, tab, store>>
      OBVIOUS
    <3> QED BY <3>1, <1>1, <1>3, KnownIs, KnownIsLater DEF IsNew, KeyOf
  <2> QED BY <2>1, NamesStay DEF Inv
<1> QED BY <1>2, <1>3, <1>4, <1>5 DEF Inv

\* The answer of the second load arrives.
LEMMA ArriveHeadKeepsInv ==
  ASSUME Inv, NEW r \in requests, ArriveHead(r)
  PROVE  Inv'
BY TakenAway DEF ArriveHead, Inv, RowsInv

\* A request fails.
LEMMA FailKeepsInv ==
  ASSUME Inv, NEW r \in requests, Fail(r)
  PROVE  Inv'
BY TakenAway DEF Fail

(***************************************************************************)
(* What every reachable state is.                                          *)
(***************************************************************************)

\* A screen starts without rows and loads what the server has.
LEMMA InitImpliesInv ==
  ASSUME Init
  PROVE  /\ Inv /\ ServedInv
         /\ \A q \in requests : Load(q, 0, route)
<1>1. /\ screen \in Screens /\ InitGrid
      /\ layout \in {l \in {"grid", "cards"} : screen \in IF l = "grid" THEN HasGrid ELSE HasCards}
      /\ tab = FirstTab(screen)
      /\ route = IF screen = "details" THEN FirstRoute ELSE Org
      /\ lists = [t \in TabsOf(screen) |-> None]
      /\ error = FALSE /\ asked = None /\ cards = NoCards /\ form = EmptyForm
      /\ store = [t \in TabsOf(screen) |-> [f \in RoutesOf(screen) |-> Stored(t, f)]]
      /\ sends = 0 /\ requests = LoadsAt(0, route)
      /\ served = [t \in TabsOf(screen) |-> [f \in RoutesOf(screen) |-> 0]]
  BY DEF Init, LoadsAt
<1>2. route \in RoutesOf(screen) /\ tab \in TabsOf(screen)
  BY <1>1, ListsAssumption DEF RoutesOf, TabsOf, FirstTab
<1>3. ASSUME NEW t \in TabsOf(screen), NEW f \in RoutesOf(screen)
      PROVE  Stored(t, f) \in Seq(ListedIn(t)) /\ Stored(t, f) \in Seq(RowsNow)
  <2>1. PICK list : list = Stored(t, f)
    OBVIOUS
  <2>2. /\ list \in Seq(AnyRow)
        /\ \A row \in Range(list) : row.id \in Ids \cup ToSet(EmissionTypes) /\ Listable(t, row)
    BY <2>1, <1>1, ListsAssumption
  <2>3. ASSUME NEW row \in Range(list) PROVE row \in ListedIn(t) /\ row \in RowsNow
    <3>1. row \in AnyRow
      BY <2>2 DEF Range
    <3>2. row.id # NewKey
      BY <2>2, ValuesAssumption
    <3>3. row \in RowsNow
      <4>1. row.name \in Cells /\ row.value \in Cells /\ row.active \in BOOLEAN
            /\ row = [id |-> row.id, name |-> row.name, value |-> row.value, active |-> row.active]
        BY <3>1 DEF AnyRow
      <4> QED BY <4>1, <2>2 DEF RowsNow
    <3> QED BY <3>2, <3>3, <2>2 DEF ListedIn, IsNew, KeyOf
  <2>4. \A i \in DOMAIN list : list[i] \in ListedIn(t) /\ list[i] \in RowsNow
    BY <2>3 DEF Range
  <2>5. Len(list) \in Nat /\ list \in [1 .. Len(list) -> ListedIn(t)] /\ list \in [1 .. Len(list) -> RowsNow]
    BY <2>2, <2>4
  <2> QED BY <2>1, <2>5, SeqDef
<1>4. RowsInv
  <2>1. /\ store \in [TabsOf(screen) -> [RoutesOf(screen) -> Seq(RowsNow)]]
        /\ \A t \in TabsOf(screen) : \A f \in RoutesOf(screen) : store[t][f] \in Seq(ListedIn(t))
    BY <1>1, <1>3
  <2>2. DOMAIN cards = {} /\ rows = None
    BY <1>1, <1>2 DEF NoCards, rows
  <2>3. form \in [name : Cells, value : Cells]
    BY <1>1 DEF EmptyForm, Cells, Texts
  <2>4. /\ lists \in [TabsOf(screen) -> {None} \cup Seq(RowsNow)]
        /\ \A t \in TabsOf(screen) : lists[t] \in {None} \cup Seq(ListedIn(t))
    BY <1>1
  <2> QED BY <1>1, <1>2, <2>1, <2>2, <2>3, <2>4 DEF RowsInv
<1>5. EditorInv /\ draft = NoRow
  BY <1>1, GridAssumption DEF InitGrid, EditorInv, OneOpenEditor
<1>6. /\ \A q \in requests : Load(q, 0, route)
      /\ \A p, q \in requests : p.tab = q.tab => p = q
  BY <1>1, <1>4, LoadsAre
<1>7. \A q \in requests : q \in Requests /\ Carries(q)
  <2>1. 0 \in 0 .. sends
    BY <1>1
  <2> QED BY <2>1, <1>2, <1>6, LoadsAreRequests
<1>8. RequestsInv
  BY <1>6, <1>7 DEF RequestsInv
<1>9. NamesInv
  <2>1. ASSUME tab \in {"orgs", "fields"}, NEW x \in Known PROVE x \in StoredRows(screen)
    <3>1. \A q \in requests : q.op \in {"list", "head"} /\ q.list = <<>>
      BY <1>6, LoadFields DEF Load
    <3>2. \A q \in requests : q.op # "save" /\ x \notin Range(q.list)
      BY <3>1 DEF Range
    <3>3. PICK f \in RoutesOf(screen) : x \in Range(store[tab][f])
      BY <3>2, <1>1, <1>2, <1>5, KnownIs DEF rows
    <3>4. store[tab][f] = Stored(tab, f)
      BY <1>1, <1>2
    <3> QED BY <3>3, <3>4, <1>2 DEF StoredRows
  <2>2. tab \in {"orgs", "fields"} => \A x, y \in StoredRows(screen) : x.id = y.id => x.name = y.name
    <3>1. screen # "details" => tab = screen
      BY <1>2, TabsAre
    <3>2. screen = "details" => tab = "permits"
      BY <1>1 DEF FirstTab
    <3> QED BY <3>1, <3>2, <1>1, ListsAssumption
  <2>3. \A q \in requests : q.op # "add"
    BY <1>6 DEF Load
  <2> QED BY <2>1, <2>2, <2>3 DEF NamesInv
<1>10. ServedInv
  BY <1>1 DEF ServedInv
<1> QED BY <1>4, <1>5, <1>6, <1>8, <1>9, <1>10 DEF Inv

\* Every step keeps the invariant.
LEMMA NextKeepsInv ==
  ASSUME Inv, ServedInv, [Next]_vars
  PROVE  Inv'
<1>1. CASE AddRow \/ EditRow \/ TypeInRow \/ TurnThePage \/ SwitchTab \/ CancelRow \/ SaveRow
  BY <1>1, AddRowKeepsInv, EditRowKeepsInv, TypeInRowKeepsInv, TurnThePageKeepsInv, SwitchTabKeepsInv,
     CancelRowKeepsInv, SaveRowKeepsInv
<1>2. CASE RowButton \/ CardButton \/ ConfirmDialog \/ ConfirmCard \/ DoNotConfirm
  BY <1>2, RowButtonKeepsInv, CardButtonKeepsInv, ConfirmDialogKeepsInv, ConfirmCardKeepsInv, DoNotConfirmKeepsInv
<1>3. CASE OnCard \/ TypeInForm \/ AddByForm
  BY <1>3, OnCardKeepsInv, TypeInFormKeepsInv, AddByFormKeepsInv
<1>4. CASE Renew \/ OpenFacility \/ Resize
  BY <1>4, RenewKeepsInv, OpenFacilityKeepsInv, ResizeKeepsInv
<1>5. CASE \E r \in requests : Serve(r) \/ Arrive(r) \/ ArriveHead(r) \/ Fail(r)
  BY <1>5, ServeKeepsInv, ArriveKeepsInv, ArriveHeadKeepsInv, FailKeepsInv
<1>6. CASE UNCHANGED vars
  <2>1. UNCHANGED <<grid, screen, page, store, requests, sends>>
    BY <1>6 DEF vars
  <2>2. RowsInv' /\ UNCHANGED <<tab, route, lists, error>>
    BY <2>1, PageIsLeft DEF Inv
  <2>3. EditorInv' /\ draft' = draft
    <3>1. sends' \in Nat /\ sends <= sends'
      BY <2>1 DEF Inv, RowsInv
    <3> QED BY <3>1, <2>1, <2>2, EditorIsLeft DEF Inv
  <2>4. draft' # NoRow /\ ~IsNew(draft)' => draft \in Known
    BY <2>3, KnownIs DEF IsNew, KeyOf
  <2> QED BY <2>1, <2>2, <2>3, <2>4, QuietStep
<1> QED BY <1>1, <1>2, <1>3, <1>4, <1>5, <1>6 DEF Next

\* What the invariant says of the type, of the requests and of the identity of rows.
LEMMA InvImpliesWellFormed ==
  ASSUME Inv
  PROVE  ScreenIsWellFormed
<1>1. /\ RowsInv /\ EditorInv /\ RequestsInv /\ NamesInv /\ sends \in Nat
  BY DEF Inv, RowsInv
<1>2. \A row \in RowsNow : IsRow(row)
  BY DEF RowsNow, IsRow
<1>3. TypeOK
  <2>1. clientPage \in Nat \ {0} /\ problems \subseteq {"name", "value"}
        /\ (editingKey # NoKey => draft # NoRow /\ KeyOf(draft) = editingKey)
    BY <1>1 DEF EditorInv
  <2>2. \A row \in {draft, addedRow} \ {NoRow} : IsRow(row)
    BY <1>1, <1>2 DEF EditorInv, Drafts
  <2>3. ASSUME NEW t \in TabsOf(screen), lists[t] # None
        PROVE  \A i \in DOMAIN lists[t] : IsRow(lists[t][i]) /\ ~IsNew(lists[t][i])
    <3>1. lists[t] \in Seq(ListedIn(t))
      BY <2>3, <1>1 DEF RowsInv
    <3> QED BY <3>1, <1>2 DEF ListedIn
  <2>4. asked # None => IsRow(asked)
    BY <1>1, <1>2 DEF RowsInv, ListedIn
  <2>5. error \in BOOLEAN /\ tab \in TabsOf(screen)
    BY <1>1 DEF RowsInv
  <2>7. DOMAIN cards = IF layout = "cards" /\ rows # None THEN KeysOf(rows) ELSE {}
    BY <1>1 DEF RowsInv
  <2>6. ASSUME NEW r \in requests PROVE r.op \in Ops /\ r.of \in RoutesOf(screen) /\ r.n <= sends
    <3>1. r.op \in Ops /\ r.of \in RoutesOf(screen) /\ r.n \in 0 .. sends
      BY <1>1, RequestsAre
    <3> QED BY <3>1, <1>1
  <2> QED BY ONLY <2>1, <2>2, <2>3, <2>4, <2>5, <2>6, <2>7 DEF TypeOK
<1>4. OneOpenEditor
  BY <1>1 DEF EditorInv
<1>5. RequestsAreWellFormed
  BY <1>1 DEF RequestsInv, Carries, RequestsAreWellFormed
<1>6. EditsKeepTheirIdentity
  <2> SUFFICES ASSUME NEW r \in requests
               PROVE  /\ r.op = "add" => IsNew(r.row)
                      /\ r.op = "save" =>
                           /\ ~IsNew(r.row)
                           /\ r.tab \in {"orgs", "fields", "limits"} =>
                                \A row \in Range(store[r.tab][r.of]) : KeyOf(row) = KeyOf(r.row) => row.name = r.row.name
    BY DEF EditsKeepTheirIdentity
  <2>1. r.op = "add" => IsNew(r.row)
    BY <1>1 DEF RequestsInv, Carries
  <2>2. r.op = "save" => r.row \in ListedIn(r.tab) /\ r.row \in Known
    BY <1>1, KnownIs DEF RequestsInv, Carries
  <2>3. ASSUME r.op = "save", r.tab \in {"orgs", "fields", "limits"},
               NEW row \in Range(store[r.tab][r.of]), KeyOf(row) = KeyOf(r.row)
        PROVE  row.name = r.row.name
    <3>1. r.tab \in TabsOf(screen) /\ r.of \in RoutesOf(screen) /\ store[r.tab][r.of] \in Seq(ListedIn(r.tab))
      BY <2>3, <1>1, RequestsAre
    <3>2. row \in ListedIn(r.tab)
      BY <3>1 DEF Range
    <3>3. CASE r.tab \in {"orgs", "fields"}
      <4>1. tab = r.tab
        <5>1. screen # "details"
          BY <3>1, <3>3, TabsAre
        <5> QED BY <5>1, <3>1, <1>1, TabsAre DEF RowsInv
      <4>2. row \in Known
        BY <4>1, <3>1, KnownIs
      <4> QED BY <4>1, <4>2, <3>3, <2>2, <2>3, <1>1 DEF NamesInv, KeyOf
    <3>4. CASE r.tab = "limits"
      BY <3>2, <3>4, <2>2, <2>3 DEF ListedIn, Listable, KeyOf
    <3> QED BY <3>3, <3>4, <2>3
  <2> QED BY <2>1, <2>2, <2>3 DEF ListedIn
<1> QED BY <1>3, <1>4, <1>5, <1>6 DEF ScreenIsWellFormed

(***************************************************************************)
(* What is shown once everything was answered.                             *)
(***************************************************************************)

\* A change that the server has made, and one made later than a request was worked on.
Worked(q) == q.op \notin {"list", "head"} /\ 0 < q.at
Later(q, r) == Place(q) = Place(r) /\ Worked(q) /\ r.at < q.at

\* What is known of each list, and what is counted of the work done for it.
HistoryInv ==
  /\ ServedInv /\ mixed \subseteq TabsOf(screen) /\ missed \subseteq TabsOf(screen)
  /\ \A r \in requests : r.op # "head" => r.at <= served[r.tab][r.of] /\ (r.back = "sent" <=> r.at = 0)
  /\ \A r \in requests : r.op = "list" => r.back # "lost"

\* A list that need not be the server's: it is known for it, or it is being loaded.
Excused(t) ==
  t \in mixed \/ t \in missed \/ \E r \in requests : r.op = "list" /\ Place(r) = <<t, route>>

\* Where every change reloads the list it changed: a list shown or on its way is the server's,
\* or a change made later is still to be heard of.
ReloadsInv ==
  screen # "ranges" =>
    /\ \A t \in TabsOf(screen) :
         \/ Excused(t) \/ lists[t] = store[t][route]
         \/ \E q \in requests : Place(q) = <<t, route>> /\ Worked(q)
    /\ \A r \in requests : r.op = "list" /\ 0 < r.at =>
         r.late \/ r.list = store[r.tab][r.of] \/ \E q \in requests : Later(q, r)

\* Where the saved limit is put into the list: the same, row by row.
Ranges == store["ranges"][route]
Changing(id, at) == \E q \in requests : Worked(q) /\ q.row.id = id /\ at < q.at
Matches(list, at) ==
  /\ list # None /\ DOMAIN list = DOMAIN Ranges
  /\ \A i \in DOMAIN Ranges :
       list[i].id = Ranges[i].id /\ (list[i] = Ranges[i] \/ Changing(Ranges[i].id, at))
MergesInv ==
  screen = "ranges" =>
    /\ Excused("ranges") \/ Matches(lists["ranges"], 0)
    /\ \A r \in requests : r.op = "list" /\ 0 < r.at => r.late \/ Matches(r.list, r.at)
    /\ \A r \in requests : Worked(r) =>
         \/ r.late \/ Changing(r.row.id, r.at)
         \/ \A i \in DOMAIN Ranges : Ranges[i].id = r.row.id => Ranges[i] = [r.row EXCEPT !.active = TRUE]

\* A list that was missed is not silently so, on the screens with one list that they reload.
MissesInv ==
  screen \notin {"details", "ranges"} /\ missed # {} =>
    error \/ mixed # {} \/ \E r \in requests : r.op # "head"

CurrentInv == HistoryInv /\ ReloadsInv /\ MergesInv /\ MissesInv

\* A step that touches neither the lists nor the requests.
LEMMA NothingHappens ==
  ASSUME CurrentInv, UNCHANGED <<screen, route, lists, error, store, requests, served, mixed, missed>>
  PROVE  CurrentInv'
<1>1. HistoryInv'
  BY DEF CurrentInv, HistoryInv, ServedInv
<1>2. \A t : Excused(t)' = Excused(t)
  BY DEF Excused, Place
<1>3. ReloadsInv'
  BY <1>2 DEF CurrentInv, ReloadsInv, Place, Worked, Later
<1>4. MergesInv'
  BY <1>2 DEF CurrentInv, MergesInv, Matches, Changing, Ranges, Worked
<1>5. MissesInv'
  BY DEF CurrentInv, MissesInv
<1> QED BY <1>1, <1>3, <1>4, <1>5 DEF CurrentInv

\* A change is sent.
LEMMA RunKeepsCurrent ==
  ASSUME Inv, CurrentInv, NEW op \in Ops \ {"head"}, NEW row, Run(op, row), UNCHANGED <<screen, route, lists, store>>
  PROVE  CurrentInv'
<1>1. PICK q : q = Request(sends', op, tab, route, row, FALSE)
  OBVIOUS
<1>2. requests' = requests \cup {q} /\ UNCHANGED <<served, mixed, missed>>
  BY <1>1 DEF Run, history
<1>3. q.op = op /\ q.tab = tab /\ q.of = route /\ q.back = "sent" /\ q.at = 0 /\ q.row = row
  BY <1>1 DEF Request
<1>4. tab \in TabsOf(screen) /\ route \in RoutesOf(screen)
  BY DEF Inv, RowsInv
<1>5. HistoryInv'
  <2>1. served[tab][route] \in Nat
    BY <1>4 DEF CurrentInv, HistoryInv, ServedInv
  <2>2. \A r \in requests' : r.op # "head" => r.at <= served[r.tab][r.of] /\ (r.back = "sent" <=> r.at = 0)
    BY <2>1, <1>2, <1>3 DEF CurrentInv, HistoryInv
  <2> QED BY <2>2, <1>2, <1>3 DEF CurrentInv, HistoryInv, ServedInv
<1>6. ~Worked(q) /\ ~(0 < q.at)
  BY <1>3 DEF Worked
<1>7. \A t : Excused(t) => Excused(t)'
  BY <1>2 DEF Excused, Place
<1>8. ReloadsInv'
  BY <1>2, <1>6, <1>7 DEF CurrentInv, ReloadsInv, Place, Worked, Later
<1>9. MergesInv'
  <2>1. Ranges' = Ranges /\ \A id, at : Changing(id, at) => Changing(id, at)'
    BY <1>2 DEF Ranges, Changing, Worked
  <2>2. \A list, at : Matches(list, at) => Matches(list, at)'
    BY <2>1 DEF Matches
  <2> QED BY <1>2, <1>6, <1>7, <2>1, <2>2 DEF CurrentInv, MergesInv, Worked
<1>10. MissesInv'
  BY <1>2, <1>3 DEF MissesInv
<1> QED BY <1>5, <1>8, <1>9, <1>10 DEF CurrentInv

\* The load effects run again: every list is being loaded, and no change is cancelled.
LEMMA LoadAgainKeepsCurrent ==
  ASSUME Inv, CurrentInv, NEW of \in RoutesOf(screen), LoadAgain(of), route' = of,
         UNCHANGED <<screen, lists, error, store>>
  PROVE  CurrentInv'
<1>1. PICK L, n : L = LoadsAt(n, of) /\ n = sends'
  OBVIOUS
<1>2. requests' = {r \in requests : ~r.effect} \cup L /\ UNCHANGED <<served, mixed, missed>>
  BY <1>1 DEF LoadAgain, Loads, LoadsAt, history
<1>3. /\ \A q \in L : Load(q, n, of)
      /\ \A t \in TabsOf(screen) : \E q \in L : q.op = "list" /\ q.tab = t
  BY <1>1, LoadsAre DEF Inv
<1>4. \A q \in L : q.of = of /\ q.back = "sent" /\ q.at = 0 /\ q.tab \in {"head"} \cup TabsOf(screen)
                   /\ (q.op # "head" => q.tab \in TabsOf(screen))
  BY <1>3, LoadFields DEF Load
<1>5. \A r \in requests : Worked(r) => ~r.effect
  BY DEF Worked, Inv, RequestsInv, Carries
<1>6. \A t \in TabsOf(screen) : Excused(t)'
  <2>1. ASSUME NEW t \in TabsOf(screen) PROVE \E r \in requests' : r.op = "list" /\ r.tab = t /\ r.of = of
    BY <1>2, <1>3, <1>4
  <2> QED BY <2>1 DEF Excused, Place
<1>7. HistoryInv'
  <2>1. \A t \in TabsOf(screen) : served[t][of] \in Nat
    BY DEF CurrentInv, HistoryInv, ServedInv
  <2>2. ASSUME NEW r \in requests', r.op # "head"
        PROVE  r.at <= served[r.tab][r.of] /\ (r.back = "sent" <=> r.at = 0)
    BY <2>1, <2>2, <1>2, <1>4 DEF CurrentInv, HistoryInv
  <2>3. \A r \in requests' : r.op = "list" => r.back # "lost"
    BY <1>2, <1>4 DEF CurrentInv, HistoryInv
  <2> QED BY <2>2, <2>3, <1>2 DEF CurrentInv, HistoryInv, ServedInv
<1>8. \A q \in requests : Worked(q) => q \in requests'
  BY <1>2, <1>5
<1>9. \A r \in requests' : 0 < r.at => r \in requests
  BY <1>2, <1>4
<1>10. ReloadsInv'
  BY <1>6, <1>8, <1>9 DEF CurrentInv, ReloadsInv, Place, Worked, Later
<1>11. MergesInv'
  <2> SUFFICES ASSUME screen = "ranges" PROVE MergesInv'
    BY DEF MergesInv
  <2>1. of = route
    BY DEF Inv, RowsInv, RoutesOf
  <2>2. Ranges' = Ranges /\ \A id, at : Changing(id, at) => Changing(id, at)'
    BY <1>8, <2>1 DEF Ranges, Changing, Worked
  <2>3. \A list, at : Matches(list, at) => Matches(list, at)'
    BY <2>2 DEF Matches
  <2>4. Excused("ranges")'
    BY <1>6 DEF TabsOf
  <2>5. \A r \in requests' : Worked(r) => r \in requests
    BY <1>9 DEF Worked
  <2> QED BY <1>9, <2>2, <2>3, <2>4, <2>5 DEF CurrentInv, MergesInv, Worked
<1>12. MissesInv'
  <2>1. \E q \in requests' : q.op # "head"
    <3>1. PICK t \in TabsOf(screen) : TRUE
      BY DEF Inv, RowsInv
    <3> QED BY <3>1, <1>2, <1>3
  <2> QED BY <2>1 DEF MissesInv
<1> QED BY <1>7, <1>10, <1>11, <1>12 DEF CurrentInv

\* The server works on a request.
LEMMA ServeKeepsCurrent ==
  ASSUME Inv, CurrentInv, NEW r \in requests, Serve(r)
  PROVE  CurrentInv'
<1>1. PICK out, q : WorkOn(r, out, q)
  BY ServeIs DEF Inv, CurrentInv, HistoryInv
<1>2. /\ out \in Outcomes(r.tab, store[r.tab][r.of], r) /\ out \in Seq(ListedIn(r.tab))
      /\ \A x \in TabsOf(screen) : \A y \in RoutesOf(screen) :
           store'[x][y] = IF x = r.tab /\ y = r.of THEN out ELSE store[x][y]
      /\ served' \in [TabsOf(screen) -> [RoutesOf(screen) -> Nat]]
      /\ \A x \in TabsOf(screen) : \A y \in RoutesOf(screen) :
           served'[x][y] = IF x = r.tab /\ y = r.of THEN served[x][y] + 1 ELSE served[x][y]
      /\ requests' = (requests \ {r}) \cup {q}
      /\ q.op = r.op /\ q.tab = r.tab /\ q.of = r.of /\ q.row = r.row /\ q.late = r.late
      /\ q.back \in {"done", "lost"} /\ (r.op = "list" => q.back = "done")
      /\ q.list = IF r.op = "list" THEN out ELSE r.list
      /\ q.at = served[r.tab][r.of] + 1
  BY <1>1 DEF WorkOn
<1>3. r.back = "sent" /\ r.op # "head" /\ UNCHANGED <<screen, route, lists, error, mixed, missed>>
  BY DEF Serve, page, history
<1>4. r.tab \in TabsOf(screen) /\ r.of \in RoutesOf(screen) /\ r.op \in {"list"} \cup OpsOn(r.tab)
      /\ route \in RoutesOf(screen)
  BY <1>3, RequestsAre DEF Inv, RowsInv
<1>5. HistoryInv /\ ServedInv /\ r.at = 0 /\ served[r.tab][r.of] \in Nat /\ q.at \in Nat /\ 0 < q.at
  BY <1>2, <1>3, <1>4 DEF CurrentInv, HistoryInv, ServedInv
<1>6. ASSUME NEW x \in requests, x.op # "head"
      PROVE  /\ x.at \in Nat /\ x.tab \in TabsOf(screen) /\ x.of \in RoutesOf(screen)
             /\ x.at <= served[x.tab][x.of] /\ (x.back = "sent" <=> x.at = 0)
             /\ Place(x) = Place(r) => x.at < q.at
  <2>1. x.at \in Nat /\ x.tab \in TabsOf(screen) /\ x.of \in RoutesOf(screen)
    BY <1>6, RequestsAre DEF Inv
  <2>2. x.at <= served[x.tab][x.of] /\ (x.back = "sent" <=> x.at = 0)
    BY <1>5, <1>6 DEF HistoryInv
  <2>3. Place(x) = Place(r) => x.tab = r.tab /\ x.of = r.of
    BY DEF Place
  <2>4. Place(x) = Place(r) => x.at < q.at
    BY <2>1, <2>2, <2>3, <1>2, <1>5
  <2> QED BY <2>1, <2>2, <2>4
<1>7. HistoryInv'
  <2>1. ASSUME NEW x \in requests', x.op # "head"
        PROVE  x.at <= served'[x.tab][x.of] /\ (x.back = "sent" <=> x.at = 0)
    <3>1. CASE x = q
      BY <3>1, <1>2, <1>4, <1>5
    <3>2. CASE x \in requests
      <4>1. x.at \in Nat /\ x.at <= served[x.tab][x.of] /\ x.tab \in TabsOf(screen) /\ x.of \in RoutesOf(screen)
            /\ (x.back = "sent" <=> x.at = 0)
        BY <3>2, <2>1, <1>6
      <4>2. served[x.tab][x.of] \in Nat
        BY <4>1, <1>5 DEF ServedInv
      <4>3. served[x.tab][x.of] <= served'[x.tab][x.of]
        BY <4>1, <4>2, <1>2
      <4>4. served'[x.tab][x.of] \in Nat
        BY <4>1, <1>2
      <4> QED BY <4>1, <4>2, <4>3, <4>4
    <3> QED BY <3>1, <3>2, <1>2
  <2>2. \A x \in requests' : x.op = "list" => x.back # "lost"
    BY <1>2, <1>5 DEF HistoryInv
  <2>3. ServedInv'
    BY <1>2, <1>3 DEF ServedInv
  <2> QED BY <2>1, <2>2, <2>3, <1>3, <1>5 DEF HistoryInv
<1>8. ~Worked(r) /\ Place(q) = Place(r) /\ (r.op # "list" => Worked(q))
  BY <1>2, <1>3, <1>5 DEF Worked, Place
<1>9. \A x \in requests : Worked(x) => x \in requests'
  BY <1>2, <1>8
<1>10. \A t : Excused(t) => Excused(t)'
  <2>1. ASSUME NEW t, NEW x \in requests, x.op = "list", Place(x) = <<t, route>>
        PROVE  \E y \in requests' : y.op = "list" /\ Place(y) = <<t, route>>
    BY <2>1, <1>2, <1>8
  <2>2. \A t : (\E x \in requests : x.op = "list" /\ Place(x) = <<t, route>>) =>
                 \E y \in requests' : y.op = "list" /\ Place(y) = <<t, route'>>
    BY <2>1, <1>3
  <2>3. \A y : Place(y)' = Place(y)
    BY DEF Place
  <2> QED BY <2>2, <2>3, <1>3 DEF Excused
<1>11. r.op = "list" => \A x \in TabsOf(screen) : \A y \in RoutesOf(screen) : store'[x][y] = store[x][y]
  BY <1>2 DEF Outcomes
<1>12. ReloadsInv'
  <2> SUFFICES ASSUME screen # "ranges" PROVE ReloadsInv'
    BY <1>3 DEF ReloadsInv
  <2>1. ASSUME NEW t \in TabsOf(screen)
        PROVE  \/ Excused(t)' \/ lists'[t] = store'[t][route']
               \/ \E x \in requests' : Place(x) = <<t, route>> /\ Worked(x)
    <3>1. \/ Excused(t) \/ lists[t] = store[t][route]
          \/ \E x \in requests : Place(x) = <<t, route>> /\ Worked(x)
      BY DEF CurrentInv, ReloadsInv
    <3>2. CASE Place(r) = <<t, route>> /\ r.op # "list"
      BY <3>2, <1>2, <1>8
    <3>3. CASE ~(Place(r) = <<t, route>> /\ r.op # "list")
      <4>1. store'[t][route] = store[t][route]
        BY <3>3, <1>2, <1>4, <1>11 DEF Place
      <4> QED BY <3>1, <4>1, <1>3, <1>9, <1>10
    <3> QED BY <3>2, <3>3
  <2>2. ASSUME NEW x \in requests', x.op = "list", 0 < x.at
        PROVE  x.late \/ x.list = store'[x.tab][x.of] \/ \E y \in requests' : Later(y, x)
    <3>1. CASE x = q
      BY <3>1, <2>2, <1>2, <1>4
    <3>2. CASE x \in requests
      <4>1. x.late \/ x.list = store[x.tab][x.of] \/ \E y \in requests : Later(y, x)
        BY <3>2, <2>2 DEF CurrentInv, ReloadsInv
      <4>2. x.tab \in TabsOf(screen) /\ x.of \in RoutesOf(screen) /\ (Place(x) = Place(r) => x.at < q.at)
        BY <3>2, <2>2, <1>6
      <4>3. CASE Place(x) = Place(r) /\ r.op # "list"
        BY <4>2, <4>3, <1>2, <1>8 DEF Later
      <4>4. CASE ~(Place(x) = Place(r) /\ r.op # "list")
        <5>1. store'[x.tab][x.of] = store[x.tab][x.of]
          BY <4>2, <4>4, <1>2, <1>11 DEF Place
        <5> QED BY <4>1, <5>1, <1>9 DEF Later
      <4> QED BY <4>3, <4>4
    <3> QED BY <3>1, <3>2, <1>2
  <2> QED BY <2>1, <2>2, <1>3 DEF ReloadsInv, Place, Worked, Later
<1>13. MergesInv'
  <2> SUFFICES ASSUME screen = "ranges" PROVE MergesInv'
    BY <1>3 DEF MergesInv
  <2>1. r.tab = "ranges" /\ r.of = route /\ "ranges" \in TabsOf(screen) /\ r.op \in {"list", "save"}
    BY <1>4 DEF TabsOf, RoutesOf, OpsOn
  <2>2. Ranges' = out /\ Ranges \in Seq(ListedIn("ranges")) /\ out \in Outcomes("ranges", Ranges, r)
    BY <2>1, <1>2, <1>3, <1>4 DEF Ranges, Inv, RowsInv
  <2>3. \A id, at : Changing(id, at) => Changing(id, at)'
    BY <1>9 DEF Changing, Worked
  <2>4. \A x \in requests : x.op # "head" => x.at < q.at
    <3>1. \A x \in requests : x.op # "head" => Place(x) = Place(r)
      BY <2>1, <1>4, <1>6 DEF Place, TabsOf, RoutesOf
    <3> QED BY <3>1, <1>6
  <2>5. CASE r.op = "list"
    <3>1. Ranges' = Ranges /\ out = Ranges
      BY <2>2, <2>5 DEF Outcomes
    <3>2. \A list, at : Matches(list, at) => Matches(list, at)'
      BY <2>3, <3>1 DEF Matches
    <3>3. Matches(q.list, q.at)'
      <4>1. q.list = Ranges /\ Ranges # None
        <5>1. Ranges \in Seq(RowsNow)
          BY <2>1, <1>4 DEF Ranges, Inv, RowsInv
        <5> QED BY <5>1, <3>1, <2>5, <1>2, RowsAreAny DEF Inv
      <4>2. PICK list, at : list = q.list /\ at = q.at
        OBVIOUS
      <4>3. Matches(list, at)'
        BY <4>1, <4>2, <3>1 DEF Matches
      <4> QED BY <4>2, <4>3
    <3>4. \A x \in requests' : x = q \/ x \in requests
      BY <1>2
    <3>5. ~Worked(q)
      BY <2>5, <1>2 DEF Worked
    <3> QED BY <2>3, <3>1, <3>2, <3>3, <3>4, <3>5, <1>3, <1>10 DEF CurrentInv, MergesInv, Worked
  <2>6. CASE r.op = "save"
    <3>1. PICK e : e = [r.row EXCEPT !.active = TRUE]
      OBVIOUS
    <3>2. r.row \in RowsNow
      BY <2>6 DEF Inv, RequestsInv, Carries
    <3>3. e.id = r.row.id
      BY <3>1, <3>2, EditedRows
    <3>4. out = [i \in DOMAIN Ranges |-> IF Ranges[i].id = r.row.id THEN e ELSE Ranges[i]]
      <4>1. out \in Replaced(Ranges, e)
        BY <2>2, <2>6, <3>1 DEF Outcomes, RangesApi
      <4> QED BY <4>1, <3>3 DEF Replaced, KeyOf
    <3>5. /\ DOMAIN Ranges' = DOMAIN Ranges
          /\ \A i \in DOMAIN Ranges : /\ Ranges'[i].id = Ranges[i].id
                                      /\ Ranges[i].id # r.row.id => Ranges'[i] = Ranges[i]
                                      /\ Ranges[i].id = r.row.id => Ranges'[i] = e
      BY <2>2, <3>3, <3>4
    <3>6. \A at : at < q.at => Changing(r.row.id, at)'
      BY <2>6, <1>2, <1>8 DEF Changing, Worked
    <3>7. \A list, at : at < q.at /\ Matches(list, at) => Matches(list, at)'
      <4> SUFFICES ASSUME NEW list, NEW at, at < q.at, Matches(list, at) PROVE Matches(list, at)'
        OBVIOUS
      <4>1. list # None /\ DOMAIN list = DOMAIN Ranges
        BY DEF Matches
      <4>2. ASSUME NEW i \in DOMAIN Ranges
            PROVE  /\ list[i].id = Ranges'[i].id
                   /\ \/ list[i] = Ranges'[i]
                      \/ \E x \in requests' : Worked(x) /\ x.row.id = Ranges'[i].id /\ at < x.at
        <5>1. list[i].id = Ranges[i].id /\ (list[i] = Ranges[i] \/ Changing(Ranges[i].id, at))
          BY DEF Matches
        <5>2. Changing(Ranges[i].id, at) =>
                \E x \in requests' : Worked(x) /\ x.row.id = Ranges[i].id /\ at < x.at
          BY <1>9 DEF Changing
        <5>3. Ranges[i].id = r.row.id =>
                \E x \in requests' : Worked(x) /\ x.row.id = Ranges[i].id /\ at < x.at
          BY <2>6, <1>2, <1>8
        <5>4. Ranges'[i].id = Ranges[i].id /\ (Ranges[i].id # r.row.id => Ranges'[i] = Ranges[i])
          BY <3>5
        <5> QED BY <5>1, <5>2, <5>3, <5>4
      <4> QED BY <4>1, <4>2, <3>5 DEF Matches, Changing, Worked
    <3>8. ASSUME NEW x \in requests', x.op = "list", 0 < x.at
          PROVE  x.late \/ Matches(x.list, x.at)'
      <4>1. x \in requests
        BY <3>8, <2>6, <1>2
      <4>2. PICK list, at : list = x.list /\ at = x.at
        OBVIOUS
      <4>3. at < q.at /\ (x.late \/ Matches(list, at))
        BY <4>1, <4>2, <3>8, <2>4 DEF CurrentInv, MergesInv
      <4> QED BY <4>2, <4>3, <3>7
    <3>9. ASSUME NEW x \in requests', Worked(x)
          PROVE  \/ x.late \/ Changing(x.row.id, x.at)'
                 \/ \A i \in DOMAIN Ranges' : Ranges'[i].id = x.row.id => Ranges'[i] = [x.row EXCEPT !.active = TRUE]
      <4>1. CASE x = q
        BY <4>1, <3>1, <3>5, <1>2
      <4>2. CASE x \in requests /\ x.row.id = r.row.id
        <5>1. x.at < q.at
          BY <4>2, <3>9, <2>4 DEF Worked
        <5>2. PICK id, at : id = x.row.id /\ at = x.at
          OBVIOUS
        <5>3. Changing(id, at)'
          BY <5>1, <5>2, <4>2, <3>6
        <5> QED BY <5>2, <5>3
      <4>3. CASE x \in requests /\ x.row.id # r.row.id
        <5>1. \/ x.late \/ Changing(x.row.id, x.at)
              \/ \A i \in DOMAIN Ranges : Ranges[i].id = x.row.id => Ranges[i] = [x.row EXCEPT !.active = TRUE]
          BY <4>3, <3>9 DEF CurrentInv, MergesInv
        <5>2. PICK id, at : id = x.row.id /\ at = x.at
          OBVIOUS
        <5>3. Changing(id, at) => Changing(id, at)'
          BY <2>3
        <5> QED BY <5>1, <5>2, <5>3, <4>3, <3>5
      <4> QED BY <4>1, <4>2, <4>3, <1>2
    <3>10. Excused("ranges")' \/ Matches(lists["ranges"], 0)'
      <4>1. PICK list : list = lists["ranges"]
        OBVIOUS
      <4>2. Excused("ranges") \/ Matches(list, 0)
        BY <4>1 DEF CurrentInv, MergesInv
      <4>3. Excused("ranges")' \/ Matches(list, 0)'
        BY <4>2, <3>7, <1>5, <1>10
      <4> QED BY <4>1, <4>3, <1>3
    <3> QED BY <3>8, <3>9, <3>10, <1>3 DEF MergesInv, Worked
  <2> QED BY <2>1, <2>5, <2>6
<1>14. MissesInv'
  BY <1>2, <1>3 DEF CurrentInv, MissesInv
<1> QED BY <1>7, <1>12, <1>13, <1>14 DEF CurrentInv

\* An answer arrives: what it shows is the server's, or overtaken, or to be replaced.
LEMMA ArriveKeepsCurrent ==
  ASSUME Inv, CurrentInv, NEW r \in requests, Arrive(r)
  PROVE  CurrentInv'
<1>1. /\ r.back \in {"done", "lost"} /\ r.op \in Ops \ {"head"} /\ UNCHANGED <<screen, route, store>>
      /\ error' = (error \/ r.back = "lost")
      /\ r.tab \in TabsOf(screen) /\ r.of \in RoutesOf(screen) /\ r.op \in {"list"} \cup OpsOn(r.tab)
      /\ route \in RoutesOf(screen) /\ tab \in TabsOf(screen)
  <2>1. r.back # "sent" /\ r.op # "head"
    BY ArriveRequests DEF Inv
  <2>2. UNCHANGED <<screen, route, store>> /\ error' = (error \/ r.back = "lost")
    BY DEF Arrive
  <2>3. r.back \in {"sent", "done", "lost"} /\ r.tab \in TabsOf(screen) /\ r.of \in RoutesOf(screen)
        /\ r.op \in {"list"} \cup OpsOn(r.tab) /\ r.op \in Ops
    BY <2>1, RequestsAre DEF Inv
  <2>4. route \in RoutesOf(screen) /\ tab \in TabsOf(screen)
    BY DEF Inv, RowsInv
  <2> QED BY <2>1, <2>2, <2>3, <2>4
<1>2. /\ served' = IF \A q \in requests \ {r} : Place(q) # Place(r)
                   THEN [served EXCEPT ![r.tab][r.of] = 0] ELSE served
      /\ mixed' = {t \in mixed : Shows(r) /\ r.op = "list" => t # r.tab}
                    \cup {t \in {r.tab} : Shows(r) /\ ~InOrder(r)}
      /\ missed' = {t \in missed : Shows(r) /\ r.op = "list" /\ InOrder(r) => t # r.tab}
                     \cup {t \in {r.tab} : Misses(r)}
  BY <1>1 DEF Arrive, Remember
<1>3. HistoryInv /\ ServedInv /\ r.at \in Nat /\ 0 < r.at /\ (r.op = "list" => r.back = "done")
  <2>1. HistoryInv /\ r.at # 0 /\ r.at \in Nat /\ (r.op = "list" => r.back # "lost")
    BY <1>1, RequestsAre DEF CurrentInv, HistoryInv, Inv
  <2> QED BY <2>1, <1>1 DEF HistoryInv
<1>4. /\ \A q \in requests : q # r => \E p \in requests' : HeardAs(p, q, r)
      /\ \A p \in requests' : (Reloads(r) /\ Reload(p, r)) \/ \E q \in requests : q # r /\ HeardAs(p, q, r)
      /\ Reloads(r) => \E p \in requests' : Reload(p, r)
  <2>1. /\ Reloads(r) => \E q \in Requests' : Reload(q, r) /\ requests' = Heard(r) \cup {q}
        /\ ~Reloads(r) => requests' = Heard(r)
    BY ArriveRequests DEF Inv
  <2>2. /\ \A p \in Heard(r) : \E q \in requests : q # r /\ HeardAs(p, q, r)
        /\ \A q \in requests : q # r => \E p \in Heard(r) : HeardAs(p, q, r)
    BY HeardAre DEF Inv
  <2> QED BY <2>1, <2>2
<1>5. /\ ~Shows(r) => lists' = lists
      /\ Shows(r) => \E list : ShowsNow(r, list)
      /\ lists \in [TabsOf(screen) -> {None} \cup Seq(RowsNow)]
  BY ArriveLists DEF Inv, RowsInv
<1>6. \A p, q : HeardAs(p, q, r) => /\ p.op = q.op /\ p.tab = q.tab /\ p.of = q.of /\ p.row = q.row
                                    /\ p.back = q.back /\ p.list = q.list /\ p.at = q.at
                                    /\ Place(p) = Place(q) /\ (Worked(p) <=> Worked(q))
                                    /\ (q.late \/ Overtaken(q, r) => p.late)
  BY DEF HeardAs, Same, Place, Worked
<1>7. \A p : Reload(p, r) => p.op = "list" /\ Place(p) = Place(r) /\ p.tab = r.tab /\ p.of = r.of
                              /\ p.back = "sent" /\ p.at = 0 /\ ~Worked(p)
  BY DEF Reload, Place, Worked
<1>8. \A q \in requests : Worked(q) /\ q # r =>
        \E p \in requests' : Worked(p) /\ Place(p) = Place(q) /\ p.row = q.row /\ p.at = q.at
  BY <1>4, <1>6
<1>9. \A p \in requests' : 0 < p.at => \E q \in requests : q # r /\ HeardAs(p, q, r)
  BY <1>4, <1>7
<1>10. \A t : Excused(t) /\ ~(Shows(r) /\ r.op = "list" /\ t = r.tab) => Excused(t)'
  <2> SUFFICES ASSUME NEW t, Excused(t), ~(Shows(r) /\ r.op = "list" /\ t = r.tab) PROVE Excused(t)'
    OBVIOUS
  <2>1. CASE t \in mixed \/ t \in missed
    BY <2>1, <1>2 DEF Excused
  <2>2. CASE \E x \in requests : x.op = "list" /\ Place(x) = <<t, route>>
    <3>1. PICK x \in requests : x.op = "list" /\ Place(x) = <<t, route>>
      BY <2>2
    <3>2. x # r
      BY <3>1, <1>3 DEF Shows, Place
    <3>3. \E p \in requests' : p.op = "list" /\ Place(p) = <<t, route>>
      BY <3>1, <3>2, <1>4, <1>6
    <3> QED BY <3>3, <1>1 DEF Excused, Place
  <2> QED BY <2>1, <2>2 DEF Excused
<1>11. HistoryInv'
  <2>1. ServedInv'
    BY <1>1, <1>2, <1>3 DEF ServedInv
  <2>2. mixed' \subseteq TabsOf(screen) /\ missed' \subseteq TabsOf(screen)
    BY <1>1, <1>2, <1>3 DEF HistoryInv
  <2>3. ASSUME NEW p \in requests', p.op # "head"
        PROVE  p.at <= served'[p.tab][p.of] /\ (p.back = "sent" <=> p.at = 0)
    <3>1. CASE Reload(p, r)
      <4>1. served'[r.tab][r.of] \in Nat
        BY <2>1, <1>1 DEF ServedInv
      <4> QED BY <4>1, <3>1, <1>7
    <3>2. CASE \E q \in requests : q # r /\ HeardAs(p, q, r)
      <4>1. PICK q \in requests : q # r /\ HeardAs(p, q, r)
        BY <3>2
      <4>2. q.tab \in TabsOf(screen) /\ q.of \in RoutesOf(screen) /\ q.op # "head"
        BY <4>1, <2>3, <1>6, RequestsAre DEF Inv
      <4>3. q.at <= served[q.tab][q.of] /\ (q.back = "sent" <=> q.at = 0)
        BY <4>2, <1>3 DEF HistoryInv
      <4>4. served'[q.tab][q.of] = served[q.tab][q.of]
        <5>1. CASE Place(q) = Place(r)
          BY <5>1, <4>1, <1>2
        <5>2. CASE Place(q) # Place(r)
          BY <5>2, <4>2, <1>1, <1>2, <1>3 DEF Place, ServedInv
        <5> QED BY <5>1, <5>2
      <4> QED BY <4>1, <4>3, <4>4, <1>6
    <3> QED BY <3>1, <3>2, <1>4
  <2>4. \A p \in requests' : p.op = "list" => p.back # "lost"
    BY <1>3, <1>4, <1>6, <1>7 DEF HistoryInv
  <2> QED BY <2>1, <2>2, <2>3, <2>4, <1>1 DEF HistoryInv
<1>12. ReloadsInv'
  <2> SUFFICES ASSUME screen # "ranges" PROVE ReloadsInv'
    BY <1>1 DEF ReloadsInv
  <2>0. Shows(r) <=> r.op = "list"
    BY <1>1, <1>3 DEF Shows
  <2>1. ASSUME NEW t \in TabsOf(screen)
        PROVE  \/ Excused(t)' \/ lists'[t] = store[t][route]
               \/ \E x \in requests' : Place(x) = <<t, route>> /\ Worked(x)
    <3>1. CASE r.op = "list" /\ r.tab = t
      <4>1. PICK list : ShowsNow(r, list)
        BY <3>1, <2>0, <1>5
      <4>2. lists'[t] = r.list
        BY <4>1, <3>1, <1>1, <1>5 DEF ShowsNow, Answers
      <4>3. CASE InOrder(r)
        <5>1. r.list = store[t][route] \/ \E q \in requests : Later(q, r)
          BY <3>1, <4>3, <1>3 DEF CurrentInv, ReloadsInv, InOrder
        <5>2. ASSUME NEW q \in requests, Later(q, r)
              PROVE  \E x \in requests' : Place(x) = <<t, route>> /\ Worked(x)
          BY <5>2, <3>1, <4>3, <1>8 DEF Later, Place, InOrder, Worked
        <5> QED BY <4>2, <5>1, <5>2
      <4>4. CASE ~InOrder(r)
        BY <4>4, <3>1, <2>0, <1>2 DEF Excused
      <4> QED BY <4>3, <4>4
    <3>2. CASE ~(r.op = "list" /\ r.tab = t)
      <4>1. lists'[t] = lists[t]
        <5>1. CASE Shows(r)
          BY <5>1, <3>2, <2>0, <1>5 DEF ShowsNow
        <5>2. CASE ~Shows(r)
          BY <5>2, <1>5
        <5> QED BY <5>1, <5>2
      <4>2. \/ Excused(t) \/ lists[t] = store[t][route]
            \/ \E q \in requests : Place(q) = <<t, route>> /\ Worked(q)
        BY DEF CurrentInv, ReloadsInv
      <4>3. Excused(t) => Excused(t)'
        BY <3>2, <1>10
      <4>4. ASSUME NEW q \in requests, Place(q) = <<t, route>>, Worked(q)
            PROVE  Excused(t)' \/ \E x \in requests' : Place(x) = <<t, route>> /\ Worked(x)
        <5>1. CASE q # r
          BY <5>1, <4>4, <1>8
        <5>2. CASE q = r /\ r.back = "done"
          <6>1. \E p \in requests' : Reload(p, r)
            BY <5>2, <4>4, <1>4 DEF Reloads, Worked
          <6>2. \E p \in requests' : p.op = "list" /\ Place(p) = <<t, route>>
            BY <6>1, <5>2, <4>4, <1>7
          <6> QED BY <6>2, <1>1 DEF Excused, Place
        <5>3. CASE q = r /\ r.back = "lost"
          <6>1. r.tab = t /\ Misses(r)
            BY <5>3, <4>4 DEF Place, Misses
          <6> QED BY <6>1, <1>2 DEF Excused
        <5> QED BY <5>1, <5>2, <5>3, <1>1
      <4> QED BY <4>1, <4>2, <4>3, <4>4
    <3> QED BY <3>1, <3>2
  <2>2. ASSUME NEW x \in requests', x.op = "list", 0 < x.at
        PROVE  x.late \/ x.list = store[x.tab][x.of] \/ \E y \in requests' : Later(y, x)
    <3>1. PICK q \in requests : q # r /\ HeardAs(x, q, r)
      BY <2>2, <1>9
    <3>2. q.late \/ q.list = store[q.tab][q.of] \/ \E y \in requests : Later(y, q)
      BY <3>1, <2>2, <1>6 DEF CurrentInv, ReloadsInv
    <3>3. ASSUME NEW y \in requests, Later(y, q)
          PROVE  x.late \/ \E z \in requests' : Later(z, x)
      <4>1. CASE y = r
        <5>1. Overtaken(q, r)
          BY <4>1, <3>3, <3>1, <2>2, <1>6 DEF Later, Overtaken
        <5> QED BY <5>1, <3>1, <1>6
      <4>2. CASE y # r
        <5>1. PICK z \in requests' : Worked(z) /\ Place(z) = Place(y) /\ z.at = y.at
          BY <4>2, <3>3, <1>8 DEF Later
        <5>2. Later(z, x)
          BY <5>1, <3>1, <3>3, <1>6 DEF Later
        <5> QED BY <5>2
      <4> QED BY <4>1, <4>2
    <3> QED BY <3>1, <3>2, <3>3, <1>6
  <2> QED BY <2>1, <2>2, <1>1 DEF ReloadsInv, Place, Worked, Later
<1>13. MergesInv'
  <2> SUFFICES ASSUME screen = "ranges" PROVE MergesInv'
    BY <1>1 DEF MergesInv
  <2>1. r.tab = "ranges" /\ r.of = route /\ tab = "ranges" /\ "ranges" \in TabsOf(screen)
        /\ r.op \in {"list", "save"} /\ Ranges' = Ranges
    BY <1>1 DEF TabsOf, RoutesOf, OpsOn, Ranges
  <2>2. \A q \in requests : q.op # "head" => Place(q) = Place(r)
    <3>1. \A q \in requests : q.op # "head" => q.tab \in TabsOf(screen) /\ q.of \in RoutesOf(screen)
      BY RequestsAre DEF Inv
    <3> QED BY <3>1, <1>1 DEF Place, TabsOf, RoutesOf
  <2>3. \A id, at : Changing(id, at) =>
          \/ \E p \in requests' : Worked(p) /\ p.row.id = id /\ at < p.at
          \/ Worked(r) /\ r.row.id = id /\ at < r.at
    BY <1>8 DEF Changing
  <2>4. \A list \in Seq(ListedIn("ranges")) : list # None
    <3>1. ListedIn("ranges") \subseteq RowsNow
      BY DEF ListedIn
    <3>2. \A list \in Seq(ListedIn("ranges")) : list \in Seq(RowsNow)
      BY <3>1
    <3> QED BY <3>2, RowsAreAny DEF Inv
  <2>5. Excused("ranges")' \/ Matches(lists["ranges"], 0)'
    <3>1. PICK list : list = lists'["ranges"]
      OBVIOUS
    <3>2. CASE ~Shows(r)
      <4>1. r.back = "lost" /\ Misses(r)
        BY <3>2, <2>1, <1>1, <1>3 DEF Shows, Misses
      <4> QED BY <4>1, <2>1, <1>2 DEF Excused
    <3>3. CASE Shows(r) /\ r.late
      BY <3>3, <2>1, <1>2 DEF InOrder, Excused
    <3>4. CASE Shows(r) /\ ~r.late /\ r.op = "list"
      <4>1. list \in Seq(ListedIn("ranges")) /\ list = r.list
        BY <3>1, <3>4, <2>1, <1>5 DEF ShowsNow, Answers
      <4>2. Matches(r.list, r.at)
        BY <3>4, <1>3 DEF CurrentInv, MergesInv
      <4>3. DOMAIN list = DOMAIN Ranges
        BY <4>1, <4>2 DEF Matches
      <4>4. ASSUME NEW i \in DOMAIN Ranges
            PROVE  /\ list[i].id = Ranges[i].id
                   /\ \/ list[i] = Ranges[i]
                      \/ \E p \in requests' : Worked(p) /\ p.row.id = Ranges[i].id /\ 0 < p.at
        <5>1. list[i].id = Ranges[i].id /\ (list[i] = Ranges[i] \/ Changing(Ranges[i].id, r.at))
          BY <4>1, <4>2 DEF Matches
        <5>2. Changing(Ranges[i].id, r.at) =>
                \E p \in requests' : Worked(p) /\ p.row.id = Ranges[i].id /\ 0 < p.at
          BY <2>3, <3>4 DEF Worked
        <5> QED BY <5>1, <5>2
      <4>5. Matches(list, 0)'
        BY <4>1, <4>3, <4>4, <2>1, <2>4 DEF Matches, Changing, Worked
      <4> QED BY <4>5, <3>1
    <3>5. CASE Shows(r) /\ ~r.late /\ r.op = "save"
      <4>1. PICK e, old : e = [r.row EXCEPT !.active = TRUE] /\ old = lists["ranges"]
        OBVIOUS
      <4>2. r.row \in RowsNow
        BY <3>5 DEF Inv, RequestsInv, Carries
      <4>3. e.id = r.row.id
        BY <4>1, <4>2, EditedRows
      <4>4. list \in Seq(ListedIn("ranges")) /\ list = Merged(r.row)
        BY <3>1, <3>5, <2>1, <1>5 DEF ShowsNow, Answers
      <4>5. list = [i \in DOMAIN old |-> IF old[i].id = r.row.id THEN e ELSE old[i]]
        BY <4>1, <4>4, <2>1 DEF Merged, rows, KeyOf
      <4>6. Excused("ranges") \/ Matches(old, 0)
        BY <4>1 DEF CurrentInv, MergesInv
      <4>7. Excused("ranges") => Excused("ranges")'
        BY <3>5, <1>10
      <4>8. ASSUME Matches(old, 0) PROVE Matches(list, 0)'
        <5>1. DOMAIN list = DOMAIN Ranges
          BY <4>5, <4>8 DEF Matches
        <5>2. ASSUME NEW i \in DOMAIN Ranges
              PROVE  /\ list[i].id = Ranges[i].id
                     /\ \/ list[i] = Ranges[i]
                        \/ \E p \in requests' : Worked(p) /\ p.row.id = Ranges[i].id /\ 0 < p.at
          <6>1. /\ DOMAIN old = DOMAIN Ranges /\ old[i].id = Ranges[i].id
                /\ old[i] = Ranges[i] \/ Changing(Ranges[i].id, 0)
            BY <4>8 DEF Matches
          <6>2. CASE Ranges[i].id = r.row.id
            <7>1. Changing(r.row.id, r.at) \/ Ranges[i] = e
              BY <6>2, <4>1, <3>5, <1>3 DEF CurrentInv, MergesInv, Worked
            <7>2. Changing(r.row.id, r.at) =>
                    \E p \in requests' : Worked(p) /\ p.row.id = r.row.id /\ 0 < p.at
              BY <2>3, <1>3 DEF Worked
            <7>3. list[i] = e
              BY <6>1, <6>2, <4>5
            <7> QED BY <7>1, <7>2, <7>3, <6>2, <4>3
          <6>3. CASE Ranges[i].id # r.row.id
            <7>1. list[i] = old[i]
              BY <6>1, <6>3, <4>5
            <7>2. Changing(Ranges[i].id, 0) =>
                    \E p \in requests' : Worked(p) /\ p.row.id = Ranges[i].id /\ 0 < p.at
              BY <2>3, <6>3
            <7> QED BY <7>1, <7>2, <6>1
          <6> QED BY <6>2, <6>3
        <5> QED BY <5>1, <5>2, <4>4, <2>1, <2>4 DEF Matches, Changing, Worked
      <4> QED BY <4>6, <4>7, <4>8, <3>1
    <3> QED BY <3>2, <3>3, <3>4, <3>5, <2>1
  <2>6. ASSUME NEW x \in requests', x.op = "list", 0 < x.at
        PROVE  x.late \/ Matches(x.list, x.at)'
    <3>1. PICK q \in requests : q # r /\ HeardAs(x, q, r)
      BY <2>6, <1>9
    <3>2. PICK list, at : list = x.list /\ at = x.at
      OBVIOUS
    <3>3. list = q.list /\ at = q.at /\ q.op = "list" /\ 0 < at
      BY <3>1, <3>2, <2>6, <1>6
    <3>4. q.late \/ Matches(list, at)
      BY <3>3 DEF CurrentInv, MergesInv
    <3>5. CASE Overtaken(q, r) \/ q.late
      BY <3>1, <3>5, <1>6
    <3>6. CASE ~Overtaken(q, r) /\ Matches(list, at)
      <4>1. ~(at < r.at)
        BY <3>3, <3>6, <2>2 DEF Overtaken
      <4>2. list # None /\ DOMAIN list = DOMAIN Ranges
        BY <3>6 DEF Matches
      <4>3. ASSUME NEW i \in DOMAIN Ranges
            PROVE  /\ list[i].id = Ranges[i].id
                   /\ \/ list[i] = Ranges[i]
                      \/ \E p \in requests' : Worked(p) /\ p.row.id = Ranges[i].id /\ at < p.at
        <5>1. list[i].id = Ranges[i].id /\ (list[i] = Ranges[i] \/ Changing(Ranges[i].id, at))
          BY <3>6 DEF Matches
        <5> QED BY <5>1, <4>1, <2>3
      <4>4. Matches(list, at)'
        BY <4>2, <4>3, <2>1 DEF Matches, Changing, Worked
      <4> QED BY <4>4, <3>2
    <3> QED BY <3>4, <3>5, <3>6
  <2>7. ASSUME NEW x \in requests', Worked(x)
        PROVE  \/ x.late \/ Changing(x.row.id, x.at)'
               \/ \A i \in DOMAIN Ranges' : Ranges'[i].id = x.row.id => Ranges'[i] = [x.row EXCEPT !.active = TRUE]
    <3>1. PICK q \in requests : q # r /\ HeardAs(x, q, r)
      BY <2>7, <1>9 DEF Worked
    <3>2. q.row = x.row /\ q.at = x.at /\ Worked(q) /\ 0 < q.at /\ q.op # "head"
      BY <3>1, <2>7, <1>6 DEF Worked
    <3>3. \/ q.late \/ Changing(x.row.id, x.at)
          \/ \A i \in DOMAIN Ranges : Ranges[i].id = x.row.id => Ranges[i] = [x.row EXCEPT !.active = TRUE]
      BY <3>2 DEF CurrentInv, MergesInv
    <3>4. CASE Overtaken(q, r) \/ q.late
      BY <3>1, <3>4, <1>6
    <3>5. CASE ~Overtaken(q, r) /\ Changing(x.row.id, x.at)
      <4>1. ~(x.at < r.at)
        BY <3>2, <3>5, <2>2 DEF Overtaken
      <4>2. \E p \in requests' : Worked(p) /\ p.row.id = x.row.id /\ x.at < p.at
        BY <4>1, <3>5, <2>3
      <4>3. PICK id, at : id = x.row.id /\ at = x.at
        OBVIOUS
      <4>4. Changing(id, at)'
        BY <4>2, <4>3 DEF Changing, Worked
      <4> QED BY <4>3, <4>4
    <3> QED BY <3>3, <3>4, <3>5, <2>1
  <2> QED BY <2>5, <2>6, <2>7, <1>1 DEF MergesInv, Worked
<1>14. MissesInv'
  <2> SUFFICES ASSUME screen \notin {"details", "ranges"}, missed' # {}
               PROVE  error' \/ mixed' # {} \/ \E p \in requests' : p.op # "head"
    BY <1>1 DEF MissesInv
  <2>1. CASE r.back = "lost"
    BY <2>1, <1>1
  <2>2. CASE r.back = "done" /\ r.op # "list"
    <3>1. \E p \in requests' : Reload(p, r)
      BY <2>2, <1>4 DEF Reloads
    <3> QED BY <3>1, <1>7
  <2>3. CASE r.back = "done" /\ r.op = "list"
    <3>1. Shows(r) /\ ~Misses(r)
      BY <2>3 DEF Shows, Misses
    <3>2. \A t \in TabsOf(screen) : t = r.tab
      BY <1>1 DEF TabsOf
    <3>3. \A t \in missed : t = r.tab
      BY <3>2, <1>3 DEF HistoryInv
    <3>4. InOrder(r) => missed' = {}
      BY <3>1, <3>3, <2>3, <1>2
    <3>5. ~InOrder(r) => r.tab \in mixed'
      BY <3>1, <1>2
    <3> QED BY <3>4, <3>5
  <2> QED BY <2>1, <2>2, <2>3, <1>1
<1> QED BY <1>11, <1>12, <1>13, <1>14 DEF CurrentInv

\* Nothing was done for a request that failed, nor is anything shown of it.
LEMMA DroppedKeepsCurrent ==
  ASSUME Inv, CurrentInv, NEW r \in requests, r.back = "sent", requests' = requests \ {r},
         UNCHANGED <<screen, route, lists, store, mixed>>, ServedInv',
         missed \subseteq missed', missed' \subseteq TabsOf(screen),
         r.op = "list" /\ r.of = route => r.tab \in missed',
         r.op = "head" => served' = served,
         r.op # "head" =>
           served' = IF \A q \in requests \ {r} : Place(q) # Place(r)
                     THEN [served EXCEPT ![r.tab][r.of] = 0] ELSE served,
         MissesInv'
  PROVE  CurrentInv'
<1>1. HistoryInv /\ ServedInv /\ ~Worked(r)
  <2>1. r.op # "head" => r.at = 0
    BY DEF CurrentInv, HistoryInv
  <2> QED BY <2>1 DEF CurrentInv, HistoryInv, Worked
<1>2. \A q \in requests : Worked(q) => q \in requests'
  BY <1>1
<1>3. \A t : Excused(t) => Excused(t)'
  <2> SUFFICES ASSUME NEW t, Excused(t) PROVE Excused(t)'
    OBVIOUS
  <2>1. CASE t \in mixed \/ t \in missed
    BY <2>1 DEF Excused
  <2>2. CASE \E x \in requests : x.op = "list" /\ Place(x) = <<t, route>>
    <3>1. PICK x \in requests : x.op = "list" /\ Place(x) = <<t, route>>
      BY <2>2
    <3>2. x = r => t \in missed'
      BY <3>1 DEF Place
    <3> QED BY <3>1, <3>2 DEF Excused, Place
  <2> QED BY <2>1, <2>2 DEF Excused
<1>4. HistoryInv'
  <2>1. ASSUME NEW q \in requests', q.op # "head"
        PROVE  q.at <= served'[q.tab][q.of] /\ (q.back = "sent" <=> q.at = 0)
    <3>1. q.at <= served[q.tab][q.of] /\ (q.back = "sent" <=> q.at = 0) /\ q # r
      BY <2>1, <1>1 DEF HistoryInv
    <3>2. q.tab \in TabsOf(screen) /\ q.of \in RoutesOf(screen)
      BY <2>1, RequestsAre DEF Inv
    <3>3. r.op # "head" => r.tab \in TabsOf(screen) /\ r.of \in RoutesOf(screen)
      BY RequestsAre DEF Inv
    <3>4. served'[q.tab][q.of] = served[q.tab][q.of]
      <4>1. CASE Place(q) = Place(r) \/ r.op = "head"
        BY <4>1, <3>1, <2>1
      <4>2. CASE Place(q) # Place(r) /\ r.op # "head"
        BY <4>2, <3>2, <3>3, <1>1 DEF Place, ServedInv
      <4> QED BY <4>1, <4>2
    <3> QED BY <3>1, <3>4
  <2> QED BY <2>1, <1>1 DEF HistoryInv
<1>5. ReloadsInv'
  BY <1>2, <1>3 DEF CurrentInv, ReloadsInv, Place, Worked, Later
<1>6. MergesInv'
  <2>1. Ranges' = Ranges /\ \A id, at : Changing(id, at) => Changing(id, at)'
    BY <1>2 DEF Ranges, Changing, Worked
  <2>2. \A list, at : Matches(list, at) => Matches(list, at)'
    BY <2>1 DEF Matches
  <2> QED BY <1>3, <2>1, <2>2 DEF CurrentInv, MergesInv, Worked
<1> QED BY <1>4, <1>5, <1>6 DEF CurrentInv

\* A request fails.
LEMMA FailKeepsCurrent ==
  ASSUME Inv, CurrentInv, NEW r \in requests, Fail(r)
  PROVE  CurrentInv'
<1>1. /\ r.back = "sent" /\ requests' = requests \ {r} /\ error' = TRUE
      /\ UNCHANGED <<screen, route, lists, store>> /\ Remember(r) /\ ~Shows(r)
  BY DEF Fail, Shows
<1>2. /\ served' = IF r.op # "head" /\ \A q \in requests \ {r} : Place(q) # Place(r)
                   THEN [served EXCEPT ![r.tab][r.of] = 0] ELSE served
      /\ mixed' = mixed /\ missed' = missed \cup {t \in {r.tab} : Misses(r)}
  BY <1>1 DEF Remember
<1>3. r.op # "head" => r.tab \in TabsOf(screen) /\ r.of \in RoutesOf(screen)
  BY RequestsAre DEF Inv
<1>4. Misses(r) <=> r.of = route /\ r.op = "list"
  BY <1>1 DEF Misses
<1>5. ServedInv'
  BY <1>1, <1>2, <1>3 DEF CurrentInv, HistoryInv, ServedInv
<1>6. missed' \subseteq TabsOf(screen)
  BY <1>2, <1>3, <1>4 DEF CurrentInv, HistoryInv
<1>7. MissesInv'
  BY <1>1 DEF MissesInv
<1> QED BY <1>1, <1>2, <1>4, <1>5, <1>6, <1>7, DroppedKeepsCurrent

\* The answer of the second load arrives.
LEMMA ArriveHeadKeepsCurrent ==
  ASSUME Inv, CurrentInv, NEW r \in requests, ArriveHead(r)
  PROVE  CurrentInv'
<1>1. /\ r.op = "head" /\ requests' = requests \ {r}
      /\ UNCHANGED <<screen, route, lists, error, store, served, mixed, missed>>
  BY DEF ArriveHead, history
<1>2. r.back = "sent"
  BY <1>1 DEF Inv, RequestsInv, Carries
<1>3. ServedInv' /\ missed' \subseteq TabsOf(screen) /\ missed \subseteq missed'
  BY <1>1 DEF CurrentInv, HistoryInv, ServedInv
<1>4. MissesInv'
  BY <1>1 DEF CurrentInv, MissesInv
<1> QED BY <1>1, <1>2, <1>3, <1>4, DroppedKeepsCurrent

\* A step that sends nothing and leaves the lists alone.
LEMMA QuietKeepsCurrent ==
  ASSUME CurrentInv, UNCHANGED <<screen, route, lists, error, store, requests, served, history>>
  PROVE  CurrentInv'
BY NothingHappens DEF history

\* Nothing is shown at first, and every list is being loaded.
LEMMA InitImpliesCurrent ==
  ASSUME Init
  PROVE  CurrentInv
<1>1. Inv /\ ServedInv /\ \A q \in requests : Load(q, 0, route)
  BY InitImpliesInv
<1>2. /\ mixed = {} /\ missed = {} /\ requests = LoadsAt(0, route)
      /\ served = [t \in TabsOf(screen) |-> [f \in RoutesOf(screen) |-> 0]]
  BY DEF Init, LoadsAt
<1>3. \A q \in requests : q.at = 0 /\ q.back = "sent" /\ q.of = route /\ ~Worked(q)
  <2> SUFFICES ASSUME NEW q \in requests
               PROVE  q.at = 0 /\ q.back = "sent" /\ q.of = route /\ ~Worked(q)
    OBVIOUS
  <2>1. Load(q, 0, route)
    BY <1>1
  <2>2. q.at = 0 /\ q.back = "sent" /\ q.of = route
    BY <2>1, LoadFields DEF Load
  <2> QED BY <2>2 DEF Worked
<1>4. \A t \in TabsOf(screen) : Excused(t)
  <2>1. \A t \in TabsOf(screen) : \E q \in requests : q.op = "list" /\ q.tab = t
    BY <1>1, <1>2, LoadsAre DEF Inv
  <2> QED BY <2>1, <1>3 DEF Excused, Place
<1>5. HistoryInv
  <2>1. \A q \in requests : q.op # "head" => q.tab \in TabsOf(screen) /\ q.of \in RoutesOf(screen)
    BY <1>1, RequestsAre DEF Inv
  <2>2. \A q \in requests : q.op # "head" => q.at <= served[q.tab][q.of]
    BY <2>1, <1>2, <1>3
  <2> QED BY <2>2, <1>1, <1>2, <1>3 DEF HistoryInv
<1>6. ReloadsInv
  BY <1>3, <1>4 DEF ReloadsInv
<1>7. MergesInv
  <2>1. screen = "ranges" => "ranges" \in TabsOf(screen)
    BY DEF TabsOf
  <2> QED BY <2>1, <1>3, <1>4 DEF MergesInv
<1>8. MissesInv
  BY <1>2 DEF MissesInv
<1> QED BY <1>5, <1>6, <1>7, <1>8 DEF CurrentInv

\* The steps of the grid, of the questions and of the cards: each leaves the lists alone, and
\* sends a change or nothing.
LEMMA PageStepKeepsCurrent ==
  ASSUME Inv, CurrentInv,
         \/ AddRow \/ EditRow \/ TypeInRow \/ TurnThePage \/ SwitchTab \/ CancelRow \/ SaveRow
         \/ RowButton \/ CardButton \/ ConfirmDialog \/ ConfirmCard \/ DoNotConfirm
         \/ OnCard \/ TypeInForm \/ AddByForm \/ Resize
  PROVE  CurrentInv'
<1>1. CASE AddRow \/ EditRow \/ TurnThePage \/ CancelRow
  <2>1. ByGrid
    BY <1>1 DEF AddRow, EditRow, TurnThePage, CancelRow
  <2> QED BY <2>1, QuietKeepsCurrent DEF ByGrid, NoSend, page
<1>2. CASE TypeInRow
  BY <1>2, QuietKeepsCurrent DEF TypeInRow, Type, page
<1>3. CASE SwitchTab
  BY <1>3, QuietKeepsCurrent DEF SwitchTab, NoSend
<1>4. CASE SaveRow
  <2>1. CASE ByGrid
    BY <2>1, QuietKeepsCurrent DEF ByGrid, NoSend, page
  <2>2. CASE ~ByGrid
    <3>1. PICK d : d = draft
      OBVIOUS
    <3>2. EditorShown /\ screen \in HasGrid /\ d \in Drafts
      BY <1>4, <3>1, EditedDraft DEF SaveRow, Inv
    <3>3. /\ Columns(d).invalid = {} /\ Run(Save(d).op, Save(d).row)
          /\ UNCHANGED <<screen, route, lists, store>>
      BY <1>4, <2>2, <3>1 DEF SaveRow
    <3>4. Save(d).op \in {"add", "save"}
      BY <3>2, <3>3, SavesAreWellFormed DEF Inv
    <3>5. Save(d).op \in Ops \ {"head"}
      BY <3>4 DEF Ops
    <3> QED BY <3>3, <3>5, RunKeepsCurrent
  <2> QED BY <2>1, <2>2
<1>5. ASSUME NEW row, UNCHANGED <<screen, route, lists, store>>,
             \/ Ask(row)
             \/ Run("remove", row)
             \/ FieldButtons(row)
      PROVE  CurrentInv'
  <2>1. CASE Ask(row)
    BY <2>1, <1>5, QuietKeepsCurrent DEF Ask, NoSend
  <2>2. CASE Run("remove", row)
    <3>1. "remove" \in Ops \ {"head"}
      BY DEF Ops
    <3> QED BY <3>1, <2>2, <1>5, RunKeepsCurrent
  <2>3. CASE FieldButtons(row)
    <3>1. PICK op : op = (IF row.active THEN "retire" ELSE "reactivate") /\ Run(op, row)
      BY <2>3 DEF FieldButtons
    <3>2. op \in Ops \ {"head"}
      BY <3>1 DEF Ops
    <3> QED BY <3>1, <3>2, <1>5, RunKeepsCurrent
  <2> QED BY <2>1, <2>2, <2>3, <1>5
<1>6. CASE RowButton
  <2>1. \E row : FacilityButtons(row) \/ OrgButtons(row) \/ FieldButtons(row) \/ PermitButtons(row) \/ LimitButtons(row)
    BY <1>6 DEF RowButton
  <2>2. UNCHANGED <<screen, route, lists, store>>
    BY <1>6 DEF RowButton
  <2> QED BY <2>1, <2>2, <1>5 DEF FacilityButtons, OrgButtons, PermitButtons, LimitButtons
<1>7. CASE CardButton
  <2>1. \E row : FacilityButtons(row) \/ OrgButtons(row) \/ FieldButtons(row) \/ ReportButtons(row)
    BY <1>7 DEF CardButton
  <2>2. UNCHANGED <<screen, route, lists, store>>
    BY <1>7 DEF CardButton
  <2> QED BY <2>1, <2>2, <1>5 DEF FacilityButtons, OrgButtons, ReportButtons
<1>8. CASE ConfirmDialog \/ ConfirmCard
  <2>1. \E row : Run("remove", row)
    BY <1>8 DEF ConfirmDialog, ConfirmCard
  <2>2. UNCHANGED <<screen, route, lists, store>>
    BY <1>8 DEF ConfirmDialog, ConfirmCard
  <2> QED BY <2>1, <2>2, <1>5
<1>9. CASE DoNotConfirm
  BY <1>9, QuietKeepsCurrent DEF DoNotConfirm, NoSend
<1>10. CASE OnCard
  <2>1. UNCHANGED <<screen, route, lists, store>>
    BY <1>10 DEF OnCard, ByCards
  <2>2. PICK k \in DOMAIN cards : EditCard(k) \/ TypeInCard(k) \/ CancelCard(k) \/ SaveCard(k)
    BY <1>10 DEF OnCard
  <2>3. CASE EditCard(k) \/ TypeInCard(k) \/ CancelCard(k)
    BY <2>1, <2>3, QuietKeepsCurrent DEF EditCard, TypeInCard, CancelCard, NoSend, Type
  <2>4. CASE SaveCard(k)
    <3>1. \E row : Run("save", row)
      BY <2>4 DEF SaveCard
    <3>2. "save" \in Ops \ {"head"}
      BY DEF Ops
    <3> QED BY <3>1, <3>2, <2>1, RunKeepsCurrent
  <2> QED BY <2>2, <2>3, <2>4
<1>11. CASE TypeInForm
  BY <1>11, QuietKeepsCurrent DEF TypeInForm, ByCards, Type
<1>12. CASE AddByForm
  <2>1. UNCHANGED <<screen, route, lists, store>> /\ \E row : Run("add", row)
    BY <1>12 DEF AddByForm, ByCards
  <2>2. "add" \in Ops \ {"head"}
    BY DEF Ops
  <2> QED BY <2>1, <2>2, RunKeepsCurrent
<1>13. CASE Resize
  BY <1>13, QuietKeepsCurrent DEF Resize
<1> QED BY <1>1, <1>2, <1>3, <1>4, <1>6, <1>7, <1>8, <1>9, <1>10, <1>11, <1>12, <1>13

\* Every step keeps what is known of the lists.
LEMMA NextKeepsCurrent ==
  ASSUME Inv, CurrentInv, [Next]_vars
  PROVE  CurrentInv'
<1>1. CASE \/ AddRow \/ EditRow \/ TypeInRow \/ TurnThePage \/ SwitchTab \/ CancelRow \/ SaveRow
           \/ RowButton \/ CardButton \/ ConfirmDialog \/ ConfirmCard \/ DoNotConfirm
           \/ OnCard \/ TypeInForm \/ AddByForm \/ Resize
  BY <1>1, PageStepKeepsCurrent
<1>2. CASE Renew
  <2>1. LoadAgain(route) /\ UNCHANGED <<screen, route, lists, error, store>>
    BY <1>2 DEF Renew, page
  <2>2. PICK of : of = route /\ of \in RoutesOf(screen)
    BY DEF Inv, RowsInv
  <2> QED BY <2>1, <2>2, LoadAgainKeepsCurrent
<1>3. CASE OpenFacility
  <2>1. PICK f \in Routes \ {route} : route' = f /\ LoadAgain(f)
    BY <1>3 DEF OpenFacility
  <2>2. f \in RoutesOf(screen) /\ UNCHANGED <<screen, lists, error, store>>
    BY <1>3 DEF OpenFacility, RoutesOf
  <2> QED BY <2>1, <2>2, LoadAgainKeepsCurrent
<1>4. CASE \E r \in requests : Serve(r) \/ Arrive(r) \/ ArriveHead(r) \/ Fail(r)
  BY <1>4, ServeKeepsCurrent, ArriveKeepsCurrent, ArriveHeadKeepsCurrent, FailKeepsCurrent
<1>5. CASE UNCHANGED vars
  BY <1>5, QuietKeepsCurrent DEF vars, page
<1> QED BY <1>1, <1>2, <1>3, <1>4, <1>5 DEF Next

\* With nothing under way, what is known of the lists is what the property says of them.
LEMMA CurrentImpliesSettled ==
  ASSUME Inv, CurrentInv
  PROVE  SettledListIsCurrent
<1> SUFFICES ASSUME requests = {}, NEW t \in TabsOf(screen) \ mixed
             PROVE  /\ t \notin missed => lists[t] = store[t][route]
                    /\ t \in missed /\ screen \notin {"details", "ranges"} => error
  BY DEF SettledListIsCurrent
<1>1. route \in RoutesOf(screen) /\ lists[t] \in {None} \cup Seq(ListedIn(t)) /\ store[t][route] \in Seq(ListedIn(t))
  BY DEF Inv, RowsInv
<1>2. ASSUME t \notin missed, screen # "ranges" PROVE lists[t] = store[t][route]
  BY <1>2 DEF CurrentInv, ReloadsInv, Excused
<1>3. ASSUME t \notin missed, screen = "ranges" PROVE lists[t] = store[t][route]
  <2>1. t = "ranges" /\ Matches(lists["ranges"], 0) /\ ~\E q \in requests : Worked(q)
    BY <1>3 DEF CurrentInv, MergesInv, Excused, TabsOf
  <2>2. PICK list, now : list = lists["ranges"] /\ now = store["ranges"][route]
    OBVIOUS
  <2>3. /\ list # None /\ DOMAIN list = DOMAIN now
        /\ \A i \in DOMAIN now : list[i] = now[i]
    BY <2>1, <2>2 DEF Matches, Changing, Ranges
  <2>4. list \in Seq(ListedIn(t)) /\ now \in Seq(ListedIn(t))
    BY <2>1, <2>2, <2>3, <1>1
  <2>5. Len(list) = Len(now) /\ \A i \in 1 .. Len(list) : list[i] = now[i]
    BY <2>3, <2>4
  <2>6. list = now
    BY <2>4, <2>5, SeqEqual
  <2> QED BY <2>1, <2>2, <2>6
<1>4. ASSUME t \in missed, screen \notin {"details", "ranges"} PROVE error
  <2>1. \A x \in TabsOf(screen) : x = t
    BY <1>4 DEF TabsOf
  <2>2. mixed = {}
    BY <2>1 DEF CurrentInv, HistoryInv
  <2> QED BY <1>4, <2>2 DEF CurrentInv, MissesInv
<1> QED BY <1>2, <1>3, <1>4

\* The invariant holds throughout.
THEOREM InvHolds == Spec => [](Inv /\ CurrentInv)
<1>1. Init => Inv /\ CurrentInv
  BY InitImpliesInv, InitImpliesCurrent
<1>2. Inv /\ CurrentInv /\ [Next]_vars => (Inv /\ CurrentInv)'
  BY NextKeepsInv, NextKeepsCurrent DEF CurrentInv, HistoryInv
<1> QED BY <1>1, <1>2, PTL DEF Spec

\* Once everything was answered, each list of a screen is the list the server has for the
\* Facility in the address, unless its answers were shown out of order or it was missed; and
\* where a screen reloads its one list, a list that was missed is shown with an error.
THEOREM SettledListIsCurrentHolds == Spec => []SettledListIsCurrent
<1>1. Inv /\ CurrentInv => SettledListIsCurrent
  BY CurrentImpliesSettled
<1> QED BY <1>1, InvHolds, PTL

\* Whatever was opened, typed, left, saved, answered or resized, a screen sends only what the
\* domain accepts and keeps what identifies a row, and its cards, rows and editor belong together.
THEOREM ScreenIsWellFormedHolds == Spec => []ScreenIsWellFormed
<1>1. Inv /\ CurrentInv => ScreenIsWellFormed
  BY InvImpliesWellFormed
<1> QED BY <1>1, InvHolds, PTL
=============================================================================
