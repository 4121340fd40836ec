----------------------------- MODULE BuilderCanvas -----------------------------
(***************************************************************************)
(* The canvas of the report builder: the gestures ReportCanvas makes of    *)
(* pointer events, and the edits ReportBuilderScreen and its panels commit *)
(* to the template with model.ts, through the history of history.ts.       *)
(*                                                                         *)
(* The handlers keep the gesture under way in a ref (drag, resize, grip,   *)
(* anchor). The pressed element captures the pointer; if it is removed     *)
(* under the pressed button the capture is lost, and what the pointer is   *)
(* over receives the events. Opening a template and saving it is           *)
(* BuilderDocument, whose history limit is above MaxEdits here.            *)
(***************************************************************************)
EXTENDS BuilderGeometry

CONSTANTS
  BandOrder,       \* the kinds of band, from top to bottom
  BandHeight,      \* their heights
  DefaultRects,    \* DEFAULT_RECTS: the rect of a new element, by type
  TextEditable,    \* TEXT_EDITABLE_TYPES
  Sample,          \* the template that is opened
  SettingsChoices, \* what snap and grid can be set to
  Deltas,          \* pointer movements
  Points,          \* pointer positions on the page
  PanelValues,     \* numbers typed into the Properties panel
  Texts,           \* texts typed
  Threshold,       \* MARQUEE_DRAG_THRESHOLD_PX
  MaxEdits,        \* bound on the commits
  None             \* JavaScript's null

Types   == DOMAIN DefaultRects
Kinds   == ToSet(BandOrder)
Handles == {"nw", "ne", "sw", "se"}
Grips   == {"e", "s", "se"}
Axes    == {"horizontal", "vertical"}

VARIABLES
  history,         \* past, present, future and tag
  selected,        \* selectedIds
  page,            \* currentPage
  held,            \* what the pressed button holds, "lost" once its element is gone
  drag, resize, grip, anchor,    \* the refs of the gestures
  editing,         \* editingId, with the text when editing began
  edits,           \* commits made, behind MaxEdits
  gesture          \* history: the length of the past when the gesture under way began,
                   \* and right after what was deleted under it, or None

refs == <<drag, resize, grip, anchor>>
vars == <<history, selected, page, held, refs, editing, edits, gesture>>

template == history.present

-----------------------------------------------------------------------------
(* model.ts: a template has bands, in each a sequence of elements           *)

\* The places of a template, an index of a band and one in it, in the order of the page.
Places(t)  == UNION {{i} \X DOMAIN t.bands[BandOrder[i]] : i \in DOMAIN BandOrder}
PlaceOrder(t) ==
  {pq \in Places(t) \X Places(t) : \/ pq[1][1] < pq[2][1]
                                   \/ pq[1][1] = pq[2][1] /\ pq[1][2] < pq[2][2]}
At(t, p)   == t.bands[BandOrder[p[1]]][p[2]]

Elements(t) == {At(t, p) : p \in Places(t)}
IdsOf(t)    == {At(t, p).id : p \in Places(t)}
PlaceOf(t, id)   == CHOOSE p \in Places(t) : At(t, p).id = id
ElementOf(t, id) == At(t, PlaceOf(t, id))

\* The elements of a set in an order of it, and the items of a sequence that are kept.
InOrder(S, order) ==
  [n \in 1 .. Cardinality(S) |->
     CHOOSE x \in S : Cardinality({y \in S : <<y, x>> \in order}) = n - 1]
Kept(seq, kept) ==
  LET at == InOrder(kept, {ij \in kept \X kept : ij[1] < ij[2]})
  IN [n \in 1 .. Cardinality(kept) |-> seq[at[n]]]

Ids       == Types \X Nat
AnyRect   == [x : Int, y : Int, w : Int, h : Int]
AnyPoint  == [x : Int, y : Int]
Pages     == [width : Int, height : Int]
Settings  == [snap : BOOLEAN, grid : Int]
Writings  == Texts \cup {"default"} \cup {e.text : e \in Elements(Sample)}
AnyElement == [id : Ids, type : Types, rect : AnyRect, text : Writings]
Templates == [bands : [Kinds -> Seq(AnyElement)], page : Pages, settings : Settings]

\* updateElement: the element of the id becomes e.
Update(t, id, e) ==
  [t EXCEPT !.bands = [k \in DOMAIN t.bands |->
     [i \in DOMAIN t.bands[k] |-> IF t.bands[k][i].id = id THEN e ELSE t.bands[k][i]]]]

\* updateElementRects
UpdateRects(t, rects) ==
  [t EXCEPT !.bands = [k \in DOMAIN t.bands |->
     [i \in DOMAIN t.bands[k] |-> IF t.bands[k][i].id \in DOMAIN rects
                                  THEN [t.bands[k][i] EXCEPT !.rect = rects[t.bands[k][i].id]]
                                  ELSE t.bands[k][i]]]]

\* Faulty variant: the number of elements of the type, and one.
NextElementIdCounts(t, type) ==
  <<type, 1 + Cardinality({p \in Places(t) : At(t, p).type = type})>>

\* An id is `type-n`: the smallest n no element uses.
NextElementId(t, type) ==
  <<type, Min({n \in 1 .. Cardinality(Places(t)) + 1 : <<type, n>> \notin IdsOf(t)})>>

CreateElement(type, id) ==
  [id |-> id, type |-> type, rect |-> DefaultRects[type], text |-> "default"]

AddElement(t, band, e)  == [t EXCEPT !.bands[band] = Append(@, e)]
RemoveElements(t, ids)  ==
  [t EXCEPT !.bands = [k \in DOMAIN t.bands |->
     Kept(t.bands[k], {i \in DOMAIN t.bands[k] : t.bands[k][i].id \notin ids})]]

\* bandKindOf: the band of an element that may be gone, or null.
BandKindOf(t, id) == IF id \in IdsOf(t) THEN BandOrder[PlaceOf(t, id)[1]] ELSE None

PageCount(t) == 1 + Cardinality({p \in Places(t) : At(t, p).type = "pageBreak"})

Heights == [i \in DOMAIN BandOrder |-> BandHeight[BandOrder[i]]]
ContentHeight == TotalLength(Heights)

\* The rects of the elements, lifted from their bands to the page.
AbsoluteRects(t) ==
  [id \in IdsOf(t) |->
     [ElementOf(t, id).rect EXCEPT !.y = @ + BandTops(Heights)[PlaceOf(t, id)[1]]]]

\* What the constants are, and that no id is used twice in the sample.
ASSUME CanvasAssumption ==
  /\ BandOrder \in Seq(Kinds) /\ BandOrder # <<>> /\ IsInjective(BandOrder)
  /\ BandHeight \in [Kinds -> Nat]
  /\ DefaultRects \in [Types -> AnyRect] /\ TextEditable \subseteq Types /\ "pageBreak" \in Types
  /\ Sample \in Templates
  /\ \A p, q \in Places(Sample) : At(Sample, p).id = At(Sample, q).id => p = q
  /\ SettingsChoices \subseteq Settings /\ Deltas \subseteq AnyPoint /\ Points \subseteq AnyPoint
  /\ PanelValues \subseteq Int /\ MaxEdits \in Nat /\ Threshold \in Nat

\* null is none of the other values a variable can have.
ASSUME NoneAssumption ==
  /\ None \notin {"drag", "resize", "page", "marquee", "lost"} \cup Ids \cup Kinds \cup Nat
  /\ None \notin {"move", "resize", "text"} \X Ids /\ None # <<"resize-page">>
  /\ None \notin [id : Ids, start : AnyPoint]
  /\ None \notin [id : Ids, handle : Handles, start : AnyRect]
  /\ None \notin [grip : Grips, start : Pages]
  /\ None \notin [from : AnyPoint, at : AnyPoint, moved : BOOLEAN]
  /\ None \notin [id : Ids, original : Writings]

-----------------------------------------------------------------------------
(* The screen: commit, undo, redo, the selection                           *)

\* The page in view is held within the pages, while the screen is rendered.
Clamped(p, t) == Smaller(p, PageCount(t))

\* record
Recorded(h, t, tag) ==
  [present |-> t, future |-> <<>>, tag |-> tag,
   past |-> IF tag # None /\ tag = h.tag THEN h.past ELSE Append(h.past, h.present)]

Commit(t, tag) ==
  /\ edits < MaxEdits
  /\ edits'   = edits + 1
  /\ history' = Recorded(history, t, tag)
  /\ page'    = Clamped(page, t)

\* A button of the toolbar or a field of a panel: the inline editor loses the focus.
Elsewhere == held = None /\ editing' = None /\ UNCHANGED <<held, refs>>

Undo ==
  /\ Elsewhere
  /\ history.past # <<>>
  /\ history' = [past    |-> Front(history.past), present |-> Last(history.past),
                 future |-> <<template>> \o history.future, tag |-> None]
  /\ page' = Clamped(page, Last(history.past))
  /\ UNCHANGED <<selected, edits, gesture>>

Redo ==
  /\ Elsewhere
  /\ history.future # <<>>
  /\ history' = [past    |-> Append(history.past, template), present |-> Head(history.future),
                 future |-> Tail(history.future), tag |-> None]
  /\ page' = Clamped(page, Head(history.future))
  /\ UNCHANGED <<selected, edits, gesture>>

\* handleSelect
SelectedAfter(id, additive) ==
  IF ~additive THEN <<id>>
  ELSE IF id \in Range(selected) THEN Kept(selected, {i \in DOMAIN selected : selected[i] # id})
  ELSE Append(selected, id)

\* The one selected element, or null; it may be gone from the template.
SoleId == IF Len(selected) = 1 THEN selected[1] ELSE None
Sole   == SoleId \in IdsOf(template)

\* handleInsert: into the band of the first selected element, else the first band.
Insert(type) ==
  LET id == NextElementId(template, type)
      of == IF selected = <<>> THEN None ELSE BandKindOf(template, selected[1])
      band == IF of = None THEN BandOrder[1] ELSE of
  IN /\ Elsewhere
     /\ Commit(AddElement(template, band, CreateElement(type, id)), None)
     /\ selected' = <<id>>
     /\ UNCHANGED gesture

\* handleDrop, handleInsertAt
Drop(type, band, p) ==
  LET id == NextElementId(template, type)
      e  == [CreateElement(type, id) EXCEPT !.rect.x = Larger(0, p.x), !.rect.y = Larger(0, p.y)]
  IN /\ Elsewhere
     /\ Commit(AddElement(template, band, e), None)
     /\ selected' = <<id>>
     /\ UNCHANGED gesture

\* handleDelete, by the button or by a key, even while the pointer is held down.
Delete ==
  /\ selected # <<>>
  /\ Commit(RemoveElements(template, Range(selected)), None)
  /\ selected' = <<>>
  /\ editing' = None
  /\ held' = IF held \in {"drag", "resize"} THEN "lost" ELSE held
  /\ gesture' = [gesture EXCEPT !.cut = IF held = None THEN None ELSE Len(history.past) + 1]
  /\ UNCHANGED refs

\* arrangeSelection: selected elements that are gone are left out.
Arranged == Kept(selected, {i \in DOMAIN selected : selected[i] \in IdsOf(template)})
RectsOf(ids) == [i \in DOMAIN ids |-> ElementOf(template, ids[i]).rect]

Arrange(rects) ==
  /\ Elsewhere
  /\ Arranged # <<>>
  /\ Commit(UpdateRects(template, [id \in Range(Arranged) |->
               rects[CHOOSE i \in DOMAIN Arranged : Arranged[i] = id]]), None)
  /\ UNCHANGED <<selected, gesture>>

Align(edge) == Len(selected) >= 2 /\ Arrange(AlignRects(RectsOf(Arranged), edge))
Distribute(axis) == Len(selected) >= 3 /\ Arrange(DistributeRects(RectsOf(Arranged), axis))

\* handleMove, handleResize, handleEditText, handleResizePage: tagged, so that the
\* steps of one gesture are one undo step.
HandleMove(id, at) ==
  Commit(Update(template, id, [ElementOf(template, id) EXCEPT !.rect.x = at.x, !.rect.y = at.y]),
         <<"move", id>>)
HandleResize(id, rect) ==
  Commit(Update(template, id, [ElementOf(template, id) EXCEPT !.rect = rect]), <<"resize", id>>)
HandleEditText(id, text) ==
  Commit(Update(template, id, [ElementOf(template, id) EXCEPT !.text = text]), <<"text", id>>)
HandleResizePage(size) ==
  Commit([template EXCEPT !.page = size], <<"resize-page">>)

\* The Properties panel: a field of the sole selected element, of any sign.
EditRect(dim, v) ==
  /\ Elsewhere
  /\ Sole
  /\ Commit(Update(template, SoleId, [ElementOf(template, SoleId) EXCEPT !.rect[dim] = v]), None)
  /\ UNCHANGED <<selected, gesture>>

EditText(text) ==
  /\ Elsewhere
  /\ Sole
  /\ Commit(Update(template, SoleId, [ElementOf(template, SoleId) EXCEPT !.text = text]), None)
  /\ UNCHANGED <<selected, gesture>>

\* handleToggleSnap, handleGridSize
SetSettings(s) ==
  /\ Elsewhere
  /\ s # template.settings
  /\ Commit([template EXCEPT !.settings = s], None)
  /\ UNCHANGED <<selected, gesture>>

\* The Page Setup panel, shown while nothing is selected.
Orient(orientation) ==
  /\ Elsewhere
  /\ selected = <<>>
  /\ Commit([template EXCEPT !.page = ApplyOrientation(@, orientation)], None)
  /\ UNCHANGED <<selected, gesture>>

\* handlePrevPage, handleNextPage
TurnPage ==
  /\ Elsewhere
  /\ \/ page > 1 /\ page' = page - 1
     \/ page < PageCount(template) /\ page' = page + 1
  /\ UNCHANGED <<history, selected, edits, gesture>>

-----------------------------------------------------------------------------
(* The gestures                                                            *)

NoGesture == [from |-> 0, cut |-> None]

\* A gesture is begun only while the bound leaves it an edit.
Pressed(what) ==
  /\ held = None
  /\ edits < MaxEdits
  /\ held' = what
  /\ gesture' = [from |-> Len(history.past), cut |-> None]
  /\ editing' = None
  /\ UNCHANGED <<history, page, edits>>

\* handlePointerDown: a plain press on an element selects it and starts a drag.
PressElement(e) ==
  /\ editing # None => editing.id # e.id
  /\ Pressed("drag")
  /\ selected' = SelectedAfter(e.id, FALSE)
  /\ drag' = [id |-> e.id, start |-> [x |-> e.rect.x, y |-> e.rect.y]]
  /\ UNCHANGED <<resize, grip, anchor>>

\* A press with a modifier toggles the element; it ends a drag left over.
ToggleElement(e) ==
  /\ held = None
  /\ editing # None => editing.id # e.id
  /\ selected' = SelectedAfter(e.id, TRUE)
  /\ drag' = None
  /\ editing' = None
  /\ UNCHANGED <<history, page, held, resize, grip, anchor, edits, gesture>>

\* An element whose button can be under the pointer.
Shown == {e \in Elements(template) : editing = None \/ editing.id # e.id}

\* The events of an uncaptured pointer go to what it is over.
Uncaptured == held \in {None, "lost"}

\* Faulty variant: each move of a drag is an undo step.
DragMoveUntagged(delta) ==
  LET at == DraggedPosition(drag.start, delta, template.settings.grid, template.settings.snap)
  IN /\ drag # None
     /\ held = "drag" \/ (Uncaptured /\ Shown # {})
     /\ Commit(Update(template, drag.id,
                      [ElementOf(template, drag.id) EXCEPT !.rect.x = at.x, !.rect.y = at.y]), None)
     /\ UNCHANGED <<selected, held, refs, editing, gesture>>

\* handlePointerMove: of the captured pointer, or of one over any element.
DragMove(delta) ==
  LET at == DraggedPosition(drag.start, delta, template.settings.grid, template.settings.snap)
  IN /\ drag # None
     /\ held = "drag" \/ (Uncaptured /\ Shown # {})
     /\ HandleMove(drag.id, at)
     /\ UNCHANGED <<selected, held, refs, editing, gesture>>

\* handleResizeDown
PressHandle(handle) ==
  /\ SoleId \in {e.id : e \in Shown}
  /\ Pressed("resize")
  /\ resize' = [id |-> SoleId, handle |-> handle, start |-> ElementOf(template, SoleId).rect]
  /\ UNCHANGED <<selected, drag, grip, anchor>>

\* handleResizeMove: of the captured pointer, or of one over a handle that is shown.
ResizeMove(delta) ==
  LET rect == ResizedRect(resize.start, resize.handle, delta,
                          template.settings.grid, template.settings.snap)
  IN /\ resize # None
     /\ held = "resize" \/ (Uncaptured /\ Sole /\ SoleId \in {e.id : e \in Shown})
     /\ HandleResize(resize.id, rect)
     /\ UNCHANGED <<selected, held, refs, editing, gesture>>

\* handlePageResizeDown: from the rendered height, never less than the content.
PressGrip(g) ==
  /\ Pressed("page")
  /\ grip' = [grip |-> g, start |-> [template.page EXCEPT !.height = Larger(@, ContentHeight)]]
  /\ UNCHANGED <<selected, drag, resize, anchor>>

GripMove(delta) ==
  /\ held = "page"
  /\ HandleResizePage(ResizedPageSize(grip.start, delta, grip.grip,
                                      [width |-> 1, height |-> ContentHeight]))
  /\ UNCHANGED <<selected, held, refs, editing, gesture>>

\* handlePagePointerDown
PressPage(p) ==
  /\ Pressed("marquee")
  /\ anchor' = [from |-> p, at |-> p, moved |-> FALSE]
  /\ UNCHANGED <<selected, drag, resize, grip>>

MarqueeMove(p) ==
  /\ held = "marquee"
  /\ \/ anchor.moved
     \/ Distance(p.x, anchor.from.x) > Threshold
     \/ Distance(p.y, anchor.from.y) > Threshold
  /\ anchor' = [anchor EXCEPT !.at = p, !.moved = TRUE]
  /\ UNCHANGED <<history, selected, page, held, drag, resize, grip, editing, edits, gesture>>

MarqueeSelect(region) ==
  LET covered == {p \in Places(template) :
                    RectsIntersect(region, AbsoluteRects(template)[At(template, p).id])}
      places  == InOrder(covered, PlaceOrder(template))
  IN [i \in 1 .. Cardinality(covered) |-> At(template, places[i]).id]

Released ==
  /\ held'  = None
  /\ gesture' = NoGesture
  /\ UNCHANGED <<history, page, editing, edits>>

\* handlePointerUp; a drag whose element is gone ends only over another element.
ReleaseElement ==
  /\ held = "drag" \/ (held = "lost" /\ Shown # {})
  /\ Released
  /\ drag' = None
  /\ UNCHANGED <<selected, resize, grip, anchor>>

\* handleResizeUp
ReleaseHandle ==
  /\ held = "resize"
  /\ Released
  /\ resize' = None
  /\ UNCHANGED <<selected, drag, grip, anchor>>

\* handlePageResizeUp
ReleaseGrip ==
  /\ held = "page"
  /\ Released
  /\ grip' = None
  /\ UNCHANGED <<selected, drag, resize, anchor>>

\* handlePagePointerUp: a marquee selects, a press in place clears the selection,
\* and without an anchor nothing is done.
ReleasePage ==
  /\ Released
  /\ \/ /\ held = "marquee"
        /\ anchor' = None
        /\ selected' = IF anchor.moved THEN MarqueeSelect(MarqueeRect(anchor.from, anchor.at))
                                       ELSE <<>>
        /\ UNCHANGED <<drag, resize, grip>>
     \/ held = "lost" /\ UNCHANGED <<selected, refs>>

-----------------------------------------------------------------------------
(* The inline editor                                                       *)

\* A double click on a text element.
BeginEdit(e) ==
  /\ held = None
  /\ editing = None
  /\ e.type \in TextEditable
  /\ edits < MaxEdits
  /\ editing' = [id |-> e.id, original |-> e.text]
  /\ UNCHANGED <<history, selected, page, held, refs, edits, gesture>>

Type(text) ==
  /\ editing # None /\ editing.id \in IdsOf(template)
  /\ HandleEditText(editing.id, text)
  /\ UNCHANGED <<selected, held, refs, editing, gesture>>

\* Escape reverts; Enter and the loss of the focus only close the editor.
Escape ==
  /\ editing # None /\ editing.id \in IdsOf(template)
  /\ HandleEditText(editing.id, editing.original)
  /\ editing' = None
  /\ UNCHANGED <<selected, held, refs, gesture>>

CloseEditor ==
  /\ editing # None
  /\ editing' = None
  /\ UNCHANGED <<history, selected, page, held, refs, edits, gesture>>

-----------------------------------------------------------------------------
Init ==
  /\ history = [past |-> <<>>, present |-> Sample, future |-> <<>>, tag |-> None]
  /\ selected = <<>> /\ page = 1
  /\ held = None /\ drag = None /\ resize = None /\ grip = None /\ anchor = None
  /\ editing = None /\ edits = 0 /\ gesture = NoGesture

ElementPointer ==
  \/ \E e \in Elements(template) : PressElement(e) \/ ToggleElement(e) \/ BeginEdit(e)
  \/ \E d \in Deltas : DragMove(d) \/ ResizeMove(d)
  \/ \E h \in Handles : PressHandle(h)
  \/ ReleaseElement \/ ReleaseHandle

PagePointer ==
  \/ \E g \in Grips : PressGrip(g)
  \/ \E d \in Deltas : GripMove(d)
  \/ \E p \in Points : PressPage(p) \/ MarqueeMove(p)
  \/ \E type \in Types, k \in Kinds, p \in Points : Drop(type, k, p)
  \/ ReleaseGrip \/ ReleasePage

InlineEditor ==
  \/ \E text \in Texts : Type(text)
  \/ Escape \/ CloseEditor

Toolbar ==
  \/ Undo \/ Redo \/ TurnPage \/ Delete
  \/ \E s \in SettingsChoices : SetSettings(s)
  \/ \E edge \in Edges : Align(edge)
  \/ \E axis \in Axes : Distribute(axis)

Panels ==
  \/ \E type \in Types : Insert(type)
  \/ \E v \in PanelValues, dim \in {"x", "y", "w", "h"} : EditRect(dim, v)
  \/ \E text \in Texts : EditText(text)
  \/ \E o \in {"portrait", "landscape"} : Orient(o)

Next == ElementPointer \/ PagePointer \/ InlineEditor \/ Toolbar \/ Panels

Spec == Init /\ [][Next]_vars

-----------------------------------------------------------------------------
(* Properties                                                              *)

Timeline == history.past \o <<template>> \o history.future
IdsAreUnique(t) == \A p, q \in Places(t) : At(t, p).id = At(t, q).id => p = q

\* No two elements of a template share an id, now or in anything undo and redo bring
\* back, so an edit of one element never changes another one too (nextElementId); no
\* element is selected twice; the page in view exists, also after a page break is
\* deleted, undone or redone; the rest is the types of the variables.
TypeOK ==
  /\ \A i \in DOMAIN Timeline : Timeline[i] \in Templates /\ IdsAreUnique(Timeline[i])
  /\ selected \in Seq(Ids) /\ IsInjective(selected)
  /\ page \in 1 .. PageCount(template) /\ edits \in 0 .. MaxEdits
  /\ held \in {None, "drag", "resize", "page", "marquee", "lost"}
  /\ held = "drag" => drag # None /\ drag.id \in IdsOf(template)
  /\ held = "resize" => resize # None /\ resize.id \in IdsOf(template)
  /\ held = "page" <=> grip # None
  /\ held = "marquee" <=> anchor # None

\* The moves between the press and the release of the button make one undo step.  Only
\* a deletion under the pressed button divides them: it is a step of its own, and the
\* moves after it, if any, make one more (the tags of handleMove, handleResize and
\* handleResizePage, and record).
GestureIsOneStep ==
  held # None =>
    IF gesture.cut = None THEN Len(history.past) <= gesture.from + 1
    ELSE gesture.cut <= gesture.from + 2 /\ Len(history.past) <= gesture.cut + 1

\* While an element is resized the corner opposite to the handle stays where it was
\* when the handle was pressed, however far the pointer went in between.
OppositeCornerStays ==
  held = "resize" =>
    LET r == ElementOf(template, resize.id).rect
        s == resize.start
    IN /\ resize.handle \in {"se", "ne"} => r.x = s.x
       /\ resize.handle \in {"sw", "nw"} => Right(r) = Right(s)
       /\ resize.handle \in {"se", "sw"} => r.y = s.y
       /\ resize.handle \in {"ne", "nw"} => Bottom(r) = Bottom(s)

OnPage(r) == {r.x, r.y, r.w, r.h} \subseteq Nat

\* A drag or a resize never takes an element off the page or turns it inside out, and
\* a page that is dragged, by whichever edge, is never shorter than its bands, even if
\* the page setup had made it so.
GesturesStayOnPage ==
  [][/\ held' = held /\ held \in {"drag", "resize"} =>
          \A id \in IdsOf(template) :
            OnPage(ElementOf(template, id).rect) => OnPage(ElementOf(template', id).rect)
     /\ held = "page" /\ template'.page # template.page =>
          template'.page.height >= ContentHeight]_vars

\* The unit squares of the page a rect covers.
Squares(r) == (r.x .. Right(r) - 1) \X (r.y .. Bottom(r) - 1)

\* A marquee selects the elements it covers a part of, in whichever band they are.
MarqueeSelectsCovered ==
  anchor # None /\ anchor' = None /\ anchor.moved =>
       LET covered == Squares(MarqueeRect(anchor.from, anchor.at))
           Top(i) == TotalLength([j \in 1 .. i - 1 |-> BandHeight[BandOrder[j]]])
           Lifted(p) == [At(template, p).rect EXCEPT !.y = @ + Top(p[1])]
       IN covered # {} =>
            (\A p \in Places(template) :
               Squares(Lifted(p)) # {} =>
                 (At(template, p).id \in Range(selected')
                    <=> Squares(Lifted(p)) \cap covered # {}))

\* A distribution spreads the selection evenly: a first one stays where it is, and so does
\* the last, up to the rounding of this model's units; the spaces between neighbours are
\* equal; and elements with space between them keep their order (distributeRects). If the
\* space is negative, an element may come to lie before the first one.
DistributeSpreads ==
  \A axis \in Axes : Distribute(axis) =>
       LET ids        == Range(selected) \cap IdsOf(template)
           From(t, id) == Lead(ElementOf(t, id).rect, axis)
           Span(id)   == Extent(ElementOf(template, id).rect, axis)
           IsFirst(id) == \A j \in ids : From(template, id) <= From(template, j)
           IsLast(id)  == \A j \in ids \ {id} : From(template, j) < From(template, id)
           Space(j, k) == From(template', k) - From(template', j) - Span(j)
           Followed(gap) == {j \in ids : \E k \in ids \ {j} : Space(j, k) = gap}
       IN Cardinality(ids) >= 3 =>
            /\ \E id \in ids : IsFirst(id) /\ From(template', id) = From(template, id)
            /\ \A id \in ids :
                 IsLast(id) => Distance(From(template', id), From(template, id)) < Cardinality(ids) - 1
            /\ \E a, b \in ids :
                 /\ a # b /\ Cardinality(Followed(Space(a, b))) >= Cardinality(ids) - 1
                 /\ Space(a, b) >= 0 /\ (\A j \in ids : Span(j) > 0) =>
                      \A j, k \in ids : From(template, j) < From(template, k)
                                          => From(template', j) < From(template', k)

\* Elements that are aligned in their horizontal position, also across bands, share a
\* line the smart guides find when one of them is dragged (align.ts and guides.ts).
AlignmentShowsGuides ==
  \A edge \in {"left", "center", "right"} : Align(edge) =>
       LET ids == Range(selected) \cap IdsOf(template)
           at  == AbsoluteRects(template')
       IN \A id \in ids : ids # {id} =>
            \E guide \in AlignmentGuides(at[id], {at[j] : j \in ids \ {id}}, 1) :
              guide.orientation = "vertical"

\* The tools that work on several elements, in bands with tops of their own, do what
\* their names say: marquee, distribute and align (ReportCanvas.tsx:341, align.ts).
ToolsDoAsNamed ==
  [][MarqueeSelectsCovered /\ DistributeSpreads /\ AlignmentShowsGuides]_vars
=============================================================================
