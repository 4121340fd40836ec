------------------------------- MODULE ReportRdl -------------------------------
(***************************************************************************)
(* The form in which a template is stored: what toRdl writes, and the two  *)
(* readers of it, parseRdl of the builder (rdl.ts) and RdlReader of the    *)
(* report engine (RdlReader.cs).                                           *)
(*                                                                         *)
(* A document is the tree toRdl writes: the template's attributes, the     *)
(* page numbers, the page, and the rectangles of the body. The marker of   *)
(* an item (its type and expression) or of a rectangle, an attribute and a *)
(* child may be missing (None). The escaping of XML and the unit of a size *)
(* are undone by every reader and left out. A style is a function of the   *)
(* properties that are set; no style and an empty one are the same.        *)
(***************************************************************************)
EXTENDS ReportExpressions

CONSTANT DefaultPageNumbers  \* DEFAULT_PAGE_NUMBER_OPTIONS

FontWeightRdl == [normal |-> "Normal", medium |-> "Medium", semibold |-> "SemiBold", bold |-> "Bold"]
AlignRdl      == [left |-> "Left", center |-> "Center", right |-> "Right"]

BandKinds    == {"reportHeader", "pageHeader", "detail", "subReport", "pageFooter"}
ElementTypes == {"label", "dataField", "formula", "line", "rectangle", "triangle", "ellipse",
                 "image", "barcode", "subReport", "table", "chart", "pageBreak"}

Fallback(value, default) == IF value = None THEN default ELSE value

-----------------------------------------------------------------------------
(* toRdl                                                                   *)

RdlTag(type) ==
  CASE type = "line"                             -> "Line"
    [] type = "image"                            -> "Image"
    [] type \in {"label", "dataField", "formula"} -> "Textbox"
    [] OTHER                                     -> "Rectangle"

WrittenStyle(style) ==
  [p \in DOMAIN style |-> CASE p = "fontWeight" -> FontWeightRdl[style[p]]
                            [] p = "align"      -> AlignRdl[style[p]]
                            [] OTHER            -> style[p]]

\* Faulty variant: the style is forgotten.
WrittenElementUnstyled(e) ==
  [tag |-> RdlTag(e.type), name |-> e.id, type |-> e.type, expression |-> e.expression,
   rect |-> e.rect, style |-> <<>>, value |-> e.text]

WrittenElement(e) ==
  [tag |-> RdlTag(e.type), name |-> e.id, type |-> e.type, expression |-> e.expression,
   rect |-> e.rect, style |-> WrittenStyle(e.style), value |-> e.text]

WrittenBand(b) ==
  [marker |-> b.kind, height |-> b.height,
   items |-> [i \in DOMAIN b.elements |-> WrittenElement(b.elements[i])]]

ToRdl(t) ==
  [template |-> [name |-> t.name, settings |-> t.settings], pageNumbers |-> t.pageNumbers,
   page |-> t.page, body |-> [i \in DOMAIN t.bands |-> WrittenBand(t.bands[i])]]

-----------------------------------------------------------------------------
(* parseRdl                                                                *)

\* A property whose value the tables do not have is undefined.
ParsedStyle(style) ==
  [p \in {q \in DOMAIN style : /\ q = "fontWeight" => style[q] \in Range(FontWeightRdl)
                               /\ q = "align" => style[q] \in Range(AlignRdl)}
     |-> CASE p = "fontWeight" -> AntiFunction(FontWeightRdl)[style[p]]
           [] p = "align"      -> AntiFunction(AlignRdl)[style[p]]
           [] OTHER            -> style[p]]

ParsedItem(i) ==
  [id |-> i.name, type |-> i.type, rect |-> i.rect, text |-> i.value,
   expression |-> i.expression, style |-> ParsedStyle(i.style)]

\* The items of a sequence at the places of a set, in order.
Kept(seq, kept) ==
  [n \in 1 .. Cardinality(kept) |->
     seq[CHOOSE i \in kept : Cardinality({j \in kept : j < i}) = n - 1]]

ParsedItems(items, kept) ==
  LET of == Kept(items, kept) IN [n \in DOMAIN of |-> ParsedItem(of[n])]

\* An item without the marker of the builder is not of the model.
ParsedBand(r) ==
  [kind |-> r.marker, height |-> r.height,
   elements |-> ParsedItems(r.items, {i \in DOMAIN r.items : r.items[i].type # None})]

ParsedPageNumbers(doc) == Fallback(doc.pageNumbers, DefaultPageNumbers)

ParseRdl(doc) ==
  [name |-> doc.template.name, settings |-> doc.template.settings, page |-> doc.page,
   bands |-> [i \in DOMAIN doc.body |-> ParsedBand(doc.body[i])],
   pageNumbers |-> ParsedPageNumbers(doc)]

-----------------------------------------------------------------------------
(* RdlReader.Parse: rectangles and items of an unknown kind are left out    *)

\* Faulty variant: an old document has no page numbers.
ReadPageNumbersHides(doc) ==
  IF doc.pageNumbers = None THEN [DefaultPageNumbers EXCEPT !.show = FALSE] ELSE doc.pageNumbers

ReadPageNumbers(doc) == Fallback(doc.pageNumbers, DefaultPageNumbers)

ReadBand(r) ==
  [kind |-> r.marker, height |-> r.height,
   elements |-> ParsedItems(r.items, {i \in DOMAIN r.items : r.items[i].type \in ElementTypes})]

ReadBands(doc) ==
  LET known == Kept(doc.body, {i \in DOMAIN doc.body : doc.body[i].marker \in BandKinds})
  IN [i \in DOMAIN known |-> ReadBand(known[i])]

ReadRdl(doc) ==
  [name |-> doc.template.name, settings |-> doc.template.settings, page |-> doc.page,
   bands |-> ReadBands(doc), pageNumbers |-> ReadPageNumbers(doc)]

-----------------------------------------------------------------------------
(* Templates, and the documents the builder has written or added to         *)

PageNumberOptions ==
  [show : BOOLEAN, format : Seq({"n", "N"}), startAt : Int, position : DOMAIN AlignRdl]

IsSeq(s) == s \in Seq(Range(s))

IsStyle(s) ==
  /\ s = [p \in DOMAIN s |-> s[p]]
  /\ "fontWeight" \in DOMAIN s => s["fontWeight"] \in DOMAIN FontWeightRdl
  /\ "align" \in DOMAIN s => s["align"] \in DOMAIN AlignRdl

IsElement(e) ==
  /\ e = [id |-> e.id, type |-> e.type, rect |-> e.rect, text |-> e.text,
          expression |-> e.expression, style |-> e.style]
  /\ e.type \in ElementTypes /\ IsStyle(e.style)

IsBand(b) ==
  /\ b = [kind |-> b.kind, height |-> b.height, elements |-> b.elements]
  /\ b.kind \in BandKinds /\ b.height \in Int
  /\ IsSeq(b.elements) /\ \A e \in Range(b.elements) : IsElement(e)

IsTemplate(t) ==
  /\ t = [name |-> t.name, settings |-> t.settings, page |-> t.page, bands |-> t.bands,
          pageNumbers |-> t.pageNumbers]
  /\ IsSeq(t.bands) /\ \A b \in Range(t.bands) : IsBand(b)
  /\ t.pageNumbers \in PageNumberOptions

IsRectangle(r) ==
  /\ r.marker \in BandKinds /\ r.height \in Int
  /\ IsSeq(r.items) /\ \A i \in Range(r.items) : i.type \in ElementTypes \cup {None}

IsDocument(doc) ==
  /\ IsSeq(doc.body) /\ \A r \in Range(doc.body) : IsRectangle(r)
  /\ doc.pageNumbers \in PageNumberOptions \cup {None}
=============================================================================
