---------------------------- MODULE ReportRendering ----------------------------
(***************************************************************************)
(* The pages of a template: the preview of the builder (ReportPreview.tsx, *)
(* preview.ts, pageNumbers.ts) and the report engine's layout              *)
(* (ReportLayoutEngine.cs), which is to mirror it. A page is a function of *)
(* the bands on it, and a band the sequence of its blocks, one for each    *)
(* row: the boxes of the elements that are drawn, each with its place on   *)
(* the page and what it shows, and the page number, or None.               *)
(***************************************************************************)
EXTENDS ReportRdl

TextTypes == {"label", "dataField", "formula"}

PageBreaks(t) ==
  UNION {{b} \X {i \in DOMAIN t.bands[b].elements : t.bands[b].elements[i].type = "pageBreak"} :
           b \in DOMAIN t.bands}
PageCount(t) == 1 + Cardinality(PageBreaks(t))

\* bandAppearsOnPage; the page index counts from 0.
BandAppearsOnPage(kind, pageIndex, pages) ==
  CASE kind \in {"reportHeader", "detail"} -> pageIndex = 0
    [] kind = "subReport"                  -> pageIndex = pages - 1
    [] OTHER                               -> TRUE

BandsOnPage(t, n) == {b \in DOMAIN t.bands : BandAppearsOnPage(t.bands[b].kind, n - 1, PageCount(t))}

\* formatPageNumber: both tokens count from startAt; the words between them are left out.
FormatPageNumber(options, page, pages) ==
  [i \in DOMAIN options.format |->
     CASE options.format[i] = "n" -> page + options.startAt - 1
       [] options.format[i] = "N" -> pages + options.startAt - 1]

Box(e, top, text)     == [id |-> e.id, x |-> e.rect.x, y |-> top + e.rect.y, text |-> text]
Block(boxes, number)  == [boxes |-> boxes, number |-> number]
Drawn(b)              == {i \in DOMAIN b.elements : b.elements[i].type # "pageBreak"}

-----------------------------------------------------------------------------
(* ReportPreview: the bands are blocks that flow from the top of the page   *)

RowContext(ctx, row) == [ctx EXCEPT !.detail = <<@[row]>>]

RenderElements(b, ctx, top) ==
  [i \in Drawn(b) |-> Box(b.elements[i], top, ResolveElementText(b.elements[i], ctx))]

\* A band is one block, the detail band one for each row.
RenderBand(t, b, ctx, n, top) ==
  IF b.kind = "detail"
  THEN [row \in DOMAIN ctx.detail |->
          Block(RenderElements(b, RowContext(ctx, row), top + (row - 1) * b.height), None)]
  ELSE <<Block(RenderElements(b, ctx, top),
               IF b.kind = "pageFooter" /\ t.pageNumbers.show
               THEN FormatPageNumber(t.pageNumbers, n, PageCount(t)) ELSE None)>>

BandExtent(b, ctx) == IF b.kind = "detail" THEN Len(ctx.detail) * b.height ELSE b.height

\* Where the first k bands end.
Tops(t, ctx, n) ==
  LET top[k \in 0 .. Len(t.bands)] ==
        IF k = 0 THEN 0
        ELSE top[k - 1] + (IF k \in BandsOnPage(t, n) THEN BandExtent(t.bands[k], ctx) ELSE 0)
  IN top

\* The sample's page context is used on every page.
PreviewPage(t, ctx, n) ==
  [b \in BandsOnPage(t, n) |-> RenderBand(t, t.bands[b], ctx, n, Tops(t, ctx, n)[b - 1])]

Preview(t, ctx) == [n \in 1 .. PageCount(t) |-> PreviewPage(t, ctx, n)]

-----------------------------------------------------------------------------
(* ReportLayoutEngine: texts and shapes at an offset, advanced row by row   *)

\* ToPrimitive: the text of a shape is not drawn.
AddBandElements(b, ctx, top) ==
  [i \in Drawn(b) |->
     Box(b.elements[i], top, IF b.elements[i].type \in TextTypes THEN EngineText(b.elements[i], ctx) ELSE <<>>)]

\* The offset after each row of the detail band.
RowOffsets(b, ctx, y) ==
  LET offset[row \in 0 .. Len(ctx.detail)] == IF row = 0 THEN y ELSE offset[row - 1] + b.height
  IN offset

LaidOutBand(definition, b, ctx, y) ==
  IF b.kind = "detail"
  THEN [y      |-> RowOffsets(b, ctx, y)[Len(ctx.detail)],
        blocks |-> [row \in DOMAIN ctx.detail |->
                      Block(AddBandElements(b, RowContext(ctx, row),
                                            RowOffsets(b, ctx, y)[row - 1]), None)]]
  ELSE [y      |-> y + b.height,
        blocks |-> <<Block(AddBandElements(b, ctx, y),
                           IF b.kind = "pageFooter" /\ definition.pageNumbers.show
                           THEN FormatPageNumber(definition.pageNumbers, ctx.page.number, ctx.page.total)
                           ELSE None)>>]

\* The offset after the first k bands; a band that is not on the page is skipped.
Offsets(definition, ctx) ==
  LET offset[k \in 0 .. Len(definition.bands)] ==
        IF k = 0 THEN 0
        ELSE IF k \in BandsOnPage(definition, ctx.page.number)
             THEN LaidOutBand(definition, definition.bands[k], ctx, offset[k - 1]).y
             ELSE offset[k - 1]
  IN offset

LaidOutPage(definition, data, n) ==
  LET ctx == [data EXCEPT !.page = [number |-> n, total |-> PageCount(definition)]]
  IN [b \in BandsOnPage(definition, n) |->
        LaidOutBand(definition, definition.bands[b], ctx, Offsets(definition, ctx)[b - 1]).blocks]

Layout(definition, data) == [n \in 1 .. PageCount(definition) |-> LaidOutPage(definition, data, n)]
=============================================================================
