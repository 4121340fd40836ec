----------------------------- MODULE ReportDesign ------------------------------
(***************************************************************************)
(* What a template says, and what becomes of it: the panels of the report  *)
(* builder that edit the texts, the bindings, the styles, the page and its *)
(* numbers (PropertiesPanel, DataBindingEditor, PageSetupEditor), the form *)
(* the template is saved in, and the pages the preview and the report      *)
(* engine make of it. BuilderCanvas has the geometry and the history,      *)
(* BuilderDocument the requests.                                           *)
(***************************************************************************)
EXTENDS ReportRendering, BuilderGeometry

CONSTANTS
  Catalog,          \* SAMPLE_FIELDS: [path, isDetail]
  Context,          \* SAMPLE_DATA_CONTEXT, and SampleReportData of the server
  Template,         \* the template that is opened
  Stored,           \* the documents of the store at first, None for nothing
  Expressions,      \* what is typed into the expression field
  Texts,            \* what is typed into the text field
  Margins,          \* what is typed into a margin field
  FontSizes,        \* what is typed into the size field, None when it is emptied
  MaxEdits          \* bound on the edits

VARIABLES
  template,         \* the template in the editor
  stored,           \* its document in the store
  saved,            \* history: the template that document was written from
  edits             \* edits made, behind MaxEdits

design == <<template, stored, saved, edits>>

\* Templates and documents are of the model, and what is not there is nothing of it.
ASSUME DesignAssumption ==
  /\ MaxEdits \in Nat
  /\ IsTemplate(Template) /\ \A doc \in Stored \ {None} : IsDocument(doc)
  /\ DefaultPageNumbers \in PageNumberOptions
  /\ None \notin PageNumberOptions /\ None \notin ElementTypes /\ NaN \notin Int
  /\ None \notin {"Invalid field reference", "Unknown field", "Unknown function", "requires a detail field"}

Columns == DOMAIN Context.detail[1]

\* sampleData.ts: the catalog lists the fields of the data, the data has rows, and a
\* column is of amounts or of texts.
ASSUME SampleAssumption ==
  /\ Context = [scopes |-> Context.scopes, detail |-> Context.detail, page |-> Context.page]
  /\ Context.page \in [number : Nat, total : Nat]
  /\ Context.detail # <<>> /\ IsSeq(Context.detail)
  /\ \A row \in Range(Context.detail) : DOMAIN row = Columns
  /\ \A f \in Catalog : f.isDetail \in BOOLEAN /\ (f.isDetail <=> f.path[1] = DetailScope)
  /\ {f.path : f \in Catalog} = DOMAIN Context.scopes \cup Columns
  /\ \A path \in Columns :
       /\ path[1] = DetailScope
       /\ \/ \A row \in Range(Context.detail) : row[path] \in Nat
          \/ \A row \in Range(Context.detail) : row[path] \notin Int
  /\ \A path \in DOMAIN Context.scopes : path[1] # DetailScope

ElementsOf(t) == UNION {Range(t.bands[b].elements) : b \in DOMAIN t.bands}

\* commit
Commit(t) ==
  /\ edits < MaxEdits
  /\ edits' = edits + 1
  /\ template' = t
  /\ UNCHANGED <<stored, saved>>

\* handleEdit: merges an edit into the element of the id.
Edit(id, patch) ==
  LET Patched(e) == [p \in DOMAIN e |-> IF p \in DOMAIN patch THEN patch[p] ELSE e[p]]
      Edited(b)  == [b EXCEPT !.elements =
                       [i \in DOMAIN b.elements |-> IF b.elements[i].id = id THEN Patched(b.elements[i])
                                                                            ELSE b.elements[i]]]
  IN Commit([template EXCEPT !.bands =
       [b \in DOMAIN template.bands |-> Edited(template.bands[b])]])

-----------------------------------------------------------------------------
(* PropertiesPanel                                                         *)

EditText(e, text) == Edit(e.id, [text |-> text])

\* editStyle: a property is set, or with undefined taken away.
EditStyle(e, property, value) ==
  LET others == [p \in DOMAIN e.style \ {property} |-> e.style[p]]
      style  == IF value = None THEN others
                ELSE [p \in DOMAIN others \cup {property} |-> IF p = property THEN value ELSE others[p]]
  IN Edit(e.id, [style |-> style])

IsSet(e, property) == property \in DOMAIN e.style

\* The Italic and the Underline button: stored when on, absent when off.
Toggle(e, property) == EditStyle(e, property, IF IsSet(e, property) THEN None ELSE TRUE)

\* The Bold button and the weight list share one property.
ToggleBold(e) ==
  LET bold == IsSet(e, "fontWeight") /\ e.style["fontWeight"] = "bold"
  IN EditStyle(e, "fontWeight", IF bold THEN "normal" ELSE "bold")

\* The weight list, the alignment buttons, the font and the size.
Restyle(e) ==
  \/ EditStyle(e, "fontWeight", "semibold")
  \/ \E align \in {"left", "right"} : EditStyle(e, "align", align)
  \/ \E size \in FontSizes : EditStyle(e, "fontSize", size)

-----------------------------------------------------------------------------
(* DataBindingEditor, of an element that has an expression                  *)

\* The display text follows the expression.
SetExpression(e, expression) ==
  Edit(e.id, [expression |-> expression, text |-> Verbatim])

\* The list of fields; its first entry is no field, and is a malformed binding.
SelectField(e) ==
  /\ e.type = "dataField"
  /\ \/ \E f \in Catalog : SetExpression(e, <<Field(f.path)>>)
     \/ SetExpression(e, <<Piece("bad", None, None)>>)

TypeExpression(e) == e.type # "dataField" /\ \E x \in Expressions : SetExpression(e, x)

InsertField(e) ==
  e.type # "dataField" /\ \E f \in Catalog : SetExpression(e, Append(e.expression, Field(f.path)))

-----------------------------------------------------------------------------
(* PageSetupEditor and the palette                                         *)

ChangeSize == \E i \in DOMAIN PageSizes : Commit([template EXCEPT !.page = ApplyPageSize(@, PageSizes[i].name)])

ChangeOrientation ==
  \E o \in {"portrait", "landscape"} : Commit([template EXCEPT !.page = ApplyOrientation(@, o)])

ChangeMargin ==
  \E side \in DOMAIN template.page.margins, v \in Margins :
    Commit([template EXCEPT !.page.margins[side] = v])

ChangePageNumbers ==
  \/ Commit([template EXCEPT !.pageNumbers.show = ~@])
  \/ \E n \in {0, 3} : Commit([template EXCEPT !.pageNumbers.startAt = n])
  \/ \E f \in {<<>>, <<"n">>, <<"N", "n">>} : Commit([template EXCEPT !.pageNumbers.format = f])

\* A page break is dropped into a band.
Break(n) == [id |-> <<"pageBreak", n>>, type |-> "pageBreak", rect |-> Rect(0, 1, 6, 1),
             text |-> None, expression |-> None, style |-> <<>>]
InsertBreak ==
  \E b \in DOMAIN template.bands :
    Commit([template EXCEPT !.bands[b].elements = Append(@, Break(Cardinality(ElementsOf(template)) + 1))])

-----------------------------------------------------------------------------
(* handleSave, and the load effect; a template is saved and loaded as RDL   *)

SaveTemplate ==
  /\ stored' = ToRdl(template)
  /\ saved' = template
  /\ UNCHANGED <<template, edits>>

LoadTemplate ==
  /\ stored # None
  /\ template' = ParseRdl(stored)
  /\ UNCHANGED <<stored, saved, edits>>

DesignInit == template = Template /\ stored \in Stored /\ saved = None /\ edits = 0

Properties(e) ==
  \/ \E text \in Texts : EditText(e, text)
  \/ \E p \in {"italic", "underline"} : Toggle(e, p)
  \/ ToggleBold(e) \/ Restyle(e)

Binding(e) == e.expression # None /\ (SelectField(e) \/ TypeExpression(e) \/ InsertField(e))

PageSetup == ChangeSize \/ ChangeOrientation \/ ChangeMargin \/ ChangePageNumbers

DesignNext ==
  \/ \E e \in ElementsOf(template) : Properties(e) \/ Binding(e)
  \/ PageSetup \/ InsertBreak \/ SaveTemplate \/ LoadTemplate

DesignSpec == DesignInit /\ [][DesignNext]_design

-----------------------------------------------------------------------------
(* Properties                                                              *)

\* What is saved and loaded again is the template that was saved (rdl.ts calls toRdl
\* and parseRdl exact inverses), whatever was edited, emptied or switched off before.
LoadedIsSaved == saved # None => ParseRdl(stored) = saved

\* The report engine reads from a document what the builder reads from it, of old
\* documents and of documents with foreign items too (RdlReader mirrors parseRdl).
EngineReadsTheSame == stored # None => ReadRdl(stored) = ParseRdl(stored)

\* The bindings of a template, each with the contexts the preview evaluates it in.
Contexts == {Context} \cup {RowContext(Context, row) : row \in DOMAIN Context.detail}
BoundElements == {e \in ElementsOf(template) : e.expression # None}

\* The editor shows a problem of a binding exactly when the preview and the report
\* fall back to the display text: the validator, which looks at the catalog, and the
\* evaluators, which look at the data, agree on every expression.
ProblemsArePredicted ==
  \A e \in BoundElements, ctx \in Contexts :
    LET clean == ValidateExpression(e.expression, Catalog) = {}
    IN /\ clean <=> EvaluateExpression(e.expression, ctx).ok
       /\ clean <=> EngineEvaluate(e.expression, ctx).ok

\* A binding that names the page shows the sample's page in the preview, and the
\* engine draws no text in a shape.
NamesThePage(e) == e.expression # None /\ \E i \in DOMAIN e.expression : e.expression[i].kind \in {"n", "N"}
Comparable(e)   == e.type \in TextTypes /\ ~NamesThePage(e)

\* A block of the preview and the one of the report: the same elements at the same
\* places, with the same texts where they compare, and the same page number.
BlocksMatch(b, shown, printed) ==
  /\ shown.number = printed.number /\ DOMAIN shown.boxes = DOMAIN printed.boxes
  /\ \A i \in DOMAIN shown.boxes :
       LET s == shown.boxes[i]
           p == printed.boxes[i]
       IN s.id = p.id /\ s.x = p.x /\ s.y = p.y /\ (Comparable(b.elements[i]) => s.text = p.text)

\* The report a template is rendered to has the pages of the preview, and a page the
\* same bands with the same blocks (ReportLayoutEngine mirrors preview.ts).
PagesMatchPreview ==
  LET preview == Preview(template, Context)
      report  == Layout(ReadRdl(ToRdl(template)), Context)
  IN /\ DOMAIN preview = DOMAIN report
     /\ \A n \in DOMAIN preview :
          /\ DOMAIN preview[n] = DOMAIN report[n]
          /\ \A b \in DOMAIN preview[n] :
               /\ DOMAIN preview[n][b] = DOMAIN report[n][b]
               /\ \A row \in DOMAIN preview[n][b] :
                    BlocksMatch(template.bands[b], preview[n][b][row], report[n][b][row])

\* The numbers the footers show count up page by page, and the last one is the total,
\* wherever the count starts and however many breaks there are.
PageNumbersCountUp ==
  LET pages == PageCount(template)
      At(n) == FormatPageNumber(template.pageNumbers, n, pages)
      format == template.pageNumbers.format
  IN \A i \in DOMAIN format :
       /\ format[i] = "n" => \A n \in 1 .. pages - 1 : At(n + 1)[i] = At(n)[i] + 1
       /\ \A j \in DOMAIN format : At(pages)[i] = At(pages)[j]

\* What is printed is what was previewed, under page numbers that make sense.
ReportMatchesPreview == PagesMatchPreview /\ PageNumbersCountUp

=============================================================================
