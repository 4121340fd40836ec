---------------------------- MODULE MCReportDesign -----------------------------
(* Instances of the design: four bands, three elements and two rows. *)
EXTENDS ReportDesign, TLC

CONSTANTS Acme, HotMix, ColdMix, Title, Typed, Empty

Capitals == [sum |-> "SUM", avg |-> "AVG", max |-> "MAX", count |-> "COUNT", median |-> "MEDIAN"]
Numbers  == [show |-> TRUE, format |-> <<"n", "N">>, startAt |-> 1, position |-> "right"]
Name     == <<"Org", "Name">>
Product  == <<"Record", "Field">>
Tons     == <<"Record", "Tons">>
Fields   == {[path |-> Name, isDetail |-> FALSE], [path |-> Product, isDetail |-> TRUE],
             [path |-> Tons, isDetail |-> TRUE]}
Row(product, tons) == (Product :> product @@ Tons :> tons)
Data     == [scopes |-> Name :> Acme, detail |-> <<Row(HotMix, 128), Row(ColdMix, 65)>>,
             page |-> [number |-> 1, total |-> 3]]
Inputs   == {<<Text(Typed), Call("sum", Tons)>>, <<Call("avg", Tons)>>, <<Call("max", Product)>>,
             <<Call("count", Product)>>, <<Call("median", Tons)>>, <<Call("sum", Name)>>,
             <<Piece("n", "sum", None)>>, <<Piece("n", None, None)>>,
             <<Field(<<"Record", "Limit">>)>>, <<Field(<<"Site", "Name">>)>>}
Label    == [id |-> <<"label", 1>>, type |-> "label", rect |-> Rect(0, 1, 4, 2), text |-> Title,
             expression |-> None, style |-> <<>>]
Formula  == [id |-> <<"formula", 1>>, type |-> "formula", rect |-> Rect(2, 0, 4, 2), text |-> Verbatim,
             expression |-> <<Call("sum", Tons)>>, style |-> [fontWeight |-> "bold", italic |-> TRUE]]
Bound    == [id |-> <<"dataField", 1>>, type |-> "dataField", rect |-> Rect(4, 1, 4, 2), text |-> Verbatim,
             expression |-> <<Field(Tons)>>, style |-> <<>>]
Band(kind, height, elements) == [kind |-> kind, height |-> height, elements |-> elements]
Sheet    == [width |-> 850, height |-> 1100, margins |-> [top |-> 100, left |-> 100]]
Report   == [name |-> Title, settings |-> [snap |-> TRUE, grid |-> 2], page |-> Sheet,
             pageNumbers |-> Numbers,
             bands |-> <<Band("reportHeader", 4, <<Label>>), Band("detail", 3, <<Bound>>),
                         Band("subReport", 4, <<Formula>>), Band("pageFooter", 2, <<>>)>>]
\* A document of before the page numbers, with an item the builder did not write.
Foreign  == [tag |-> "Textbox", name |-> Typed, type |-> None, expression |-> None, rect |-> Rect(0, 0, 1, 1),
             style |-> <<>>, value |-> Typed]
Old      == [ToRdl(Report) EXCEPT !.pageNumbers = None, !.body[1].items = Append(@, Foreign)]
Stores   == {None, Old}
Sizes    == {None, 0, 12}
=============================================================================
