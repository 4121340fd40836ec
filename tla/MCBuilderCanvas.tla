---------------------------- MODULE MCBuilderCanvas ----------------------------
(* Instances of the canvas: two bands, a label in each, small distances. *)
EXTENDS BuilderCanvas

Bands      == <<"reportHeader", "detail">>
Height     == [reportHeader |-> 6, detail |-> 8]
NewRects   == [label |-> Rect(2, 0, 4, 2), pageBreak |-> Rect(0, 2, 8, 2)]
Label(n, x, y) == [id |-> <<"label", n>>, type |-> "label", rect |-> Rect(x, y, 4, 2), text |-> "default"]
TwoLabels  == [bands    |-> [reportHeader |-> <<Label(1, 2, 2)>>, detail |-> <<Label(2, 4, 0)>>],
               page     |-> [width |-> 10, height |-> 16],
               settings |-> [snap |-> TRUE, grid |-> 2]]
OnOff      == {[snap |-> TRUE, grid |-> 2], [snap |-> FALSE, grid |-> 2]}
Negative   == {-2}
Moves      == {[x |-> -7, y |-> -7], [x |-> 3, y |-> 9]}
Corners    == {[x |-> 1, y |-> 5], [x |-> 7, y |-> 7]}
=============================================================================
