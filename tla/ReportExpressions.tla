--------------------------- MODULE ReportExpressions ---------------------------
(***************************************************************************)
(* The designer expressions: the parser, the validator of the editor       *)
(* (expressions.ts) and the two evaluators, the one of the preview and the *)
(* one of the report engine (ExpressionEvaluator.cs).                      *)
(*                                                                         *)
(* An expression is the sequence of the pieces TOKEN cuts its text into; a *)
(* piece has a kind ("text", "n", "N", "path", "bad"), the function it is  *)
(* an argument of, and what it holds. Values are integers, in hundredths,  *)
(* or model values for the texts that are not numbers.                     *)
(***************************************************************************)
EXTENDS Integers, SequencesExt

CONSTANTS
  Upper,        \* the function names that are typed, in capitals
  DetailScope,  \* the scope of the rows
  NaN, Infinity, MinusInfinity,
  Verbatim,     \* the text of an expression, as it was typed
  None          \* JavaScript's undefined

EXPRESSION_FUNCTIONS == {"SUM", "AVG", "COUNT", "MIN", "MAX"}

Piece(kind, fn, of) == [kind |-> kind, fn |-> fn, of |-> of]
Text(x)       == Piece("text", None, x)
Field(path)   == Piece("path", None, path)
Call(f, path) == Piece("path", f, path)

-----------------------------------------------------------------------------
(* parseExpression: a malformed piece becomes an invalid segment            *)

Segment(p) ==
  CASE p.kind = "text"                                -> [kind |-> "text", of |-> p.of]
    [] p.kind = "path" /\ p.fn # None                 -> [kind |-> "function", name |-> Upper[p.fn], of |-> p.of]
    [] p.kind = "path" /\ p.fn = None                 -> [kind |-> "field", of |-> p.of]
    [] p.kind \in {"n", "N"} /\ p.fn = None           -> [kind |-> p.kind]
    [] OTHER                                          -> [kind |-> "invalid"]

ParseExpression(expression) == [i \in DOMAIN expression |-> Segment(expression[i])]

-----------------------------------------------------------------------------
(* validateExpression: the problems, against a catalog of [path, isDetail]  *)

\* Faulty variant: an aggregate of a field that has one value is let through.
ProblemTrustsFunctions(s, catalog) ==
  LET known == {f \in catalog : f.path = s.of}
  IN CASE s.kind = "invalid"                                     -> "Invalid field reference"
       [] s.kind \in {"field", "function"} /\ known = {}         -> "Unknown field"
       [] OTHER                                                  -> None

Problem(s, catalog) ==
  LET known == {f \in catalog : f.path = s.of}
  IN CASE s.kind = "invalid"                                     -> "Invalid field reference"
       [] s.kind = "field" /\ known = {}                         -> "Unknown field"
       [] s.kind = "function" /\ s.name \notin EXPRESSION_FUNCTIONS -> "Unknown function"
       [] s.kind = "function" /\ s.name \in EXPRESSION_FUNCTIONS /\ known = {} -> "Unknown field"
       [] s.kind = "function" /\ s.name \in EXPRESSION_FUNCTIONS
            /\ \E f \in known : ~f.isDetail                      -> "requires a detail field"
       [] OTHER                                                  -> None

\* The problems of an expression, whatever their order.
ValidateExpression(expression, catalog) ==
  {Problem(ParseExpression(expression)[i], catalog) : i \in DOMAIN expression} \ {None}

-----------------------------------------------------------------------------
(* Evaluation, in a context [scopes, detail, page]. A part is <<value>>, or *)
(* <<>> for an error.                                                       *)

Failure == <<>>

\* A field of the first row, or of a scope that has one value.
ResolveField(path, ctx) ==
  IF path[1] = DetailScope
  THEN IF ctx.detail = <<>> \/ path \notin DOMAIN ctx.detail[1] THEN Failure
                                                                ELSE <<ctx.detail[1][path]>>
  ELSE IF path \in DOMAIN ctx.scopes THEN <<ctx.scopes[path]>> ELSE Failure

\* Math.round, halves up; and MidpointRounding.AwayFromZero.
RoundUp(n, d)   == (2 * n + d) \div (2 * d)
RoundAway(n, d) == IF n >= 0 THEN RoundUp(n, d) ELSE -RoundUp(-n, d)

Total(column) ==
  LET sum[n \in 0 .. Len(column)] == IF n = 0 THEN 0 ELSE sum[n - 1] + column[n]
  IN sum[Len(column)]

\* The aggregates of a column of numbers; NaN spreads, except through the engine's MAX.
Aggregate(name, column) ==
  IF NaN \in Range(column) THEN NaN
  ELSE CASE name = "SUM" -> Total(column)
         [] name = "AVG" -> IF column = <<>> THEN 0 ELSE RoundUp(Total(column), Len(column))
         [] name = "MIN" -> IF column = <<>> THEN Infinity ELSE Min(Range(column))
         [] name = "MAX" -> IF column = <<>> THEN MinusInfinity ELSE Max(Range(column))

\* Faulty variant: the mean is cut off instead of rounded.
EngineAggregateTruncates(name, column) ==
  LET numbers == Range(column) \ {NaN}
  IN IF name # "MAX" /\ NaN \in Range(column) THEN NaN
     ELSE CASE name = "SUM" -> Total(column)
            [] name = "AVG" -> IF column = <<>> THEN 0 ELSE Total(column) \div Len(column)
            [] name = "MIN" -> IF column = <<>> THEN 0 ELSE Min(Range(column))
            [] name = "MAX" -> IF column = <<>> THEN 0 ELSE IF numbers = {} THEN NaN ELSE Max(numbers)

EngineAggregate(name, column) ==
  LET numbers == Range(column) \ {NaN}
  IN IF name # "MAX" /\ NaN \in Range(column) THEN NaN
     ELSE CASE name = "SUM" -> Total(column)
            [] name = "AVG" -> IF column = <<>> THEN 0 ELSE RoundAway(Total(column), Len(column))
            [] name = "MIN" -> IF column = <<>> THEN 0 ELSE Min(Range(column))
            [] name = "MAX" -> IF column = <<>> THEN 0 ELSE IF numbers = {} THEN NaN ELSE Max(numbers)

ToNumber(value) == IF value \in Int THEN value ELSE NaN

\* A count is a whole number, a hundred hundredths.
ApplyFunction(name, path, ctx, Fold(_, _)) ==
  IF \/ name \notin EXPRESSION_FUNCTIONS
     \/ path[1] # DetailScope
     \/ ctx.detail # <<>> /\ path \notin DOMAIN ctx.detail[1]
  THEN Failure
  ELSE IF name = "COUNT" THEN <<100 * Len(ctx.detail)>>
  ELSE <<Fold(name, [i \in DOMAIN ctx.detail |-> ToNumber(ctx.detail[i][path])])>>

Part(s, ctx, Fold(_, _)) ==
  CASE s.kind = "text"     -> <<s.of>>
    [] s.kind = "n"        -> <<100 * ctx.page.number>>
    [] s.kind = "N"        -> <<100 * ctx.page.total>>
    [] s.kind = "field"    -> ResolveField(s.of, ctx)
    [] s.kind = "function" -> ApplyFunction(s.name, s.of, ctx, Fold)
    [] s.kind = "invalid"  -> Failure

\* The values of the parts in order, or a failure when one fails.
Evaluation(expression, ctx, Fold(_, _)) ==
  LET parts == [i \in DOMAIN expression |-> Part(ParseExpression(expression)[i], ctx, Fold)]
      ok    == \A i \in DOMAIN parts : parts[i] # Failure
  IN [ok |-> ok, value |-> IF ok THEN [i \in DOMAIN parts |-> parts[i][1]] ELSE Failure]

EvaluateExpression(expression, ctx) == Evaluation(expression, ctx, Aggregate)
EngineEvaluate(expression, ctx)     == Evaluation(expression, ctx, EngineAggregate)

\* resolveElementText, ResolveText: what an element shows, the display text in need.
ShownText(e, result) ==
  CASE e.expression # None /\ result.ok                    -> result.value
    [] e.expression # None /\ ~result.ok /\ e.text = None  -> <<Verbatim>>
    [] e.expression = None /\ e.text = None                -> <<>>
    [] OTHER                                               -> <<e.text>>

ResolveElementText(e, ctx) ==
  ShownText(e, IF e.expression = None THEN None ELSE EvaluateExpression(e.expression, ctx))
EngineText(e, ctx) ==
  ShownText(e, IF e.expression = None THEN None ELSE EngineEvaluate(e.expression, ctx))
=============================================================================
