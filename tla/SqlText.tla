-------------------------------- MODULE SqlText --------------------------------
(***************************************************************************)
(* What becomes of the text of a query between the YAML file and the       *)
(* database driver: the client replaces {{name}} by ? and collects the     *)
(* values (render_sql of cli/yamlq/parser.py), the gateway rewrites ? for  *)
(* drivers that want numbered binds (db-gateway/dialect).                  *)
(*                                                                         *)
(* A text is a sequence of pieces: a single quote, a question mark, a      *)
(* placeholder with its name, a numbered bind, or some other character.    *)
(***************************************************************************)
EXTENDS Naturals, Sequences, FiniteSets, Positions

Quote == [is |-> "quote", n |-> 0]
Mark == [is |-> "mark", n |-> 0]
Other == [is |-> "other", n |-> 0]
Placeholder(name) == [is |-> "placeholder", n |-> name]
Bind(i) == [is |-> "bind", n |-> i]

IsPlaceholder(piece) == piece.is = "placeholder"

\* What stands in a YAML file, and how the drivers want their binds.
IsText(sql) ==
    /\ IsSeq(sql)
    /\ \A i \in DOMAIN sql : sql[i] \in {Quote, Mark, Other} \/ sql[i] = Placeholder(sql[i].n)
Styles == {"question", "oracle", "number"}

-------------------------------------------------------------------------------
(* The client *)

NamesAt(sql, at) == LET found == Kept(sql, at) IN [i \in DOMAIN found |-> found[i].n]

\* Mutant: a name is collected only where it occurs first.
NamesOnce(sql) ==
    NamesAt(sql, {i \in DOMAIN sql : IsPlaceholder(sql[i]) /\ \A j \in 1..(i - 1) : sql[j] # sql[i]})

\* _PARAM_RE.findall: a name once for every time it occurs.
Names(sql) == NamesAt(sql, {i \in DOMAIN sql : IsPlaceholder(sql[i])})

\* _PARAM_RE.sub("?", sql)
Rendered(sql) ==
    [i \in DOMAIN sql |-> IF IsPlaceholder(sql[i]) THEN Mark ELSE sql[i]]

-------------------------------------------------------------------------------
(* The gateway *)

\* The loop both rewriters have: is it in a literal, did it take the second quote of
\* an escaped pair already, how many binds has it written, and the text so far.
ScanStart == [inStr |-> FALSE, skip |-> FALSE, n |-> 0, out |-> <<>>]

\* A quote inside a literal that another one follows stands for itself.
ScanQuote(sql, s, i) ==
    IF s.inStr /\ i < Len(sql) /\ sql[i + 1] = Quote
    THEN [s EXCEPT !.skip = TRUE, !.out = Append(@, Quote)]
    ELSE [s EXCEPT !.inStr = ~@, !.out = Append(@, Quote)]

ScanStep(sql, limit, s, i) ==
    IF s.skip THEN [s EXCEPT !.skip = FALSE, !.out = Append(@, sql[i])]
    ELSE IF sql[i] = Quote THEN ScanQuote(sql, s, i)
    ELSE IF sql[i] = Mark /\ ~s.inStr /\ s.n < limit
    THEN [s EXCEPT !.n = @ + 1, !.out = Append(@, Bind(s.n + 1))]
    ELSE [s EXCEPT !.out = Append(@, sql[i])]

Scan(sql, limit) ==
    LET after[i \in 0..Len(sql)] ==
            IF i = 0 THEN ScanStart ELSE ScanStep(sql, limit, after[i - 1], i)
    IN  after[Len(sql)].out

\* :1, :2, ... for at most count marks.
RewritePositional(sql, count) == Scan(sql, count)

\* $1, $2, ... for every mark.
NumberPlaceholders(sql) == Scan(sql, Len(sql))

\* executeOne: OracleBinds and UsesNumberPlaceholders tell the driver's style.
FinalSql(style, sql, params) ==
    IF style = "oracle" /\ params > 0 THEN RewritePositional(sql, params)
    ELSE IF style = "number" /\ params > 0 THEN NumberPlaceholders(sql)
    ELSE sql

-------------------------------------------------------------------------------
(* What is true of a text, without reading it from left to right *)

Before(sql, i, is) == {j \in 1..(i - 1) : sql[j].is = is}

\* A literal is open where an odd number of quotes come before.
InLiteral(sql, i) == Cardinality(Before(sql, i, "quote")) % 2 = 1

\* The README's rule (152-157): no placeholder inside a literal.  And a question
\* mark outside of one is the client's alone to write.
Regular(sql) ==
    \A i \in DOMAIN sql :
        /\ IsPlaceholder(sql[i]) => ~InLiteral(sql, i)
        /\ sql[i] = Mark => InLiteral(sql, i)

\* What a driver of this style must be given for a regular text: the i-th
\* placeholder is the i-th bind, everything else is as it was.
Numbered(style, sql) ==
    [i \in DOMAIN sql |->
        IF ~IsPlaceholder(sql[i]) THEN sql[i]
        ELSE IF style = "question" THEN Mark
        ELSE Bind(Cardinality(Before(sql, i, "placeholder")) + 1)]
===============================================================================
