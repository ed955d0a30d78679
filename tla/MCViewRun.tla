------------------------------- MODULE MCViewRun -------------------------------
(***************************************************************************)
(* The inputs ViewRun is checked on: four families, each wide in one       *)
(* respect (the files, the text of a query, the parameters, the columns    *)
(* and values of a table) and plain in the others.                         *)
(***************************************************************************)
EXTENDS ViewRun

UpTo(S, n) == UNION {[1..k -> S] : k \in 0..n}

PlainRaw ==
    [mapping |-> TRUE, has |-> {"db_type", "dsn", "sql"}, enable |-> TRUE,
     style |-> "question", sql |-> <<Other>>, params |-> <<>>, columns |-> <<>>]

Entry(key, raw) == [key |-> key, raw |-> raw]
File(entries) == [kind |-> "mapping", entries |-> entries]
OneView(raw) == <<File(<<Entry("k1", raw)>>)>>

Plain ==
    [command |-> "run", mode |-> "cli", path |-> "file",
     yaml |-> OneView(PlainRaw), yml |-> <<>>, wanted |-> AllViews,
     param |-> <<>>, names |-> <<>>, row |-> <<>>]

-------------------------------------------------------------------------------
(* Command lines and files: up to two keys in each of two files *)

LowerA == [id |-> "a", case |-> "lower"]
UpperA == [id |-> "a", case |-> "upper"]
LowerB == [id |-> "b", case |-> "lower"]

ColumnOf(field, enum, converter) ==
    [hasField |-> TRUE, field |-> field, enumOk |-> TRUE, enum |-> enum,
     converter |-> converter]
NoField == [ColumnOf(LowerA, <<>>, "") EXCEPT !.hasField = FALSE, !.enumOk = FALSE]
BadEnum == [ColumnOf(LowerA, <<>>, "") EXCEPT !.enumOk = FALSE]

Raws ==
    {PlainRaw,
     [PlainRaw EXCEPT !.enable = FALSE, !.params = <<[name |-> 1, default |-> "none"]>>],
     [PlainRaw EXCEPT !.columns = <<NoField>>],
     [PlainRaw EXCEPT !.columns = <<BadEnum>>]}
Faulty == {[PlainRaw EXCEPT !.mapping = FALSE], [PlainRaw EXCEPT !.has = {"dsn", "sql"}]}

SomeEntries ==
    {<<>>} \cup {<<Entry(k, raw)>> : k \in {"k1", "k2"}, raw \in Raws \cup Faulty}
    \cup {<<Entry("k1", r1), Entry("k2", r2)>> : r1, r2 \in Raws}
    \cup {<<Entry("k2", r1), Entry("k1", r2)>> : r1, r2 \in Raws}
SomeFiles ==
    {File(entries) : entries \in SomeEntries}
    \cup {[kind |-> kind, entries |-> <<>>] : kind \in {"not_yaml", "other"}}

FileInputs ==
    {[Plain EXCEPT !.path = "directory", !.yaml = <<f1>>, !.yml = <<f2>>, !.wanted = w] :
        f1, f2 \in SomeFiles, w \in {AllViews, {"k1"}}}
    \cup {[Plain EXCEPT !.command = c, !.path = path, !.yaml = <<f>>] :
        c \in {"run", "check"}, path \in {"none", "missing", "file"}, f \in SomeFiles}
    \cup {[Plain EXCEPT !.path = "directory", !.yaml = <<>>],
          [Plain EXCEPT !.command = "none", !.path = "none"]}

-------------------------------------------------------------------------------
(* Texts of up to five pieces, for drivers of every style *)

Pieces == {Quote, Mark, Other, Placeholder(1), Placeholder(2)}

Params(d1, d2) == <<[name |-> 1, default |-> d1], [name |-> 2, default |-> d2]>>

TextInputs ==
    {[Plain EXCEPT !.yaml = OneView([PlainRaw EXCEPT
          !.sql = sql, !.style = style, !.params = Params("set", "none")])] :
        sql \in UpTo(Pieces, 4) \cup [1..5 -> Pieces \ {Placeholder(2)}], style \in Styles}

(* Parameters: declared or not, given or not, asked for in a dialog or not *)

ParamInputs ==
    {[Plain EXCEPT !.mode = mode, !.param = given,
          !.yaml = OneView([PlainRaw EXCEPT
              !.sql = <<Placeholder(2), Other, Placeholder(1), Placeholder(2), Placeholder(3)>>,
              !.style = "number", !.params = params])] :
        mode \in {"cli", "tui"},
        given \in UpTo([eq : BOOLEAN, name : {1, 2}], 2),
        params \in {Params(d1, d2) : d1, d2 \in Defaults}}

-------------------------------------------------------------------------------
(* Tables *)

One(kind) == <<kind, 10>>
Values ==
    {Null, Value("bool", <<"bool", 0>>)} \cup {Value(t, One(t)) : t \in {"bool", "int", "float"}}
    \cup {Value("float", <<"float", 15>>)}
    \cup {Value("str", text) : text \in {One("int"), One("float"), <<"word", 1>>,
                                         <<"word", 9>>, <<"date", 1>>, Empty}}

Shown(n) == Value("str", <<"shown", n>>)
Key(v, n) == [key |-> v, to |-> Shown(n)]

Enums ==
    {<<>>,
     <<Key(Value("str", One("int")), 1), Key(Value("str", <<"word", 1>>), 2)>>,
     <<Key(Value("int", One("int")), 1), Key(Value("str", One("int")), 2)>>,
     <<Key(Value("float", <<"float", 15>>), 1), Key(Value("int", <<"int", 0>>), 2)>>,
     <<Key(Value("str", Empty), 1), [key |-> Value("int", One("int")), to |-> Null]>>}
Converters ==
    {"", "status_to_cn", "money_format", "datetime_to_iso", "datetime_to_cn", "unknown"}

Table(mode, columns, names, row) ==
    [Plain EXCEPT !.mode = mode, !.names = names, !.row = row,
        !.yaml = OneView([PlainRaw EXCEPT !.columns = columns])]

\* One column and every kind of value; three columns whose names fold together.
TableInputs ==
    {Table(mode, <<ColumnOf(LowerA, enum, converter)>>, <<LowerA>>, <<v, v>>) :
        mode \in {"cli", "tui"}, enum \in Enums, converter \in Converters, v \in Values}
    \cup {Table(mode, columns, <<name>>, <<Value("int", One("int"))>>) :
        mode \in {"cli", "tui"}, name \in {LowerA, UpperA, LowerB},
        columns \in UpTo({ColumnOf(field, <<Key(Value("int", One("int")), n)>>, "") :
                             field \in {LowerA, UpperA, LowerB}, n \in 1..2}, 3)}

MCInput == FileInputs \cup TextInputs \cup ParamInputs \cup TableInputs
===============================================================================
