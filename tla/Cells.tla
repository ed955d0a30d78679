--------------------------------- MODULE Cells ---------------------------------
(***************************************************************************)
(* How a value from the database becomes the text of a table cell: the     *)
(* enum_map of cli/yamlq/parser.py, the converters of                      *)
(* cli/yamlq/converters.py, and the two places that look up a column's     *)
(* configuration, render_table of cli/yamlq/renderer.py and _build_table   *)
(* of cli/yamlq/tui/app.py.                                                *)
(*                                                                         *)
(* A text <<kind, n>> is what the literal of that kind with the number n   *)
(* prints; numbers count tenths, so <<"float", 15>> is "1.5" and           *)
(* <<"float", 10>> is "1.0", where <<"int", 10>> is "1".  A value has a    *)
(* type and the text str() makes of it: the string "1" and the number 1    *)
(* have the same text.                                                     *)
(***************************************************************************)
EXTENDS Naturals, Sequences, FiniteSetsExt

Empty == <<"empty", 0>>

Value(type, text) == [type |-> type, text |-> text]
Null == Value("null", <<"None", 0>>)
IsNull(v) == v.type = "null"

\* str(v) if v is not None else ""
Raw(v) == IF IsNull(v) THEN Empty ELSE v.text

-------------------------------------------------------------------------------
(* enum_map *)

\* _parse_enum_map: keys become their text, so a later key may replace an earlier.
ParseEnumMap(entries) ==
    LET at(text) == {i \in DOMAIN entries : entries[i].key.text = text}
    IN  [text \in {entries[i].key.text : i \in DOMAIN entries} |->
            Raw(entries[Max(at(text))].to)]

\* Mutant: a number is looked up as it prints.
EnumKeyPrinted(v) == v.text

\* _enum_key: 1, 1.0 and true share the key "1" with the text "1".
EnumKey(v) ==
    IF v.type = "bool" THEN <<"int", v.text[2]>>
    ELSE IF v.type = "float" /\ v.text[2] % 10 = 0 THEN <<"int", v.text[2]>>
    ELSE v.text

ApplyEnumMap(map, v) ==
    IF ~IsNull(v) /\ EnumKey(v) \in DOMAIN map THEN map[EnumKey(v)] ELSE Raw(v)

-------------------------------------------------------------------------------
(* Converters *)

Statuses == {<<"word", n>> : n \in 1..5}  \* the keys of _STATUS_MAP

StatusToCn(v) ==
    IF ~IsNull(v) /\ v.text \in Statuses THEN <<"status", v.text[2]>> ELSE Raw(v)

\* What Decimal does not take stays as it is.
MoneyFormat(v) ==
    IF ~IsNull(v) /\ v.text[1] \in {"int", "float"} THEN <<"money", v.text[2]>> ELSE Raw(v)

\* Anything but a string shows as nothing.  A string that is no date is cut after
\* ten characters by datetime_to_iso, which the texts of the model do not have.
Datetime(name, v) ==
    IF v.type # "str" THEN Empty
    ELSE IF v.text[1] = "date" THEN <<name, v.text[2]>>
    ELSE v.text

\* A converter nobody knows is warned about, and left out.
ApplyConverter(name, v) ==
    CASE name = "status_to_cn" -> StatusToCn(v)
      [] name = "money_format" -> MoneyFormat(v)
      [] name \in {"datetime_to_iso", "datetime_to_cn"} -> Datetime(name, v)
      [] OTHER -> Raw(v)

\* enum_map wins over the converter; "" is no converter.
FormatCell(v, column) ==
    IF DOMAIN column.enumMap # {} THEN ApplyEnumMap(column.enumMap, v)
    ELSE IF column.converter # "" THEN ApplyConverter(column.converter, v)
    ELSE Raw(v)

-------------------------------------------------------------------------------
(* The configuration of a column.  A name has an id and the case it is written *)
(* in; names with the same id are equal for casefold.                          *)

\* {c.field: c for c in columns}.get(name): the last one of that name, 0 for none.
ExactRule(columns, name) ==
    Max({0} \cup {i \in DOMAIN columns : columns[i].field = name})

\* col_cfgs_folded.get(name.casefold()): of the names that fold alike, the one that
\* came into col_cfgs last.
FoldedRule(columns, name) ==
    LET alike == {i \in DOMAIN columns : columns[i].field.id = name.id}
        entered(i) == \A j \in 1..(i - 1) : columns[j].field # columns[i].field
    IN  IF alike = {} THEN 0
        ELSE ExactRule(columns, columns[Max({i \in alike : entered(i)})].field)

\* cfg_for of render_table
CliRule(columns, name) ==
    IF ExactRule(columns, name) # 0
    THEN ExactRule(columns, name)
    ELSE FoldedRule(columns, name)

\* _build_table does not fold.
TuiRule(columns, name) == ExactRule(columns, name)

Rule(mode, columns, name) ==
    IF mode = "tui" THEN TuiRule(columns, name) ELSE CliRule(columns, name)

\* One row; a value beyond the last column name has no configuration.
CellsOf(mode, columns, names, row) ==
    [i \in DOMAIN row |->
        LET rule == IF i \in DOMAIN names THEN Rule(mode, columns, names[i]) ELSE 0
        IN  IF rule = 0 THEN Raw(row[i]) ELSE FormatCell(row[i], columns[rule])]
===============================================================================
