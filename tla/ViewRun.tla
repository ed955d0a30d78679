-------------------------------- MODULE ViewRun --------------------------------
(***************************************************************************)
(* What one invocation of yamlq makes of its YAML files, apart from the    *)
(* gateway: main, cmd_check and the first half of cmd_run in               *)
(* cli/yamlq/cli.py, load_views of cli/yamlq/parser.py, the parameters and *)
(* the text of each query on their way to the driver (SqlText), and the    *)
(* cells of an answer (Cells).  CliRun and TuiApp model what happens in    *)
(* between; every view is handled by itself here.                          *)
(*                                                                         *)
(* An input is one way to call the program: the command line, the files,   *)
(* and the answer the database gives.                                      *)
(***************************************************************************)
EXTENDS Naturals, Sequences, FiniteSets, SqlText, Cells

CONSTANTS
    Input,    \* the inputs
    AllViews  \* no --views option

Defaults == {"none", "set", "zero"}
Types == {"null", "bool", "int", "float", "str"}

DefinitionOk(raw) ==
    /\ IsSeq(raw.columns) /\ IsSeq(raw.params)
    /\ \A p \in DOMAIN raw.params : raw.params[p].default \in Defaults
    /\ IsText(raw.sql) /\ raw.style \in Styles
FileOk(f) == IsSeq(f.entries) /\ \A e \in DOMAIN f.entries : DefinitionOk(f.entries[e].raw)

\* Files are sequences of definitions, in each of which the text of the query, the
\* columns and the parameters are sequences too; a value is one of those JSON has in
\* a row, and a whole number prints as one.
InputOk(i) ==
    /\ i.mode \in {"cli", "tui"}
    /\ IsSeq(i.yaml) /\ IsSeq(i.yml)
    /\ i.path = "file" => i.yaml # <<>>
    /\ \A f \in DOMAIN i.yaml : FileOk(i.yaml[f])
    /\ \A f \in DOMAIN i.yml : FileOk(i.yml[f])
    /\ \A j \in DOMAIN i.row :
           /\ i.row[j].type \in Types
           /\ i.row[j].type = "int" => i.row[j].text = <<"int", i.row[j].text[2]>>

ASSUME InputAssumption == \A i \in Input : InputOk(i)

VARIABLES
    input,    \* the input of this invocation
    stage,    \* how far it is
    file,     \* the file load_views is at
    entry,    \* the entry of that file it is at
    views,    \* the views loaded or selected so far
    warned,   \* views check_views complains of
    exitCode, \* 0, 1; 2 for an exception; 3 while the program runs
    queries,  \* what is sent for each view: the text and the values
    finals,   \* the text each driver is given
    cells     \* the cells of the answer, as each view shows it

vars == <<input, stage, file, entry, views, warned, exitCode, queries, finals, cells>>

Init ==
    /\ input \in Input
    /\ stage = "start"
    /\ file = 1 /\ entry = 1
    /\ views = <<>>
    /\ warned = {}
    /\ exitCode = 3
    /\ queries = <<>> /\ finals = <<>> /\ cells = <<>>

Exit(code) ==
    /\ stage' = "exit"
    /\ exitCode' = code
    /\ UNCHANGED <<input, file, entry, views, warned, queries, finals, cells>>

-------------------------------------------------------------------------------
(* main *)

\* Without any argument there is no subcommand, and the options of run that main
\* asks for are not there: AttributeError.
NoCommand ==
    /\ stage = "start" /\ input.command = "none"
    /\ Exit(2)

\* run without a file opens an empty user interface, check refuses.
NoConfig ==
    /\ stage = "start" /\ input.command # "none" /\ input.path = "none"
    /\ Exit(IF input.command = "check" THEN 1 ELSE 0)

-------------------------------------------------------------------------------
(* load_views.  A directory is its .yaml files and its .yml files, both sorted. *)

Files ==
    CASE input.path = "file" -> <<input.yaml[1]>>
      [] input.path = "directory" -> input.yaml \o input.yml
      [] OTHER -> <<>>

NothingFound ==
    /\ stage = "start" /\ input.command # "none" /\ input.path # "none"
    /\ Files = <<>>
    /\ Exit(1)

StartLoad ==
    /\ stage = "start" /\ input.command # "none"
    /\ Files # <<>>
    /\ stage' = "load"
    /\ UNCHANGED <<input, file, entry, views, warned, exitCode, queries, finals, cells>>

\* Not YAML, or no mapping of views.
BadFile ==
    /\ stage = "load" /\ file <= Len(Files)
    /\ Files[file].kind # "mapping"
    /\ Exit(1)

\* ConfigError of _parse_view.  A column without a field is not looked at.
Refused(raw) ==
    \/ ~raw.mapping
    \/ {"db_type", "dsn", "sql"} \ raw.has # {}
    \/ \E i \in DOMAIN raw.columns : raw.columns[i].hasField /\ ~raw.columns[i].enumOk

\* What ViewConfig keeps.  Parameters without a name are dropped as such columns are;
\* the inputs have none.
ParseView(key, raw) ==
    LET kept == Kept(raw.columns, {i \in DOMAIN raw.columns : raw.columns[i].hasField})
    IN  [key |-> key, enable |-> raw.enable, style |-> raw.style, sql |-> raw.sql,
         params |-> raw.params,
         columns |-> [i \in DOMAIN kept |->
             [field |-> kept[i].field, converter |-> kept[i].converter,
              enumMap |-> ParseEnumMap(kept[i].enum)]]]

AtEntry ==
    /\ stage = "load" /\ file <= Len(Files)
    /\ Files[file].kind = "mapping"
    /\ entry <= Len(Files[file].entries)

BadEntry ==
    /\ AtEntry
    /\ Refused(Files[file].entries[entry].raw)
    /\ Exit(1)

\* Mutant: a duplicate takes the place of the view it overrides.
LoadEntryInPlace ==
    LET e == Files[file].entries[entry] IN
    /\ AtEntry
    /\ ~Refused(e.raw)
    /\ views' = IF \E i \in DOMAIN views : views[i].key = e.key
                THEN [i \in DOMAIN views |->
                         IF views[i].key = e.key THEN ParseView(e.key, e.raw) ELSE views[i]]
                ELSE Append(views, ParseView(e.key, e.raw))
    /\ entry' = entry + 1
    /\ UNCHANGED <<input, stage, file, warned, exitCode, queries, finals, cells>>

\* A duplicate key removes the view it overrides and goes to the end.
LoadEntry ==
    LET e == Files[file].entries[entry]
        others == {i \in DOMAIN views : views[i].key # e.key}
    IN
    /\ AtEntry
    /\ ~Refused(e.raw)
    /\ views' = Append(Kept(views, others), ParseView(e.key, e.raw))
    /\ entry' = entry + 1
    /\ UNCHANGED <<input, stage, file, warned, exitCode, queries, finals, cells>>

NextFile ==
    /\ stage = "load" /\ file <= Len(Files)
    /\ Files[file].kind = "mapping"
    /\ entry > Len(Files[file].entries)
    /\ file' = file + 1 /\ entry' = 1
    /\ UNCHANGED <<input, stage, views, warned, exitCode, queries, finals, cells>>

Loaded == stage = "load" /\ file > Len(Files)

-------------------------------------------------------------------------------
(* cmd_check, and the choice of views in cmd_run *)

Keys == {views[i].key : i \in DOMAIN views}

\* cmd_check warns of parameters without a default.
Check ==
    /\ Loaded /\ input.command = "check"
    /\ warned' = {views[i].key : i \in {j \in DOMAIN views :
                     \E p \in DOMAIN views[j].params : views[j].params[p].default = "none"}}
    /\ stage' = "exit" /\ exitCode' = 0
    /\ UNCHANGED <<input, file, entry, views, queries, finals, cells>>

\* The keys --views names.
Wanted == IF input.wanted = AllViews THEN Keys ELSE input.wanted

\* One of them is not there.
MissingView ==
    /\ Loaded /\ input.command = "run"
    /\ ~(Wanted \subseteq Keys)
    /\ Exit(1)

Selected == {i \in DOMAIN views : views[i].key \in Wanted /\ views[i].enable}

NothingEnabled ==
    /\ Loaded /\ input.command = "run"
    /\ Wanted \subseteq Keys
    /\ Selected = {}
    /\ Exit(0)

Select ==
    /\ Loaded /\ input.command = "run"
    /\ Wanted \subseteq Keys
    /\ Selected # {}
    /\ views' = Kept(views, Selected)
    /\ stage' = "ready"
    /\ UNCHANGED <<input, file, entry, warned, exitCode, queries, finals, cells>>

-------------------------------------------------------------------------------
(* Parameters.  A value is known by where it comes from: --param, the default,  *)
(* the user's typing, or nowhere ("blank").  A default may be set, not set       *)
(* ("none"), or set to something Python takes for false ("zero").                *)

\* _parse_params: what has no = is ignored.
Overrides == {input.param[i].name : i \in {j \in DOMAIN input.param : input.param[j].eq}}

Default(p) == IF p.default = "none" THEN "typed" ELSE "default"

\* _resolve_params
CliValue(p) == IF p.name \in Overrides THEN "override" ELSE Default(p)

\* needs_input of on_mount: the view gets a dialog.
Asked(p) == p.default = "none" /\ p.name \notin Overrides
HasDialog(v) == \E i \in DOMAIN v.params : Asked(v.params[i])

\* ParamDialog has a field for every parameter, with the default in it unless that
\* is false.  The user fills in what was asked for, and the dialog wins over --param.
TuiValue(v, p) ==
    IF ~HasDialog(v) THEN CliValue(p)
    ELSE IF Asked(p) THEN "typed"
    ELSE IF p.default = "set" THEN "default"
    ELSE "blank"

ParamNamed(v, name) == {i \in DOMAIN v.params : v.params[i].name = name}

\* param_values.get(n, ""), the values being those of the declared parameters.
ValueOf(v, name) ==
    IF ParamNamed(v, name) = {} THEN "blank"
    ELSE LET p == v.params[Max(ParamNamed(v, name))]
         IN  IF input.mode = "tui" THEN TuiValue(v, p) ELSE CliValue(p)

\* _run_view and _fetch_one up to the query: render_sql.
Query(v) ==
    [sql |-> Rendered(v.sql),
     values |-> [i \in DOMAIN Names(v.sql) |-> ValueOf(v, Names(v.sql)[i])]]

Prepare ==
    /\ stage = "ready"
    /\ queries' = [i \in DOMAIN views |-> Query(views[i])]
    /\ stage' = "prepared"
    /\ UNCHANGED <<input, file, entry, views, warned, exitCode, finals, cells>>

\* executeOne, up to the driver.
Execute ==
    /\ stage = "prepared"
    /\ finals' = [i \in DOMAIN views |->
           FinalSql(views[i].style, queries[i].sql, Len(queries[i].values))]
    /\ stage' = "executed"
    /\ UNCHANGED <<input, file, entry, views, warned, exitCode, queries, cells>>

\* render_table, or _build_table.
Show ==
    /\ stage = "executed"
    /\ cells' = [i \in DOMAIN views |->
           CellsOf(input.mode, views[i].columns, input.names, input.row)]
    /\ stage' = "shown" /\ exitCode' = 0
    /\ UNCHANGED <<input, file, entry, views, warned, queries, finals>>

Ended == stage \in {"shown", "exit"} /\ UNCHANGED vars

Next ==
    \/ NoCommand \/ NoConfig
    \/ NothingFound \/ StartLoad \/ BadFile \/ BadEntry \/ LoadEntry \/ NextFile
    \/ Check \/ MissingView \/ NothingEnabled \/ Select
    \/ Prepare \/ Execute \/ Show
    \/ Ended

Spec == Init /\ [][Next]_vars

-------------------------------------------------------------------------------

\* The places of the definitions in the files, in the order they are read, and
\* the last definition of a key.
Places == UNION {{f} \X DOMAIN Files[f].entries : f \in DOMAIN Files}
At(place) == Files[place[1]].entries[place[2]]
Earlier(a, b) == a[1] < b[1] \/ (a[1] = b[1] /\ a[2] < b[2])
IsLast(place) == \A p \in Places : At(p).key = At(place).key => p = place \/ Earlier(p, place)
LastOf(key) == CHOOSE place \in Places : At(place).key = key /\ IsLast(place)

\* Every file and every definition is sound, the overridden ones too.
AllSound ==
    /\ \A f \in DOMAIN Files : Files[f].kind = "mapping"
    /\ \A place \in Places : ~Refused(At(place).raw)

\* A run has exactly the views whose last definition is enabled and that were asked
\* for, as that definition says, in the order of the last definitions; an earlier
\* definition with the same key leaves no trace, but if it is faulty nothing runs
\* (parser.py:144-168, cli.py:140-153).
LastDefinitionWins ==
    stage = "ready" =>
        /\ AllSound
        /\ Keys = {At(place).key : place \in {p \in Places :
               /\ IsLast(p) /\ At(p).raw.enable
               /\ input.wanted = AllViews \/ At(p).key \in input.wanted}}
        /\ \A i \in DOMAIN views :
               views[i] = ParseView(views[i].key, At(LastOf(views[i].key)).raw)
        /\ \A i, j \in DOMAIN views :
               i < j => Earlier(LastOf(views[i].key), LastOf(views[j].key))

-------------------------------------------------------------------------------
\* What the invariants rest on; IInv is inductive.

Parsed(place) == ParseView(At(place).key, At(place).raw)

\* The places read so far, and those among them no later one has overridden.
Read == {p \in Places : p[1] < file \/ (p[1] = file /\ p[2] < entry)}
Latest == {p \in Read : \A q \in Read : At(q).key = At(p).key => q = p \/ Earlier(q, p)}

\* While files are read, the views are the latest definitions, in their order.
LatestLoaded ==
    stage = "load" =>
        /\ \A p \in Latest : \E i \in DOMAIN views : views[i] = Parsed(p)
        /\ \A i \in DOMAIN views : \E p \in Latest : views[i] = Parsed(p)
        /\ \A i, j \in DOMAIN views : i < j =>
               \A p, q \in Latest : At(p).key = views[i].key /\ At(q).key = views[j].key =>
                   Earlier(p, q)

\* Where load_views is, and that what it has read was sound.
ReadSound ==
    /\ stage = "start" => file = 1 /\ entry = 1 /\ views = <<>>
    /\ stage = "load" =>
           /\ file \in 1..(Len(Files) + 1) /\ entry \in Nat \ {0}
           /\ IF file \in DOMAIN Files THEN entry <= Len(Files[file].entries) + 1 ELSE entry = 1
           /\ \A f \in DOMAIN Files :
                  f < file \/ (f = file /\ entry > 1) => Files[f].kind = "mapping"
           /\ \A p \in Read : ~Refused(At(p).raw)

ViewsOk ==
    /\ InputOk(input)
    /\ IsSeq(views)
    /\ \A i \in DOMAIN views : DefinitionOk(views[i])

\* What was computed from what.
Computed ==
    /\ stage \in {"prepared", "executed"} => queries = [i \in DOMAIN views |-> Query(views[i])]
    /\ stage = "executed" =>
           finals = [i \in DOMAIN views |->
               FinalSql(views[i].style, queries[i].sql, Len(queries[i].values))]
    /\ stage = "shown" =>
           cells = [i \in DOMAIN views |->
               CellsOf(input.mode, views[i].columns, input.names, input.row)]

\* The inductive invariant.
IInv == ViewsOk /\ ReadSound /\ LatestLoaded /\ LastDefinitionWins /\ Computed

-------------------------------------------------------------------------------

\* What the user has said of a parameter: --param, else the default, else an answer.
\* A dialog hides --param and a false default of the other parameters of its view.
Hidden(v, p) ==
    /\ input.mode = "tui" /\ HasDialog(v)
    /\ ~Asked(p)
    /\ p.name \in Overrides \/ p.default = "zero"
Said(p) == IF p.name \in Overrides THEN "override"
           ELSE IF p.default # "none" THEN "default" ELSE "typed"

\* Whichever the driver and the interface, the i-th bind of a regular text is its
\* i-th placeholder, literals are left alone, and the value sent for it is what the
\* user said of the parameter of that name; of an undeclared one, nothing
\* (parser.py:174-178, pagination.go:11-40, placeholders.go:73-102, cli.py:72-85,
\* app.py:282-292).
BindsAsSaid ==
    stage = "executed" =>
        \A i \in DOMAIN views : Regular(views[i].sql) =>
            LET v == views[i]
                places == {j \in DOMAIN v.sql : IsPlaceholder(v.sql[j])}
                nth(j) == Cardinality(Before(v.sql, j, "placeholder")) + 1
            IN  /\ finals[i] = Numbered(v.style, v.sql)
                /\ Len(queries[i].values) = Cardinality(places)
                /\ \A j \in places :
                       LET declared == ParamNamed(v, v.sql[j].n)
                           last == v.params[Max(declared)]
                           value == queries[i].values[nth(j)]
                       IN  /\ declared = {} => value = "blank"
                           /\ declared # {} /\ ~Hidden(v, last) => value = Said(last)

\* The README on enum_map (186-195): a key names a value if it is its text, or the
\* whole number it is equal to.
NamesValue(key, v) ==
    \/ key = v.text /\ v.type \in {"int", "str"}
    \/ key = v.text /\ v.type = "float" /\ v.text[2] % 10 # 0
    \/ key = <<"int", v.text[2]>> /\ v.type \in {"bool", "int"}
    \/ key = <<"int", v.text[2]>> /\ v.type = "float" /\ v.text[2] % 10 = 0

\* A cell shows what the configuration of its column says: under an enum_map the
\* entry that names the value, else the value itself, so that nothing is lost, and
\* equal numbers look alike.  A name in the wrong case finds its column in a table,
\* and never one configured for another name; the same cell is shown in the user
\* interface wherever the case is right (renderer.py:87-97, app.py:113-135,
\* converters.py:91-125).
CellsAsConfigured ==
    stage = "shown" =>
        \A i \in DOMAIN views : \A j \in DOMAIN input.row \cap DOMAIN input.names :
            LET columns == views[i].columns
                v == input.row[j]
                cell == cells[i][j]
                named == {c \in DOMAIN columns : columns[c].field = input.names[j]}
                alike == {c \in DOMAIN columns : columns[c].field.id = input.names[j].id}
                fits == IF named = {} /\ input.mode = "cli" THEN alike ELSE named
            IN  /\ fits = {} => cell = Raw(v)
                /\ fits # {} => \E c \in fits :
                       /\ named # {} => c = Max(named)
                       /\ LET map == columns[c].enumMap
                              keys == {k \in DOMAIN map : ~IsNull(v) /\ NamesValue(k, v)}
                          IN  /\ keys # {} => cell \in {map[k] : k \in keys}
                              /\ keys = {} /\ DOMAIN map # {} => cell = Raw(v)
                              /\ DOMAIN map = {} /\ columns[c].converter = "" => cell = Raw(v)
===============================================================================
