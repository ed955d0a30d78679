----------------------------- MODULE ViewRunProofs -----------------------------
(***************************************************************************)
(* Theorems about ViewRun, for any files, texts, parameters and tables.    *)
(***************************************************************************)
EXTENDS ViewRun, SqlTextProofs

-------------------------------------------------------------------------------
(* Files *)

\* The elements of a concatenation are those of its parts.
LEMMA ConcatSeq ==
    ASSUME NEW s, NEW t, IsSeq(s), IsSeq(t), NEW u, u = s \o t
    PROVE  /\ IsSeq(u)
           /\ \A i \in DOMAIN u :
                 \/ i \in DOMAIN s /\ u[i] = s[i]
                 \/ \E j \in DOMAIN t : u[i] = t[j]
<1> DEFINE R == {s[i] : i \in DOMAIN s} \cup {t[i] : i \in DOMAIN t}
<1>1. s \in Seq(R) /\ t \in Seq(R)
  BY SeqMonotonic DEF IsSeq
<1>2. /\ Len(s) \in Nat /\ DOMAIN s = 1..Len(s)
      /\ Len(t) \in Nat /\ DOMAIN t = 1..Len(t)
  BY SequenceDomain
<1>. HIDE DEF R
<1>3. /\ s \o t \in Seq(R) /\ Len(s \o t) = Len(s) + Len(t)
      /\ \A i \in 1..(Len(s) + Len(t)) :
            (s \o t)[i] = IF i <= Len(s) THEN s[i] ELSE t[i - Len(s)]
  BY <1>1, ConcatProperties
<1> DEFINE n == Len(s) + Len(t)
<1>5. IsSeq(u) /\ DOMAIN u = 1..n
  BY <1>3, ElementsOfSequence
<1>6. ASSUME NEW i \in 1..n
      PROVE  \/ i \in DOMAIN s /\ u[i] = s[i]
             \/ \E j \in DOMAIN t : u[i] = t[j]
  <2>1. CASE i <= Len(s)
    BY <1>2, <1>3, <2>1
  <2>2. CASE ~(i <= Len(s))
    <3>1. i - Len(s) \in DOMAIN t
      BY <1>2, <2>2
    <3>. QED  BY <1>2, <1>3, <2>2, <3>1
  <2>. QED  BY <2>1, <2>2
<1>. QED  BY <1>5, <1>6

\* An appended element is the last one, the others stay where they are.
LEMMA AppendSeq ==
    ASSUME NEW s, NEW x, IsSeq(s)
    PROVE  /\ IsSeq(Append(s, x)) /\ DOMAIN Append(s, x) = 1..(Len(s) + 1)
           /\ \A i \in 1..Len(s) : Append(s, x)[i] = s[i]
           /\ Append(s, x)[Len(s) + 1] = x
<1> DEFINE R == {s[i] : i \in DOMAIN s} \cup {x}
<1>1. s \in Seq(R) /\ x \in R
  BY SeqMonotonic DEF IsSeq
<1>2. Len(s) \in Nat
  BY SequenceDomain
<1>. HIDE DEF R
<1> DEFINE t == Append(s, x)
<1>3. /\ t \in Seq(R) /\ Len(t) = Len(s) + 1 /\ t[Len(s) + 1] = x
      /\ \A i \in 1..Len(s) : t[i] = s[i]
  BY <1>1, AppendProperties
<1>4. IsSeq(t) /\ DOMAIN t = 1..(Len(s) + 1)
  <2>1. IsSeq(t) /\ DOMAIN t = 1..Len(t)
    <3>. HIDE DEF t
    <3>. QED  BY <1>3, ElementsOfSequence
  <2>. QED  BY <1>3, <2>1
<1>. QED  BY <1>3, <1>4

\* The files load_views goes through, whichever kind of path was given.
LEMMA FilesOk ==
    ASSUME InputOk(input)
    PROVE  /\ IsSeq(Files) /\ Len(Files) \in Nat /\ DOMAIN Files = 1..Len(Files)
           /\ \A f \in DOMAIN Files : FileOk(Files[f])
<1>1. IsSeq(<<>>) /\ \A f \in DOMAIN <<>> : FALSE
  <2>1. <<>> = [i \in 1..0 |-> <<>>[i]]
    OBVIOUS
  <2>2. IsSeq(<<>>) /\ Len(<<>>) = 0
    BY <2>1, IntervalIsSequence
  <2>. QED  BY <2>2
<1>2. CASE input.path = "file"
  <2>1. 1 \in DOMAIN input.yaml
    <3>1. Len(input.yaml) \in Nat /\ DOMAIN input.yaml = 1..Len(input.yaml)
      BY SequenceDomain DEF InputOk
    <3>2. Len(input.yaml) # 0
      BY <1>2 DEF InputOk, IsSeq
    <3>. QED  BY <3>1, <3>2
  <2> DEFINE one == <<input.yaml[1]>>
  <2>2. one = [i \in 1..1 |-> one[i]]
    OBVIOUS
  <2>3. Files = one
    BY <1>2 DEF Files
  <2>4. IsSeq(one) /\ Len(one) = 1
    <3>. HIDE DEF one
    <3>. QED  BY <2>2, IntervalIsSequence
  <2>. QED  BY <2>1, <2>3, <2>4 DEF InputOk
<1>3. CASE input.path = "directory"
  <2>1. Files = input.yaml \o input.yml
    BY <1>3 DEF Files
  <2>2. IsSeq(Files)
    BY <2>1, ConcatSeq DEF InputOk
  <2>3. ASSUME NEW f \in DOMAIN Files  PROVE FileOk(Files[f])
    <3> DEFINE yaml == input.yaml
               yml == input.yml
    <3>1. /\ IsSeq(yaml) /\ IsSeq(yml) /\ Files = yaml \o yml
          /\ \A j \in DOMAIN yaml : FileOk(yaml[j])
          /\ \A j \in DOMAIN yml : FileOk(yml[j])
      BY <2>1 DEF InputOk
    <3>. HIDE DEF yaml, yml
    <3>2. \A i \in DOMAIN Files :
             \/ i \in DOMAIN yaml /\ Files[i] = yaml[i]
             \/ \E j \in DOMAIN yml : Files[i] = yml[j]
      BY <3>1, ConcatSeq
    <3>. QED  BY <3>1, <3>2
  <2>. QED  BY <2>2, <2>3, SequenceDomain
<1>4. CASE input.path \notin {"file", "directory"}
  <2>1. Files = <<>>
    BY <1>4 DEF Files
  <2>. QED  BY <1>1, <2>1, SequenceDomain
<1>. QED  BY <1>2, <1>3, <1>4

\* ParseView keeps what makes a definition well formed.
LEMMA ParsedOk ==
    ASSUME NEW key, NEW raw, DefinitionOk(raw)
    PROVE  DefinitionOk(ParseView(key, raw))
<1> DEFINE at == {i \in DOMAIN raw.columns : raw.columns[i].hasField}
           kept == Kept(raw.columns, at)
           v == ParseView(key, raw)
<1>1. DOMAIN kept = 1..Cardinality(at) /\ Cardinality(at) \in Nat
  <2>1. Len(raw.columns) \in Nat /\ at \in SUBSET (1..Len(raw.columns))
    BY SequenceDomain DEF DefinitionOk
  <2>2. Cardinality(at) \in Nat
    <3>. HIDE DEF at
    <3>. QED  BY <2>1, RankType
  <2>. QED  BY <2>2 DEF Kept
<1>2. v.params = raw.params /\ v.sql = raw.sql /\ v.style = raw.style
  BY DEF ParseView
<1>3. v.columns = [i \in 1..Cardinality(at) |-> v.columns[i]]
  BY <1>1 DEF ParseView
<1>4. IsSeq(v.columns)
  <2>. HIDE DEF v, at
  <2>. QED  BY <1>1, <1>3, IntervalIsSequence
<1>. QED  BY <1>2, <1>4 DEF DefinitionOk

-------------------------------------------------------------------------------
(* Reading *)

LEMMA PlaceOf ==
    ASSUME NEW p
    PROVE  p \in Places <=>
               /\ p = <<p[1], p[2]>>
               /\ p[1] \in DOMAIN Files
               /\ p[2] \in DOMAIN Files[p[1]].entries
BY DEF Places

LEMMA EntryOk ==
    ASSUME InputOk(input), NEW f \in DOMAIN Files
    PROVE  /\ Len(Files[f].entries) \in Nat
           /\ DOMAIN Files[f].entries = 1..Len(Files[f].entries)
           /\ \A e \in DOMAIN Files[f].entries : DefinitionOk(Files[f].entries[e].raw)
<1>1. FileOk(Files[f])
  BY FilesOk
<1>. QED  BY <1>1, SequenceDomain DEF FileOk

LEMMA FilesUnchanged ==
    ASSUME input' = input
    PROVE  Files' = Files /\ Places' = Places /\ \A p : At(p)' = At(p)
<1>1. Files' = Files
  BY DEF Files
<1>. QED  BY <1>1 DEF Places, At

\* The order of the places: p came before q.
LEMMA PlacesOrdered ==
    ASSUME InputOk(input), NEW p \in Places, NEW q \in Places
    PROVE  /\ p[1] \in Nat /\ p[2] \in Nat /\ p = <<p[1], p[2]>>
           /\ p = q \/ Earlier(p, q) \/ Earlier(q, p)
           /\ ~(Earlier(p, q) /\ Earlier(q, p)) /\ ~Earlier(p, p)
<1>1. p[1] \in DOMAIN Files /\ q[1] \in DOMAIN Files
  BY PlaceOf
<1>2. p[1] \in Nat /\ q[1] \in Nat
  BY <1>1, FilesOk
<1>3. p[2] \in Nat /\ q[2] \in Nat
  BY <1>1, PlaceOf, EntryOk
<1>4. p = <<p[1], p[2]>> /\ q = <<q[1], q[2]>>
  BY PlaceOf
<1>5. p[1] = q[1] /\ p[2] = q[2] => p = q
  BY <1>4
<1>. QED  BY <1>2, <1>3, <1>4, <1>5 DEF Earlier

-------------------------------------------------------------------------------
(* The views are sound definitions *)

LEMMA ViewsOkInit == Init => ViewsOk
<1> SUFFICES ASSUME Init  PROVE ViewsOk
  OBVIOUS
<1>1. InputOk(input)
  BY InputAssumption DEF Init
<1>2. views = [i \in 1..0 |-> views[i]]
  BY DEF Init
<1>3. IsSeq(views) /\ Len(views) = 0
  BY <1>2, IntervalIsSequence
<1>. QED  BY <1>1, <1>2, <1>3 DEF ViewsOk

LEMMA InputKept == [Next]_vars => input' = input
BY DEF Next, vars, NoCommand, NoConfig, NothingFound, StartLoad, BadFile, BadEntry, LoadEntry,
       NextFile, Check, MissingView, NothingEnabled, Select, Prepare, Execute, Show, Ended, Exit

\* Only two actions change the views.
LEMMA ViewsKept == [Next]_vars => views' = views \/ LoadEntry \/ Select
BY DEF Next, vars, NoCommand, NoConfig, NothingFound, StartLoad, BadFile, BadEntry,
       NextFile, Check, MissingView, NothingEnabled, Prepare, Execute, Show, Ended, Exit

\* Where an entry is read there is one.
LEMMA AtPlace ==
    ASSUME InputOk(input), ReadSound, AtEntry
    PROVE  /\ file \in DOMAIN Files /\ entry \in DOMAIN Files[file].entries
           /\ <<file, entry>> \in Places
           /\ DefinitionOk(Files[file].entries[entry].raw)
<1>1. file \in DOMAIN Files /\ entry \in Nat \ {0}
  BY FilesOk DEF ReadSound, AtEntry
<1>2. entry \in DOMAIN Files[file].entries
  BY <1>1, EntryOk DEF AtEntry
<1>. QED  BY <1>1, <1>2, EntryOk, PlaceOf

LEMMA ViewsOkStep == ViewsOk /\ ReadSound /\ [Next]_vars => ViewsOk'
<1> SUFFICES ASSUME ViewsOk, ReadSound, [Next]_vars  PROVE ViewsOk'
  OBVIOUS
<1>1. InputOk(input) /\ IsSeq(views) /\ \A i \in DOMAIN views : DefinitionOk(views[i])
  BY DEF ViewsOk
<1>2. InputOk(input')
  BY <1>1, InputKept
<1>3. CASE LoadEntry
  <2> DEFINE e == Files[file].entries[entry]
             others == {i \in DOMAIN views : views[i].key # e.key}
             kept == Kept(views, others)
             new == ParseView(e.key, e.raw)
  <2>1. DefinitionOk(new)
    BY <1>1, <1>3, AtPlace, ParsedOk DEF LoadEntry
  <2>2. IsSeq(kept) /\ \A i \in DOMAIN kept : DefinitionOk(kept[i])
    BY <1>1, KeptElements
  <2>3. views' = Append(kept, new)
    BY <1>3 DEF LoadEntry
  <2>. HIDE DEF kept, new
  <2>4. IsSeq(views')
    BY <2>2, <2>3, AppendSeq
  <2>5. ASSUME NEW i \in DOMAIN views'  PROVE DefinitionOk(views'[i])
    <3>1. i \in 1..Len(kept) \/ i = Len(kept) + 1
      BY <2>2, <2>3, AppendSeq, SequenceDomain
    <3>. QED  BY <2>1, <2>2, <2>3, <3>1, AppendSeq, SequenceDomain
  <2>. QED  BY <1>2, <2>4, <2>5 DEF ViewsOk
<1>4. CASE Select
  <2>1. Selected \in SUBSET (DOMAIN views)
    BY DEF Selected
  <2>2. views' = Kept(views, Selected)
    BY <1>4 DEF Select
  <2>3. IsSeq(views') /\ \A i \in DOMAIN views' : DefinitionOk(views'[i])
    BY <1>1, <2>1, <2>2, KeptElements
  <2>. QED  BY <1>2, <2>3 DEF ViewsOk
<1>5. CASE views' = views
  BY <1>1, <1>2, <1>5 DEF ViewsOk
<1>. QED  BY <1>3, <1>4, <1>5, ViewsKept

-------------------------------------------------------------------------------
(* What has been read is sound *)

LEMMA ReadSoundInit == Init => ReadSound
BY DEF Init, ReadSound

\* Reading an entry adds its place, all the places read before come earlier.
LEMMA ReadNext ==
    ASSUME InputOk(input), ReadSound, AtEntry
    PROVE  /\ <<file, entry>> \notin Read
           /\ \A p \in Read : Earlier(p, <<file, entry>>) /\ p \in Places
           /\ \A p \in Places : (p[1] < file \/ (p[1] = file /\ p[2] < entry + 1)) <=>
                 p \in Read \/ p = <<file, entry>>
<1>1. file \in Nat /\ entry \in Nat
  BY AtPlace, FilesOk, EntryOk
<1>2. \A p \in Places : p[1] \in Nat /\ p[2] \in Nat /\ p = <<p[1], p[2]>>
  BY PlacesOrdered
<1>3. ASSUME NEW p \in Places
      PROVE  (p[1] < file \/ (p[1] = file /\ p[2] < entry + 1)) <=>
                p \in Read \/ p = <<file, entry>>
  <2>1. p = <<file, entry>> <=> p[1] = file /\ p[2] = entry
    BY <1>2
  <2>. QED  BY <1>1, <1>2, <2>1 DEF Read
<1>. QED  BY <1>1, <1>2, <1>3 DEF Read, Earlier

\* Behind its last entry the file has been read.
LEMMA FileDone ==
    ASSUME InputOk(input), ReadSound, NextFile
    PROVE  Read' = Read
<1>1. Places' = Places /\ file' = file + 1 /\ entry' = 1
  BY FilesUnchanged DEF NextFile
<1>2. file \in DOMAIN Files /\ file \in Nat /\ entry \in Nat /\ entry > Len(Files[file].entries)
  BY FilesOk DEF NextFile, ReadSound
<1>3. ASSUME NEW p \in Places
      PROVE  (p[1] < file + 1 \/ (p[1] = file + 1 /\ p[2] < 1)) <=>
                 (p[1] < file \/ (p[1] = file /\ p[2] < entry))
  <2>1. p[1] \in DOMAIN Files /\ p[2] \in DOMAIN Files[p[1]].entries
    BY PlaceOf
  <2>2. p[1] \in Nat /\ p[2] \in Nat \ {0} /\ p[2] <= Len(Files[p[1]].entries)
    BY <2>1, FilesOk, EntryOk
  <2>3. p[1] = file => p[2] < entry
    BY <1>2, <2>2, EntryOk
  <2>. QED  BY <1>2, <2>2, <2>3
<1>. QED  BY <1>1, <1>3 DEF Read

LEMMA ReadSoundStep == ViewsOk /\ ReadSound /\ [Next]_vars => ReadSound'
<1> SUFFICES ASSUME ViewsOk, ReadSound, [Next]_vars  PROVE ReadSound'
  OBVIOUS
<1>1. InputOk(input) /\ input' = input
  BY InputKept DEF ViewsOk
<1>2. Files' = Files /\ Places' = Places /\ \A p : At(p)' = At(p)
  BY <1>1, FilesUnchanged
<1>3. CASE StartLoad
  <2>1. file' = 1 /\ entry' = 1 /\ stage' = "load"
    BY <1>3 DEF StartLoad, ReadSound
  <2>2. Len(Files) \in Nat /\ DOMAIN Files = 1..Len(Files)
    BY <1>1, FilesOk
  <2>3. Read' = {}
    <3>1. \A p \in Places : p[1] \in Nat \ {0} /\ p[2] \in Nat \ {0}
      BY <1>1, <2>2, PlaceOf, EntryOk
    <3>. QED  BY <1>2, <2>1, <3>1 DEF Read
  <2>4. 1 \in DOMAIN Files => Len(Files[1].entries) \in Nat
    BY <1>1, EntryOk
  <2>5. \A f \in DOMAIN Files : ~(f < 1)
    BY <2>2
  <2>. QED  BY <1>2, <2>1, <2>2, <2>3, <2>4, <2>5 DEF ReadSound
<1>4. CASE LoadEntry
  <2>1. AtEntry /\ file' = file /\ entry' = entry + 1 /\ stage = "load" /\ stage' = "load"
    BY <1>4 DEF LoadEntry, AtEntry
  <2>2. /\ file \in 1..(Len(Files) + 1) /\ file \in DOMAIN Files /\ entry \in Nat \ {0}
        /\ entry \in DOMAIN Files[file].entries /\ Files[file].kind = "mapping"
    BY <1>1, <2>1, AtPlace DEF AtEntry, ReadSound
  <2>3. entry + 1 \in Nat \ {0} /\ entry + 1 <= Len(Files[file].entries) + 1
    BY <1>1, <2>2, EntryOk
  <2>4. \A f \in DOMAIN Files : f < file \/ (f = file /\ entry + 1 > 1) => Files[f].kind = "mapping"
    BY <2>1, <2>2 DEF ReadSound
  <2>5. \A p \in Read' : p \in Read \/ p = <<file, entry>>
    BY <1>1, <1>2, <2>1, ReadNext DEF Read
  <2>6. ~Refused(At(<<file, entry>>).raw)
    BY <1>4 DEF LoadEntry, At
  <2>7. \A p \in Read' : ~Refused(At(p).raw)
    BY <2>1, <2>5, <2>6 DEF ReadSound
  <2>. QED  BY <1>2, <2>1, <2>2, <2>3, <2>4, <2>7 DEF ReadSound
<1>5. CASE NextFile
  <2>1. file' = file + 1 /\ entry' = 1 /\ stage = "load" /\ stage' = "load"
    BY <1>5 DEF NextFile
  <2>2. /\ Len(Files) \in Nat /\ DOMAIN Files = 1..Len(Files)
        /\ file \in DOMAIN Files /\ entry \in Nat \ {0}
        /\ entry > Len(Files[file].entries) /\ Files[file].kind = "mapping"
    BY <1>1, <1>5, <2>1, FilesOk DEF NextFile, ReadSound
  <2>3. file + 1 \in 1..(Len(Files) + 1)
    BY <2>2
  <2>4. file + 1 \in DOMAIN Files => 1 <= Len(Files[file + 1].entries) + 1
    BY <1>1, EntryOk
  <2>5. \A f \in DOMAIN Files : f < file + 1 \/ (f = file + 1 /\ 1 > 1) => Files[f].kind = "mapping"
    BY <2>1, <2>2 DEF ReadSound
  <2>6. Read' = Read
    BY <1>1, <1>5, FileDone
  <2>. QED  BY <1>2, <2>1, <2>3, <2>4, <2>5, <2>6 DEF ReadSound
<1>6. CASE UNCHANGED vars
  BY <1>2, <1>6 DEF vars, ReadSound, Read
<1>7. CASE stage' \notin {"start", "load"}
  BY <1>7 DEF ReadSound
<1>. QED  BY <1>3, <1>4, <1>5, <1>6, <1>7 DEF Next, NoCommand, NoConfig, NothingFound, BadFile,
              BadEntry, Check, MissingView, NothingEnabled, Select, Prepare, Execute, Show, Ended, Exit

-------------------------------------------------------------------------------
(* The views are the latest definitions *)

LEMMA ParsedFields ==
    ASSUME NEW p
    PROVE  /\ Parsed(p).key = At(p).key /\ Parsed(p).enable = At(p).raw.enable
           /\ Parsed(p) = ParseView(At(p).key, At(p).raw)
BY DEF Parsed, ParseView

LEMMA PlacesUnchanged ==
    ASSUME input' = input
    PROVE  /\ \A p : Parsed(p)' = Parsed(p) /\ IsLast(p)' = IsLast(p)
           /\ \A key : LastOf(key)' = LastOf(key)
           /\ AllSound' = AllSound
<1>1. Files' = Files /\ Places' = Places /\ \A p : At(p)' = At(p)
  BY FilesUnchanged
<1>2. \A p : Parsed(p)' = Parsed(p)
  BY <1>1 DEF Parsed
<1>3. \A p : IsLast(p)' = IsLast(p)
  BY <1>1 DEF IsLast
<1>4. \A key : LastOf(key)' = LastOf(key)
  BY <1>1, <1>3 DEF LastOf
<1>5. AllSound' = AllSound
  BY <1>1 DEF AllSound
<1>. QED  BY <1>2, <1>3, <1>4, <1>5

\* The entry that is read becomes the latest of its key, for the other keys nothing
\* changes.
LEMMA LatestNext ==
    ASSUME InputOk(input), ReadSound, AtEntry, input' = input,
           file' = file, entry' = entry + 1,
           NEW z, z = <<file, entry>>
    PROVE  /\ z \in Latest' /\ z \notin Latest
           /\ \A p : p # z => (p \in Latest' <=> p \in Latest /\ At(p).key # At(z).key)
<1>1. Files' = Files /\ Places' = Places /\ \A p : At(p)' = At(p)
  BY FilesUnchanged
<1>2. z \in Places /\ z \notin Read /\ \A p \in Read : Earlier(p, z) /\ p \in Places
  BY AtPlace, ReadNext
<1>3. Read' = Read \cup {z}
  <2>1. \A p \in Places : p \in Read' <=> p \in Read \/ p = z
    BY <1>1, ReadNext DEF Read
  <2>2. \A p \in Read' : p \in Places
    BY <1>1 DEF Read
  <2>. QED  BY <1>2, <2>1, <2>2
<1>4. Latest' = {p \in Read' : \A q \in Read' : At(q).key = At(p).key => q = p \/ Earlier(q, p)}
  BY <1>1 DEF Latest, Earlier
<1>5. \A p \in Read : ~Earlier(z, p)
  BY <1>2, PlacesOrdered
<1>. QED  BY <1>2, <1>3, <1>4, <1>5 DEF Latest

LEMMA LatestLoadedInit == Init => LatestLoaded
BY DEF Init, LatestLoaded

\* Before the first entry there is nothing.
LEMMA LatestLoadedStart ==
    ASSUME InputOk(input), ReadSound, StartLoad
    PROVE  LatestLoaded'
<1>1. file' = 1 /\ entry' = 1 /\ views' = <<>>
  BY DEF StartLoad, ReadSound
<1>2. Files' = Files /\ Places' = Places
  BY FilesUnchanged DEF StartLoad
<1>3. Latest' = {}
  <2>1. \A p \in Places : ~(p[1] < 1 \/ (p[1] = 1 /\ p[2] < 1))
    BY PlaceOf, FilesOk, EntryOk
  <2>. QED  BY <1>1, <1>2, <2>1 DEF Read, Latest
<1>4. DOMAIN views' = {}
  BY <1>1
<1>. QED  BY <1>3, <1>4 DEF LatestLoaded

\* Removing the view an entry overrides and appending it at the end is right.
LEMMA LatestLoadedEntry ==
    ASSUME ViewsOk, ReadSound, LatestLoaded, LoadEntry
    PROVE  LatestLoaded'
<1> DEFINE z == <<file, entry>>
           e == Files[file].entries[entry]
           others == {i \in DOMAIN views : views[i].key # e.key}
           kept == Kept(views, others)
           n == Len(kept)
<1>1. /\ InputOk(input) /\ input' = input /\ IsSeq(views)
      /\ AtEntry /\ file' = file /\ entry' = entry + 1
      /\ stage = "load" /\ stage' = "load"
  BY DEF LoadEntry, AtEntry, ViewsOk
<1>2. At(z) = e
  BY DEF At
<1>3. views' = Append(kept, Parsed(z))
  BY <1>2, ParsedFields DEF LoadEntry
<1>4. /\ z \in Latest' /\ z \notin Latest
      /\ \A p : p # z => (p \in Latest' <=> p \in Latest /\ At(p).key # e.key)
  BY <1>1, <1>2, LatestNext
<1>5. /\ others \in SUBSET (DOMAIN views)
      /\ \A i \in DOMAIN views : i \in others <=> views[i].key # e.key
  OBVIOUS
<1>6. /\ \A p : Parsed(p).key = At(p).key
      /\ \A p : Parsed(p)' = Parsed(p) /\ At(p)' = At(p)
  BY <1>1, ParsedFields, PlacesUnchanged, FilesUnchanged
<1>7. \A p \in Latest : Earlier(p, z)
  BY <1>1, ReadNext DEF Latest
<1>. HIDE DEF e, others, z
<1>8. /\ IsSeq(kept) /\ n \in Nat /\ n = Cardinality(others)
      /\ \A k \in 1..n : Nth(others, k) \in others /\ kept[k] = views[Nth(others, k)]
      /\ \A i \in others : Rank(others, i) \in 1..n /\ kept[Rank(others, i)] = views[i]
  BY <1>1, <1>5, KeptElements, SequenceDomain
<1>9. \A k, l \in 1..n : k < l => Nth(others, k) < Nth(others, l)
  <2>1. Len(views) \in Nat /\ others \in SUBSET (1..Len(views))
    BY <1>1, <1>5, SequenceDomain
  <2>. QED  BY <1>8, <2>1, NthGrows
<1>. HIDE DEF kept
<1>10. /\ DOMAIN views' = 1..(n + 1) /\ views'[n + 1] = Parsed(z)
       /\ \A k \in 1..n : views'[k] = views[Nth(others, k)] /\ views'[k].key # e.key
  BY <1>3, <1>5, <1>8, AppendSeq
<1>11. \A p \in Latest' : \E i \in DOMAIN views' : views'[i] = Parsed(p)
  <2> SUFFICES ASSUME NEW p \in Latest'  PROVE \E i \in DOMAIN views' : views'[i] = Parsed(p)
    OBVIOUS
  <2>1. CASE p = z
    BY <1>8, <1>10, <2>1
  <2>2. CASE p # z
    <3>1. p \in Latest /\ Parsed(p).key # e.key
      BY <1>4, <1>6, <2>2
    <3>2. PICK i \in DOMAIN views : views[i] = Parsed(p)
      BY <1>1, <3>1 DEF LatestLoaded
    <3>3. i \in others
      BY <1>5, <3>1, <3>2
    <3>4. /\ Rank(others, i) \in 1..n
          /\ views'[Rank(others, i)] = views[i]
      BY <1>3, <1>8, <3>3, AppendSeq
    <3>. QED  BY <1>8, <1>10, <3>2, <3>4
  <2>. QED  BY <2>1, <2>2
<1>12. ASSUME NEW k \in 1..n
       PROVE  /\ Nth(others, k) \in DOMAIN views
              /\ \E p \in Latest' : p # z /\ p \in Latest /\ views'[k] = Parsed(p)
  <2>1. Nth(others, k) \in DOMAIN views
    BY <1>5, <1>8
  <2>2. PICK p \in Latest : views[Nth(others, k)] = Parsed(p)
    BY <1>1, <2>1 DEF LatestLoaded
  <2>3. At(p).key # e.key /\ p # z
    BY <1>2, <1>6, <1>10, <2>2
  <2>. QED  BY <1>4, <1>10, <2>1, <2>2, <2>3
<1>13. \A i \in DOMAIN views' : \E p \in Latest' : views'[i] = Parsed(p)
  <2> SUFFICES ASSUME NEW i \in 1..(n + 1)  PROVE \E p \in Latest' : views'[i] = Parsed(p)
    BY <1>10
  <2>. QED  BY <1>4, <1>8, <1>10, <1>12
<1>14. ASSUME NEW i \in DOMAIN views', NEW j \in DOMAIN views', i < j,
              NEW p \in Latest', NEW q \in Latest',
              At(p).key = views'[i].key, At(q).key = views'[j].key
       PROVE  Earlier(p, q)
  <2>1. i \in 1..n /\ j \in 1..(n + 1)
    BY <1>8, <1>10, <1>14
  <2>2. p \in Latest /\ p # z
    BY <1>2, <1>4, <1>10, <1>14, <2>1
  <2>3. CASE j = n + 1
    <3>1. q = z
      BY <1>2, <1>4, <1>6, <1>10, <1>14, <2>3
    <3>. QED  BY <1>7, <2>2, <3>1
  <2>4. CASE j # n + 1
    <3>1. j \in 1..n
      BY <1>8, <2>1, <2>4
    <3>2. q \in Latest
      BY <1>2, <1>4, <1>10, <1>14, <3>1
    <3>3. Nth(others, i) < Nth(others, j)
      BY <1>9, <1>14, <2>1, <3>1
    <3>4. /\ Nth(others, i) \in DOMAIN views /\ Nth(others, j) \in DOMAIN views
          /\ At(p).key = views[Nth(others, i)].key /\ At(q).key = views[Nth(others, j)].key
      BY <1>10, <1>12, <1>14, <2>1, <3>1
    <3>. QED  BY <1>1, <2>2, <3>2, <3>3, <3>4 DEF LatestLoaded
  <2>. QED  BY <2>3, <2>4
<1>. QED  BY <1>6, <1>11, <1>13, <1>14 DEF LatestLoaded, Earlier

\* Going to the next file overrides nothing.
LEMMA LatestLoadedNextFile ==
    ASSUME InputOk(input), ReadSound, LatestLoaded, NextFile
    PROVE  LatestLoaded'
<1>1. input' = input /\ views' = views /\ stage = "load"
  BY DEF NextFile
<1>2. Read' = Read
  BY FileDone
<1>3. /\ \A p : Parsed(p)' = Parsed(p) /\ At(p)' = At(p)
  BY <1>1, PlacesUnchanged, FilesUnchanged
<1>4. Latest' = Latest
  BY <1>2, <1>3 DEF Latest, Earlier
<1>. QED  BY <1>1, <1>3, <1>4 DEF LatestLoaded, Earlier

LEMMA LatestLoadedStep == ViewsOk /\ ReadSound /\ LatestLoaded /\ [Next]_vars => LatestLoaded'
<1> SUFFICES ASSUME ViewsOk, ReadSound, LatestLoaded, [Next]_vars  PROVE LatestLoaded'
  OBVIOUS
<1>1. InputOk(input)
  BY DEF ViewsOk
<1>2. CASE StartLoad
  BY <1>1, <1>2, LatestLoadedStart
<1>3. CASE LoadEntry
  BY <1>3, LatestLoadedEntry
<1>4. CASE NextFile
  BY <1>1, <1>4, LatestLoadedNextFile
<1>5. CASE UNCHANGED vars
  <2>1. /\ stage' = stage /\ views' = views /\ file' = file /\ entry' = entry /\ input' = input
    BY <1>5 DEF vars
  <2>2. /\ Places' = Places /\ \A p : Parsed(p)' = Parsed(p) /\ At(p)' = At(p)
    BY <2>1, PlacesUnchanged, FilesUnchanged
  <2>3. Latest' = Latest
    BY <2>1, <2>2 DEF Latest, Read, Earlier
  <2>. QED  BY <2>1, <2>2, <2>3 DEF LatestLoaded, Earlier
<1>6. CASE stage' # "load"
  BY <1>6 DEF LatestLoaded
<1>. QED  BY <1>2, <1>3, <1>4, <1>5, <1>6 DEF Next, NoCommand, NoConfig, NothingFound, BadFile,
              BadEntry, Check, MissingView, NothingEnabled, Select, Prepare, Execute, Show, Ended, Exit

-------------------------------------------------------------------------------
(* The views a run starts with *)

\* Once everything is read, the latest definitions are the last ones.
LEMMA AllRead ==
    ASSUME InputOk(input), ReadSound, Loaded
    PROVE  /\ AllSound
           /\ \A p : p \in Latest <=> p \in Places /\ IsLast(p)
           /\ \A p \in Latest : LastOf(At(p).key) = p
<1>1. /\ \A f \in DOMAIN Files : f < file
      /\ \A f \in DOMAIN Files : Files[f].kind = "mapping"
      /\ \A p \in Read : ~Refused(At(p).raw)
  BY FilesOk DEF ReadSound, Loaded
<1>2. Read = Places
  BY <1>1, PlaceOf DEF Read
<1>3. \A p : p \in Latest <=> p \in Places /\ IsLast(p)
  BY <1>2 DEF Latest, IsLast
<1>4. ASSUME NEW p \in Latest  PROVE LastOf(At(p).key) = p
  <2> DEFINE key == At(p).key
  <2>1. p \in Places /\ At(p).key = key /\ IsLast(p)
    BY <1>3
  <2>2. LastOf(key) \in Places /\ At(LastOf(key)).key = key /\ IsLast(LastOf(key))
    BY <2>1 DEF LastOf
  <2>. HIDE DEF key
  <2>3. (LastOf(key) = p \/ Earlier(LastOf(key), p)) /\ (p = LastOf(key) \/ Earlier(p, LastOf(key)))
    BY <2>1, <2>2 DEF IsLast
  <2>4. LastOf(key) = p
    BY <2>1, <2>2, <2>3, PlacesOrdered
  <2>. QED  BY <2>4 DEF key
<1>. QED  BY <1>1, <1>2, <1>3, <1>4 DEF AllSound

\* The views --views and enable choose, in terms of the last definitions.
LEMMA SelectedViews ==
    ASSUME ViewsOk, ReadSound, LatestLoaded, Loaded,
           NEW chosen, chosen = Kept(views, Selected)
    PROVE  /\ {chosen[k].key : k \in DOMAIN chosen} = {At(place).key : place \in {p \in Places :
                  /\ IsLast(p) /\ At(p).raw.enable
                  /\ input.wanted = AllViews \/ At(p).key \in input.wanted}}
           /\ \A k \in DOMAIN chosen :
                  chosen[k] = ParseView(chosen[k].key, At(LastOf(chosen[k].key)).raw)
           /\ \A k, l \in DOMAIN chosen :
                  k < l => Earlier(LastOf(chosen[k].key), LastOf(chosen[l].key))
<1> DEFINE asked(key) == input.wanted = AllViews \/ key \in input.wanted
           last == {p \in Places : IsLast(p) /\ At(p).raw.enable /\ asked(At(p).key)}
           n == Cardinality(Selected)
<1>1. InputOk(input) /\ IsSeq(views) /\ stage = "load"
  BY DEF ViewsOk, Loaded
<1>2. Selected \in SUBSET (DOMAIN views)
  BY DEF Selected
<1>3. /\ DOMAIN chosen = 1..n
      /\ \A k \in 1..n : Nth(Selected, k) \in Selected /\ chosen[k] = views[Nth(Selected, k)]
      /\ \A i \in Selected : Rank(Selected, i) \in 1..n /\ chosen[Rank(Selected, i)] = views[i]
  BY <1>1, <1>2, KeptElements
<1>4. \A k, l \in 1..n : k < l => Nth(Selected, k) < Nth(Selected, l)
  <2>1. Len(views) \in Nat /\ Selected \in SUBSET (1..Len(views))
    BY <1>1, <1>2, SequenceDomain
  <2>. QED  BY <2>1, NthGrows
<1>5. \A i \in DOMAIN views :
          i \in Selected <=> views[i].enable /\ asked(views[i].key)
  BY DEF Selected, Wanted, Keys
<1>6. ASSUME NEW i \in DOMAIN views
      PROVE  \E p \in Latest : views[i] = Parsed(p) /\ LastOf(views[i].key) = p
  BY <1>1, ParsedFields, AllRead DEF LatestLoaded
<1>7. ASSUME NEW k \in 1..n
      PROVE  /\ \E p \in last : chosen[k] = Parsed(p) /\ At(p).key = chosen[k].key
             /\ chosen[k] = ParseView(chosen[k].key, At(LastOf(chosen[k].key)).raw)
  <2>1. Nth(Selected, k) \in Selected /\ Nth(Selected, k) \in DOMAIN views
    BY <1>2, <1>3
  <2>2. PICK p \in Latest : chosen[k] = Parsed(p) /\ LastOf(chosen[k].key) = p
    BY <1>3, <1>6, <2>1
  <2>3. chosen[k].key = At(p).key /\ chosen[k].enable = At(p).raw.enable
    BY <2>2, ParsedFields
  <2>4. chosen[k].enable /\ asked(chosen[k].key)
    BY <1>3, <1>5, <2>1
  <2>5. p \in Places /\ IsLast(p)
    BY <1>1, AllRead
  <2>. QED  BY <2>2, <2>3, <2>4, <2>5, ParsedFields
<1>8. ASSUME NEW p \in last
      PROVE  \E k \in 1..n : chosen[k].key = At(p).key
  <2>1. p \in Latest
    BY <1>1, AllRead
  <2>2. PICK i \in DOMAIN views : views[i] = Parsed(p)
    BY <1>1, <2>1 DEF LatestLoaded
  <2>3. i \in Selected /\ views[i].key = At(p).key
    BY <1>5, <2>2, ParsedFields
  <2>. QED  BY <1>3, <2>3
<1>9. ASSUME NEW k \in 1..n, NEW l \in 1..n, k < l
      PROVE  Earlier(LastOf(chosen[k].key), LastOf(chosen[l].key))
  <2> DEFINE i == Nth(Selected, k)
             j == Nth(Selected, l)
  <2>1. i \in DOMAIN views /\ j \in DOMAIN views /\ i < j /\ chosen[k] = views[i] /\ chosen[l] = views[j]
    BY <1>2, <1>3, <1>4, <1>9
  <2>. HIDE DEF i, j
  <2>2. PICK p \in Latest : views[i] = Parsed(p) /\ LastOf(views[i].key) = p
    BY <1>6, <2>1
  <2>3. PICK q \in Latest : views[j] = Parsed(q) /\ LastOf(views[j].key) = q
    BY <1>6, <2>1
  <2>4. At(p).key = views[i].key /\ At(q).key = views[j].key
    BY <2>2, <2>3, ParsedFields
  <2>. QED  BY <1>1, <2>1, <2>2, <2>3, <2>4 DEF LatestLoaded
<1>10. {chosen[k].key : k \in DOMAIN chosen} = {At(p).key : p \in last}
  <2>. HIDE DEF last
  <2>. QED  BY <1>3, <1>7, <1>8
<1>. QED  BY <1>3, <1>7, <1>9, <1>10

\* Only Select starts a run.
LEMMA LastDefinitionWinsStep ==
    ViewsOk /\ ReadSound /\ LatestLoaded /\ LastDefinitionWins /\ [Next]_vars => LastDefinitionWins'
<1> SUFFICES ASSUME ViewsOk, ReadSound, LatestLoaded, LastDefinitionWins, [Next]_vars
             PROVE  LastDefinitionWins'
  OBVIOUS
<1>1. InputOk(input) /\ input' = input
  BY InputKept DEF ViewsOk
<1>2. /\ Places' = Places /\ AllSound' = AllSound
      /\ \A p : At(p)' = At(p) /\ IsLast(p)' = IsLast(p)
      /\ \A key : LastOf(key)' = LastOf(key)
  BY <1>1, FilesUnchanged, PlacesUnchanged
<1>3. CASE Select
  <2>1. Loaded /\ views' = Kept(views, Selected)
    BY <1>3 DEF Select
  <2>2. AllSound
    BY <1>1, <2>1, AllRead
  <2> DEFINE last == {p \in Places :
                         /\ IsLast(p) /\ At(p).raw.enable
                         /\ input.wanted = AllViews \/ At(p).key \in input.wanted}
             keys == {At(place).key : place \in last}
  <2>3. last' = last
    BY <1>1, <1>2
  <2>4. keys' = keys
    <3>. HIDE DEF last
    <3>. QED  BY <1>2, <2>3
  <2>5. Keys' = keys
    BY <2>1, SelectedViews DEF Keys
  <2>6. \A k \in DOMAIN views' :
            views'[k] = ParseView(views'[k].key, At(LastOf(views'[k].key)).raw)
    BY <2>1, SelectedViews
  <2>7. \A k, l \in DOMAIN views' :
            k < l => Earlier(LastOf(views'[k].key), LastOf(views'[l].key))
    BY <2>1, SelectedViews
  <2>8. Keys' = keys'
    BY <2>4, <2>5
  <2>. QED  BY <1>2, <2>2, <2>6, <2>7, <2>8 DEF LastDefinitionWins, Earlier
<1>4. CASE UNCHANGED vars
  <2>1. stage' = stage /\ views' = views /\ Keys' = Keys
    BY <1>4 DEF vars, Keys
  <2>. QED  BY <1>1, <1>2, <2>1 DEF LastDefinitionWins, Earlier
<1>5. CASE stage' # "ready"
  BY <1>5 DEF LastDefinitionWins
<1>. QED  BY <1>3, <1>4, <1>5 DEF Next, NoCommand, NoConfig, NothingFound, StartLoad, BadFile,
              BadEntry, LoadEntry, NextFile, Check, MissingView, NothingEnabled, Prepare, Execute,
              Show, Ended, Exit, AtEntry

-------------------------------------------------------------------------------
(* The invariant *)

\* What a view sends depends on the input alone.
LEMMA QueriesUnchanged ==
    ASSUME input' = input
    PROVE  \A v : Query(v)' = Query(v)
<1>1. Overrides' = Overrides
  BY DEF Overrides
<1>2. \A p : CliValue(p)' = CliValue(p) /\ Asked(p)' = Asked(p)
  BY <1>1 DEF CliValue, Asked
<1>3. \A v : HasDialog(v)' = HasDialog(v)
  BY <1>2 DEF HasDialog
<1>4. \A v, p : TuiValue(v, p)' = TuiValue(v, p)
  BY <1>2, <1>3 DEF TuiValue
<1>5. \A v, name : ValueOf(v, name)' = ValueOf(v, name)
  BY <1>2, <1>4 DEF ValueOf
<1>. QED  BY <1>5 DEF Query

LEMMA ComputedStep == Computed /\ [Next]_vars => Computed'
<1> SUFFICES ASSUME Computed, [Next]_vars  PROVE Computed'
  OBVIOUS
<1>0. \A v : Query(v)' = Query(v)
  BY InputKept, QueriesUnchanged
<1>1. CASE Prepare
  BY <1>0, <1>1 DEF Prepare, Computed
<1>2. CASE Execute
  BY <1>0, <1>2 DEF Execute, Computed
<1>3. CASE Show
  BY <1>3 DEF Show, Computed
<1>4. CASE UNCHANGED vars
  BY <1>0, <1>4 DEF vars, Computed
<1>5. CASE stage' \notin {"prepared", "executed", "shown"}
  BY <1>5 DEF Computed
<1>. QED  BY <1>1, <1>2, <1>3, <1>4, <1>5 DEF Next, NoCommand, NoConfig, NothingFound, StartLoad,
              BadFile, BadEntry, LoadEntry, NextFile, Check, MissingView, NothingEnabled, Select,
              Ended, Exit, AtEntry

\* The inductive invariant holds, whatever the files say.
THEOREM Invariance == Spec => []IInv
<1>1. Init => IInv
  BY ViewsOkInit, ReadSoundInit, LatestLoadedInit DEF IInv, Init, LastDefinitionWins, Computed
<1>2. IInv /\ [Next]_vars => IInv'
  BY ViewsOkStep, ReadSoundStep, LatestLoadedStep, LastDefinitionWinsStep, ComputedStep DEF IInv
<1>. QED  BY <1>1, <1>2, PTL DEF Spec

\* A run has the views whose last definition is enabled and asked for, in the order of
\* the last definitions, and only if every definition is sound (parser.py:144-168,
\* cli.py:140-153).
THEOREM OverridesWin == Spec => []LastDefinitionWins
BY Invariance, PTL DEF IInv

-------------------------------------------------------------------------------
(* Parameters *)

\* Max finds the greatest position.
LEMMA GreatestElement ==
    ASSUME NEW n \in Nat, NEW S \in SUBSET (0..n), S # {}
    PROVE  Max(S) \in S /\ \A x \in S : x <= Max(S)
<1> DEFINE T == {n - x : x \in S}
<1>1. T \in SUBSET Nat /\ T # {}
  <2>1. \A x \in S : n - x \in Nat
    OBVIOUS
  <2>2. \A t \in T : t \in Nat
    BY <2>1
  <2>3. T # {}
    OBVIOUS
  <2>. QED  BY <2>2, <2>3
<1>. HIDE DEF T
<1>2. PICK t \in T : \A m \in T : t <= m
  BY <1>1, LeastElement
<1>3. PICK x \in S : t = n - x
  BY DEF T
<1>4. ASSUME NEW y \in S  PROVE x >= y
  <2>1. n - y \in T
    BY DEF T
  <2>. QED  BY <1>2, <1>3, <2>1
<1>5. Max(S) \in S /\ \A y \in S : Max(S) >= y
  BY <1>4 DEF Max
<1>. QED  BY <1>5

\* What is sent for a parameter is what was said of it, unless a dialog hid that.
LEMMA SaidValue ==
    ASSUME input.mode \in {"cli", "tui"}, NEW v, NEW p, p.default \in Defaults, ~Hidden(v, p)
    PROVE  (IF input.mode = "tui" THEN TuiValue(v, p) ELSE CliValue(p)) = Said(p)
<1>1. CliValue(p) = Said(p)
  BY DEF CliValue, Default, Said
<1>2. CASE input.mode = "tui" /\ HasDialog(v)
  <2>1. CASE Asked(p)
    BY <1>2, <2>1 DEF TuiValue, Said, Asked
  <2>2. CASE ~Asked(p)
    BY <1>2, <2>2 DEF TuiValue, Said, Asked, Hidden, Defaults
  <2>. QED  BY <2>1, <2>2
<1>3. CASE ~(input.mode = "tui" /\ HasDialog(v))
  BY <1>1, <1>3 DEF TuiValue
<1>. QED  BY <1>2, <1>3

\* The value for every placeholder is what was said of its parameter.
ValuesSaid(v, values) ==
    \A j \in Placeholders(v.sql) :
        LET declared == ParamNamed(v, v.sql[j].n)
            last == v.params[Max(declared)]
            value == values[Cardinality(Before(v.sql, j, "placeholder")) + 1]
        IN  /\ declared = {} => value = "blank"
            /\ declared # {} /\ ~Hidden(v, last) => value = Said(last)

\* The text and the values one view sends.
LEMMA QuerySent ==
    ASSUME input.mode \in {"cli", "tui"}, NEW v, DefinitionOk(v)
    PROVE  /\ Query(v).sql = Rendered(v.sql)
           /\ Len(Query(v).values) = Len(Names(v.sql))
           /\ Len(Query(v).values) = Cardinality(Placeholders(v.sql))
           /\ ValuesSaid(v, Query(v).values)
<1> DEFINE names == Names(v.sql)
           values == [i \in DOMAIN names |-> ValueOf(v, names[i])]
           n == Cardinality(Placeholders(v.sql))
<1>1. IsSeq(v.sql)
  BY DEF DefinitionOk, IsText
<1>2. /\ IsSeq(names) /\ Len(names) = n /\ DOMAIN names = 1..n
      /\ \A j \in Placeholders(v.sql) :
            LET nth == Cardinality(Before(v.sql, j, "placeholder")) + 1
            IN  nth \in DOMAIN names /\ names[nth] = v.sql[j].n
  BY <1>1, NamesInOrder
<1>3. Query(v).sql = Rendered(v.sql) /\ Query(v).values = values
  BY DEF Query
<1>4. n \in Nat
  BY <1>2, SequenceDomain
<1>5. Len(values) = n
  <2>1. values = [i \in 1..n |-> values[i]]
    BY <1>2
  <2>. HIDE DEF values, n
  <2>. QED  BY <1>4, <2>1, IntervalIsSequence
<1>6. ASSUME NEW j \in Placeholders(v.sql),
             NEW declared, declared = ParamNamed(v, v.sql[j].n),
             NEW value, value = values[Cardinality(Before(v.sql, j, "placeholder")) + 1]
      PROVE  /\ declared = {} => value = "blank"
             /\ declared # {} /\ ~Hidden(v, v.params[Max(declared)]) =>
                    value = Said(v.params[Max(declared)])
  <2>1. value = ValueOf(v, v.sql[j].n)
    BY <1>2, <1>6
  <2>2. CASE declared = {}
    BY <1>6, <2>1, <2>2 DEF ValueOf
  <2>3. CASE declared # {}
    <3> DEFINE p == v.params[Max(declared)]
    <3>1. value = IF input.mode = "tui" THEN TuiValue(v, p) ELSE CliValue(p)
      BY <1>6, <2>1, <2>3 DEF ValueOf
    <3>2. Max(declared) \in DOMAIN v.params
      <4>1. Len(v.params) \in Nat /\ declared \in SUBSET (0..Len(v.params)) /\ declared \in SUBSET DOMAIN v.params
        BY <1>6, SequenceDomain DEF ParamNamed, DefinitionOk
      <4>. QED  BY <2>3, <4>1, GreatestElement
    <3>3. p.default \in Defaults
      BY <3>2 DEF DefinitionOk
    <3>. QED  BY <1>6, <2>3, <3>1, <3>3, SaidValue
  <2>. QED  BY <2>2, <2>3
<1>. QED  BY <1>2, <1>3, <1>5, <1>6 DEF ValuesSaid

\* Without induction: what the invariant says of texts and values is enough.
LEMMA BindsFollow == IInv => BindsAsSaid
<1> SUFFICES ASSUME IInv, stage = "executed", NEW i \in DOMAIN views, Regular(views[i].sql)
             PROVE  /\ finals[i] = Numbered(views[i].style, views[i].sql)
                    /\ Len(queries[i].values) = Cardinality(Placeholders(views[i].sql))
                    /\ ValuesSaid(views[i], queries[i].values)
  BY DEF BindsAsSaid, ValuesSaid, Placeholders
<1> DEFINE v == views[i]
<1>1. DefinitionOk(v) /\ input.mode \in {"cli", "tui"}
  BY DEF IInv, ViewsOk, InputOk
<1>2. queries[i] = Query(v)
  BY DEF IInv, Computed
<1>3. finals[i] = FinalSql(v.style, Rendered(v.sql), Len(Names(v.sql)))
  BY <1>1, <1>2, QuerySent DEF IInv, Computed
<1>4. finals[i] = Numbered(v.style, v.sql)
  BY <1>1, <1>3, RewritersCount DEF DefinitionOk
<1>. QED  BY <1>1, <1>2, <1>4, QuerySent

\* The i-th bind of a regular text is its i-th placeholder, and the value sent for it
\* is what the user said of the parameter of that name, for texts of any length and
\* any parameters (parser.py:174-178, pagination.go:11-40, placeholders.go:73-102,
\* cli.py:72-85, app.py:282-292).
THEOREM BindsFollowPlaceholders == Spec => []BindsAsSaid
BY Invariance, BindsFollow, PTL

-------------------------------------------------------------------------------
(* Cells *)

Named(columns, name) == {c \in DOMAIN columns : columns[c].field = name}
Alike(columns, name) == {c \in DOMAIN columns : columns[c].field.id = name.id}

\* The exact name finds the last column of that name.
LEMMA ExactRuleFound ==
    ASSUME NEW columns, IsSeq(columns), NEW name
    PROVE  /\ Named(columns, name) = {} => ExactRule(columns, name) = 0
           /\ Named(columns, name) # {} =>
                 /\ ExactRule(columns, name) = Max(Named(columns, name))
                 /\ ExactRule(columns, name) \in Named(columns, name)
<1> DEFINE named == Named(columns, name)
           n == Len(columns)
<1>1. n \in Nat /\ named \in SUBSET (1..n)
  BY SequenceDomain DEF Named
<1>2. ExactRule(columns, name) = Max({0} \cup named)
  BY DEF ExactRule, Named
<1>. HIDE DEF named, n
<1> DEFINE S == {0} \cup named
<1>3. /\ S \in SUBSET (0..n) /\ S # {} /\ S \in SUBSET Nat
      /\ named \in SUBSET (0..n) /\ named \in SUBSET Nat
  BY <1>1
<1>6. \A x \in S : x \in named \/ x = 0
  OBVIOUS
<1>7. named \in SUBSET S
  OBVIOUS
<1>. HIDE DEF S
<1>8. Max(S) \in S /\ \A x \in S : x <= Max(S)
  BY <1>1, <1>3, GreatestElement
<1>4. CASE named = {}
  BY <1>2, <1>4, <1>6, <1>8 DEF named, S
<1>5. CASE named # {}
  <2> DEFINE a == Max(S)
             b == Max(named)
  <2>1. b \in named /\ \A x \in named : x <= b
    BY <1>1, <1>3, <1>5, GreatestElement
  <2>2. a \in S /\ \A x \in S : x <= a
    BY <1>8
  <2>. HIDE DEF a, b
  <2>3. a \in Nat /\ b \in Nat \ {0} /\ b <= a
    BY <1>1, <1>3, <1>7, <2>1, <2>2
  <2>4. a \in named
    BY <1>6, <2>2, <2>3
  <2>5. a = b
    BY <2>1, <2>3, <2>4
  <2>. QED  BY <1>2, <1>5, <2>4, <2>5 DEF named, S, a, b
<1>. QED  BY <1>4, <1>5

\* The folded name finds a column that folds alike, if there is one.
LEMMA FoldedRuleFound ==
    ASSUME NEW columns, IsSeq(columns), NEW name
    PROVE  /\ Alike(columns, name) = {} => FoldedRule(columns, name) = 0
           /\ Alike(columns, name) # {} => FoldedRule(columns, name) \in Alike(columns, name)
<1> DEFINE alike == Alike(columns, name)
           first == {i \in alike : \A j \in 1..(i - 1) : columns[j].field # columns[i].field}
           n == Len(columns)
           m == Max(first)
<1>1. n \in Nat /\ DOMAIN columns = 1..n /\ alike \in SUBSET (1..n)
  BY SequenceDomain DEF Alike
<1>2. FoldedRule(columns, name) = IF alike = {} THEN 0 ELSE ExactRule(columns, columns[m].field)
  BY DEF FoldedRule, Alike
<1>3. ASSUME alike # {}  PROVE ExactRule(columns, columns[m].field) \in alike
  <2>1. alike \in SUBSET Nat
    BY <1>1
  <2>2. PICK i \in alike : \A j \in alike : i <= j
    <3>. HIDE DEF alike
    <3>. QED  BY <1>3, <2>1, LeastElement
  <2>3. i \in first
    <3>1. ASSUME NEW j \in 1..(i - 1)  PROVE columns[j].field # columns[i].field
      <4>1. i \in 1..n /\ j \in DOMAIN columns /\ j \notin alike
        BY <1>1, <2>2
      <4>. QED  BY <4>1 DEF Alike
    <3>. QED  BY <3>1
  <2>4. first \in SUBSET (0..n) /\ first # {}
    BY <1>1, <2>3
  <2>5. m \in first
    <3>. HIDE DEF first
    <3>. QED  BY <1>1, <2>4, GreatestElement
  <2>6. m \in alike /\ m \in DOMAIN columns
    BY <1>1, <2>5
  <2>. HIDE DEF m
  <2>7. m \in Named(columns, columns[m].field)
    BY <2>6 DEF Named
  <2>8. ExactRule(columns, columns[m].field) \in Named(columns, columns[m].field)
    BY <2>7, ExactRuleFound
  <2>. QED  BY <2>6, <2>8 DEF Named, Alike
<1>. QED  BY <1>2, <1>3

\* The columns a name may be configured by, and the one that is taken.
Fits(mode, columns, name) ==
    IF Named(columns, name) = {} /\ mode = "cli" THEN Alike(columns, name)
    ELSE Named(columns, name)

\* In either interface the rule is a column the name may be configured by.
LEMMA RuleFits ==
    ASSUME NEW mode \in {"cli", "tui"}, NEW columns, IsSeq(columns), NEW name
    PROVE  /\ Fits(mode, columns, name) = {} => Rule(mode, columns, name) = 0
           /\ Fits(mode, columns, name) # {} =>
                 /\ Rule(mode, columns, name) \in Fits(mode, columns, name)
                 /\ Rule(mode, columns, name) # 0
                 /\ Named(columns, name) # {} =>
                       Rule(mode, columns, name) = Max(Named(columns, name))
<1>1. 0 \notin Named(columns, name) /\ 0 \notin Alike(columns, name)
  BY SequenceDomain DEF Named, Alike
<1>2. CASE mode = "tui"
  BY <1>1, <1>2, ExactRuleFound DEF Fits, Rule, TuiRule
<1>3. CASE mode = "cli"
  BY <1>1, <1>3, ExactRuleFound, FoldedRuleFound DEF Fits, Rule, CliRule
<1>. QED  BY <1>2, <1>3

\* A key that names a value is the one the value is looked up by.
LEMMA KeyNames ==
    ASSUME NEW v, v.type \in Types, v.type = "int" => v.text = <<"int", v.text[2]>>, ~IsNull(v)
    PROVE  \A key : NamesValue(key, v) <=> key = EnumKey(v)
<1> DEFINE whole == v.text[2] % 10 = 0
<1>1. v.type \in {"bool", "int", "float", "str"}
  BY DEF IsNull, Types
<1>2. EnumKey(v) = IF v.type = "bool" THEN <<"int", v.text[2]>>
                   ELSE IF v.type = "float" /\ whole THEN <<"int", v.text[2]>> ELSE v.text
  BY DEF EnumKey
<1>3. \A key : NamesValue(key, v) <=>
          \/ key = v.text /\ v.type \in {"int", "str"}
          \/ key = v.text /\ v.type = "float" /\ ~whole
          \/ key = <<"int", v.text[2]>> /\ v.type \in {"bool", "int"}
          \/ key = <<"int", v.text[2]>> /\ v.type = "float" /\ whole
  BY DEF NamesValue
<1>. HIDE DEF whole
<1>. QED  BY <1>1, <1>2, <1>3

\* A cell shows what one column says.
Shows(cell, v, column) ==
    LET map == column.enumMap
        keys == {k \in DOMAIN map : ~IsNull(v) /\ NamesValue(k, v)}
    IN  /\ keys # {} => cell \in {map[k] : k \in keys}
        /\ keys = {} /\ DOMAIN map # {} => cell = Raw(v)
        /\ DOMAIN map = {} /\ column.converter = "" => cell = Raw(v)

\* FormatCell shows what one column says of any value.
LEMMA CellFormatted ==
    ASSUME NEW v, v.type \in Types, v.type = "int" => v.text = <<"int", v.text[2]>>, NEW column
    PROVE  Shows(FormatCell(v, column), v, column)
<1> DEFINE map == column.enumMap
           keys == {k \in DOMAIN map : ~IsNull(v) /\ NamesValue(k, v)}
<1>1. DOMAIN map # {} => FormatCell(v, column) = ApplyEnumMap(map, v)
  BY DEF FormatCell
<1>2. DOMAIN map = {} /\ column.converter = "" => FormatCell(v, column) = Raw(v)
  BY DEF FormatCell
<1>3. CASE IsNull(v)
  BY <1>1, <1>2, <1>3 DEF ApplyEnumMap, Shows
<1>4. CASE ~IsNull(v)
  <2>1. \A k \in DOMAIN map : k \in keys <=> k = EnumKey(v)
    BY <1>4, KeyNames
  <2>2. keys # {} => EnumKey(v) \in keys /\ EnumKey(v) \in DOMAIN map
    BY <2>1
  <2>3. keys = {} => EnumKey(v) \notin DOMAIN map
    BY <2>1
  <2>. QED  BY <1>1, <1>2, <1>4, <2>2, <2>3 DEF ApplyEnumMap, Shows
<1>. QED  BY <1>3, <1>4

\* The cells of an answer, from the columns and values they were computed from.
LEMMA CellsConfigured == IInv => CellsAsConfigured
<1> SUFFICES ASSUME IInv, stage = "shown", NEW i \in DOMAIN views,
                    NEW j \in DOMAIN input.row \cap DOMAIN input.names
             PROVE  LET columns == views[i].columns
                        named == Named(columns, input.names[j])
                        fits == Fits(input.mode, columns, input.names[j])
                    IN  /\ fits = {} => cells[i][j] = Raw(input.row[j])
                        /\ fits # {} => \E c \in fits :
                               /\ named # {} => c = Max(named)
                               /\ Shows(cells[i][j], input.row[j], columns[c])
  BY DEF CellsAsConfigured, Shows, Named, Alike, Fits
<1> DEFINE columns == views[i].columns
           v == input.row[j]
           cell == cells[i][j]
           name == input.names[j]
<1> DEFINE rule == Rule(input.mode, columns, name)
<1>1. /\ input.mode \in {"cli", "tui"} /\ IsSeq(columns)
      /\ v.type \in Types /\ (v.type = "int" => v.text = <<"int", v.text[2]>>)
  BY DEF IInv, ViewsOk, InputOk, DefinitionOk
<1>2. cell = IF rule = 0 THEN Raw(v) ELSE FormatCell(v, columns[rule])
  BY DEF IInv, Computed, CellsOf
<1>3. /\ Fits(input.mode, columns, name) = {} => rule = 0
      /\ Fits(input.mode, columns, name) # {} =>
             /\ rule \in Fits(input.mode, columns, name) /\ rule # 0
             /\ Named(columns, name) # {} => rule = Max(Named(columns, name))
  BY <1>1, RuleFits
<1>. HIDE DEF rule
<1>4. Shows(FormatCell(v, columns[rule]), v, columns[rule])
  BY <1>1, CellFormatted
<1>. QED  BY <1>2, <1>3, <1>4

\* A cell shows what the configuration of its column says, under any columns, names
\* and values (renderer.py:87-97, app.py:113-135, converters.py:91-125).
THEOREM CellsShowConfiguration == Spec => []CellsAsConfigured
BY Invariance, CellsConfigured, PTL
===============================================================================
