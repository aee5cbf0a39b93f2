--------------------------- MODULE LayeredConfig ---------------------------
(***************************************************************************)
(* Resolving settings from layers of TOML files: the central config of a   *)
(* project (resolve_config.py, four layers) or the customization of one    *)
(* skill (resolve_customization.py, the skill's defaults and two layers of *)
(* the project it is in).  Files are read from the lowest layer to the     *)
(* highest, each merged over what the ones before it gave.                 *)
(*                                                                         *)
(* A value is a scalar, a table or an array.  Items of an array are values *)
(* too; a table with a `code` or an `id` may stand for one entry that      *)
(* higher layers replace.                                                  *)
(***************************************************************************)
EXTENDS Naturals, Sequences, FiniteSetsExt, SequencesExt

CONSTANTS
    Paths,         \* the dotted paths that may be asked for, as sequences
    NoRoot         \* there is no project around a directory

ASSUME PathsAssumption == Paths \subseteq Seq(STRING)

VARIABLES
    layers,        \* the files to read, lowest first
    contents,      \* what the files read so far hold
    merged,        \* the tables merged so far
    resolvePhase   \* "load", then "merge", then "printed"; or "failed"

resolveVars == <<layers, contents, merged, resolvePhase>>

Scalar(v) == [scalar |-> v]
Table(f) == [table |-> f]
Array(s) == [array |-> s]
IsScalar(v) == "scalar" \in DOMAIN v
IsTable(v) == "table" \in DOMAIN v
IsArray(v) == "array" \in DOMAIN v
Empty == Table([k \in {} |-> 0])
Missing == [missing |-> TRUE]
Unreadable == [unreadable |-> TRUE]

-----------------------------------------------------------------------------
(* Merging.                                                                *)

\* The field that identifies the items: every item is a table that has it.
KeyField(items) ==
    LET shared == {f \in {"code", "id"} :
                      \A i \in DOMAIN items : IsTable(items[i]) /\ f \in DOMAIN items[i].table}
    IN  CASE items = <<>> \/ shared = {} -> "none"
          [] items # <<>> /\ "code" \in shared -> "code"
          [] OTHER -> "id"

\* Mutant: the items of the higher layer are only added.
AppendItems(base, over, field) == base \o over

\* An item replaces, where it stands, the last item with its key.
MergeByKey(base, over, field) ==
    LET Put(result, item) ==
            LET same == {i \in DOMAIN result : result[i].table[field] = item.table[field]}
            IN  IF same = {} THEN Append(result, item)
                ELSE [result EXCEPT ![Max(same)] = item]
    IN  FoldLeft(Put, base, over)

MergeArrays(base, over) ==
    LET field == KeyField(base \o over)
    IN  IF field = "none" THEN base \o over ELSE MergeByKey(base, over, field)

\* extract_key
Down(v, part) == IF IsTable(v) /\ part \in DOMAIN v.table THEN v.table[part] ELSE Missing
ExtractKey(data, key) ==
    LET current[n \in 0..Len(key)] == IF n = 0 THEN data ELSE Down(current[n - 1], key[n])
    IN  current[Len(key)]

\* Tables merge key by key, arrays by their shape; otherwise the higher value
\* takes the place of the lower.  The recursion goes down the path that the
\* two tables have in common.
DeepMerge(base, over) ==
    LET merge[path \in Seq(STRING)] ==
            LET b == ExtractKey(base, path)
                o == ExtractKey(over, path)
            IN  CASE IsTable(b) /\ IsTable(o) ->
                        Table([k \in DOMAIN b.table \cup DOMAIN o.table |->
                            CASE k \notin DOMAIN o.table -> b.table[k]
                              [] k \notin DOMAIN b.table -> o.table[k]
                              [] OTHER -> merge[Append(path, k)]])
                  [] IsArray(b) /\ IsArray(o) -> Array(MergeArrays(b.array, o.array))
                  [] OTHER -> o
    IN  merge[<<>>]

-----------------------------------------------------------------------------
(* The two scripts.                                                        *)

\* The nearest directory, from a start upwards, that has _bmad or .git.
FindProjectRoot(ancestors, marked) ==
    LET found == {i \in DOMAIN ancestors : ancestors[i] \in marked}
    IN  IF found = {} THEN NoRoot ELSE ancestors[Min(found)]

\* resolve_config: the project is given.
CentralLayers(base, custom, project) == base \o custom[project]

\* resolve_customization: the project around the skill, else around the
\* working directory, else the defaults alone.
SkillLayers(defaults, custom, skillDirs, workDirs, marked) ==
    LET own == FindProjectRoot(skillDirs, marked)
        root == IF own # NoRoot THEN own ELSE FindProjectRoot(workDirs, marked)
    IN  <<defaults>> \o (IF root = NoRoot THEN <<>> ELSE custom[root])

\* A file holds a table, or is missing, or does not parse or cannot be read.
\* The lowest layer is required; another that gives nothing is passed
\* over.
LoadRequired ==
    /\ resolvePhase = "load"
    /\ contents = <<>>
    /\ IF ~IsTable(layers[1])
       THEN resolvePhase' = "failed" /\ UNCHANGED contents
       ELSE contents' = <<layers[1]>> /\ UNCHANGED resolvePhase
    /\ UNCHANGED <<layers, merged>>

LoadLayer ==
    /\ resolvePhase = "load"
    /\ contents # <<>> /\ Len(contents) < Len(layers)
    /\ LET file == layers[Len(contents) + 1]
       IN  contents' = Append(contents, IF IsTable(file) THEN file ELSE Empty)
    /\ UNCHANGED <<layers, merged, resolvePhase>>

\* Each layer is merged over what those below it gave.
MergeAll(files) ==
    LET upTo[n \in 1..Len(files)] == IF n = 1 THEN files[1] ELSE DeepMerge(upTo[n - 1], files[n])
    IN  upTo[Len(files)]

MergeLayers ==
    /\ resolvePhase = "load"
    /\ Len(contents) = Len(layers)
    /\ merged' = MergeAll(contents)
    /\ resolvePhase' = "printed"
    /\ UNCHANGED <<layers, contents>>

ResolveNext == LoadRequired \/ LoadLayer \/ MergeLayers

ResolveInit(stacks) ==
    /\ layers \in stacks
    /\ contents = <<>> /\ merged = Empty /\ resolvePhase = "load"

ResolveSpec(stacks) == ResolveInit(stacks) /\ [][ResolveNext]_resolveVars

-----------------------------------------------------------------------------
(* What the layers mean, without merging anything.                         *)

\* A layer speaks of a path when it has a value there, or a value that is no
\* table on the way.
Speaks(i, path) ==
    \/ ExtractKey(contents[i], path) # Missing
    \/ \E n \in 1..(Len(path) - 1) :
          LET v == ExtractKey(contents[i], SubSeq(path, 1, n))
          IN  v # Missing /\ ~IsTable(v)

\* The last layers that speak of the path and all have an array there.
Arrays(path) ==
    {i \in DOMAIN contents :
        /\ Speaks(i, path)
        /\ \A j \in i..Len(contents) : Speaks(j, path) => IsArray(ExtractKey(contents[j], path))}
Items(i, path) == ExtractKey(contents[i], path).array
ItemKeys(i, path, f) == {Items(i, path)[n].table[f] : n \in DOMAIN Items(i, path)}

\* Every such layer keys its items by f and uses a key once.
KeyedBy(path, f) ==
    \A i \in Arrays(path) : Items(i, path) # <<>> =>
        /\ KeyField(Items(i, path)) = f
        /\ Cardinality(ItemKeys(i, path, f)) = Len(Items(i, path))

\* Each key once, with the item of the last layer that has it.
LastItems(path, f) ==
    LET items == ExtractKey(merged, path).array
        keys == UNION {ItemKeys(i, path, f) : i \in Arrays(path)}
        Highest(k) == Max({i \in Arrays(path) : k \in ItemKeys(i, path, f)})
    IN  /\ Len(items) = Cardinality(keys)
        /\ \A k \in keys : \E item \in ToSet(items) :
              item.table[f] = k /\ item \in ToSet(Items(Highest(k), path))

Concatenated(path) ==
    LET joined[i \in 0..Len(contents)] ==
            IF i = 0 THEN <<>>
            ELSE IF i \in Arrays(path) THEN joined[i - 1] \o Items(i, path) ELSE joined[i - 1]
    IN  joined[Len(contents)]

\* Whatever the shapes the layers have, the highest layer that speaks of a
\* path settles it: its scalar is the one resolved, what it hides stays
\* hidden, and its array is joined with the arrays directly below it, item
\* by item where all have keys and end to end where the lowest one has an
\* item without; nothing a layer says is lost unless a higher one answers it.
LaterLayersWin ==
    resolvePhase = "printed" => \A path \in Paths :
        LET speakers == {i \in DOMAIN contents : Speaks(i, path)}
            result == ExtractKey(merged, path)
        IN  IF speakers = {} THEN result = Missing
            ELSE LET top == ExtractKey(contents[Max(speakers)], path)
                 IN  CASE IsTable(top) -> IsTable(result)
                       [] IsArray(top) ->
                            /\ IsArray(result)
                            /\ \A f \in {"code", "id"} : KeyedBy(path, f) => LastItems(path, f)
                            /\ KeyField(Items(Min(Arrays(path)), path)) = "none"
                                   /\ Items(Min(Arrays(path)), path) # <<>>
                                  => result.array = Concatenated(path)
                       [] OTHER -> result = top
=============================================================================
