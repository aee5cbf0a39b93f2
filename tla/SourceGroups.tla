---------------------------- MODULE SourceGroups ----------------------------
(***************************************************************************)
(* Planning a distillation (analyze_sources.py): the inputs are resolved   *)
(* to a list of files, the files are put in groups by their names, one     *)
(* file per step, and the groups are routed to one compressor or to many.  *)
(*                                                                         *)
(* A name is abstract; what matters of it is the name of the document it   *)
(* accompanies, if it is that of a companion (discovery notes, appendix,   *)
(* review).  A companion may itself have companions.                       *)
(***************************************************************************)
EXTENDS Naturals, Sequences, FiniteSets, FiniteSetsExt, Lists

CONSTANTS
    Companions,    \* the names some pattern of GROUP_PATTERNS matches
    BaseOf,        \* BaseOf[n]: the name of the document n accompanies
    Skipped,       \* directories that are not entered
    Included,      \* names with one of the extensions looked for
    CharsPerToken, SingleCompressorMax, SingleDistillateMax   \* thresholds, in tokens

ASSUME SourceAssumption ==
    /\ CharsPerToken \in Nat \ {0}
    /\ SingleCompressorMax \in Nat /\ SingleDistillateMax \in Nat
    /\ SingleCompressorMax \div 3 <= SingleDistillateMax
    \* A companion's name is its base's with something more.
    /\ \A n \in Companions : BaseOf[n] # n

VARIABLES
    inputs,        \* the arguments
    toGroup,       \* the files not looked at yet
    files,         \* the files resolved
    groups,        \* groups[key]: the members of a group, in order
    ungrouped,     \* files that are no companion
    assigned,      \* names that are in a group
    planPhase      \* "resolve", then "group", then "planned"; or "error"

planVars == <<inputs, toGroup, files, groups, ungrouped, assigned, planPhase>>

-----------------------------------------------------------------------------
(* resolve_inputs: a file named is taken as it is; a folder gives what it  *)
(* holds outside the directories to skip, a pattern what it matches, both  *)
(* with the right extension.  A path given twice counts once.              *)

FilesOf(input) ==
    LET fitting == {f \in ToSet(input.files) : f.name \in Included}
    IN  CASE input.kind = "file" -> input.files
          [] input.kind = "folder" -> Filter(input.files, {f \in fitting : f.dir \notin Skipped})
          [] input.kind = "glob" -> Filter(input.files, fitting)
Resolved == Distinct(FoldLeft(LAMBDA all, input : all \o FilesOf(input), <<>>, inputs))

ResolveInputs ==
    /\ planPhase = "resolve"
    /\ files' = Resolved /\ toGroup' = Resolved
    /\ planPhase' = IF Resolved = <<>> THEN "error" ELSE "group"
    /\ UNCHANGED <<inputs, groups, ungrouped, assigned>>

-----------------------------------------------------------------------------
(* suggest_groups                                                          *)

\* file_map: of files with one name, the last.
Named(name) == {i \in DOMAIN files : files[i].name = name}
FileNamed(name) == files[Max(Named(name))]
Member(f, role) == [file |-> f, role |-> role]

GroupSkip ==
    /\ planPhase = "group" /\ toGroup # <<>>
    /\ Head(toGroup).name \in assigned
    /\ toGroup' = Tail(toGroup)
    /\ UNCHANGED <<inputs, files, groups, ungrouped, assigned, planPhase>>

\* A companion opens the group of its base, with the base first if it is
\* there and in no group yet.
GroupCompanion ==
    /\ planPhase = "group" /\ toGroup # <<>>
    /\ LET f == Head(toGroup)
           key == BaseOf[f.name]
           takesBase == key \notin DOMAIN groups /\ Named(key) # {} /\ key \notin assigned
           old == CASE key \in DOMAIN groups -> groups[key]
                    [] takesBase -> <<Member(FileNamed(key), "primary")>>
                    [] OTHER -> <<>>
       IN  /\ f.name \notin assigned /\ f.name \in Companions
           /\ groups' = [k \in DOMAIN groups \cup {key} |->
                            IF k = key THEN Append(old, Member(f, "companion")) ELSE groups[k]]
           /\ assigned' = assigned \cup {f.name} \cup (IF takesBase THEN {key} ELSE {})
    /\ toGroup' = Tail(toGroup)
    /\ UNCHANGED <<inputs, files, ungrouped, planPhase>>

GroupOther ==
    /\ planPhase = "group" /\ toGroup # <<>>
    /\ LET f == Head(toGroup)
       IN  /\ f.name \notin assigned /\ f.name \notin Companions
           /\ ungrouped' = IF f.name \in DOMAIN groups THEN ungrouped ELSE Append(ungrouped, f)
    /\ toGroup' = Tail(toGroup)
    /\ UNCHANGED <<inputs, files, groups, assigned, planPhase>>

\* A file put aside stands alone, unless a companion met later has taken it.
GroupDone ==
    /\ planPhase = "group" /\ toGroup = <<>>
    /\ planPhase' = "planned"
    /\ UNCHANGED <<inputs, toGroup, files, groups, ungrouped, assigned>>

\* Mutant: a file put aside stands alone although a companion has taken it.
PlanAll ==
    {[key |-> k, files |-> groups[k]] : k \in DOMAIN groups} \cup
    {[key |-> f.name, files |-> <<Member(f, "standalone")>>] : f \in ToSet(ungrouped)}

Plan ==
    {[key |-> k, files |-> groups[k]] : k \in DOMAIN groups} \cup
    {[key |-> f.name, files |-> <<Member(f, "standalone")>>] :
        f \in {u \in ToSet(ungrouped) : u.name \notin assigned}}

\* Sizes are in characters.
Tokens == FoldLeft(LAMBDA sum, f : sum + f.size, 0, files) \div CharsPerToken
Routing == IF Len(files) <= 3 /\ Tokens <= SingleCompressorMax THEN "single" ELSE "fan-out"
SplitPrediction == IF Tokens \div 3 > SingleDistillateMax THEN "likely" ELSE "unlikely"

PlanNext == ResolveInputs \/ GroupSkip \/ GroupCompanion \/ GroupOther \/ GroupDone

PlanInit(arguments) ==
    /\ inputs \in arguments
    /\ toGroup = <<>> /\ files = <<>>
    /\ groups = [k \in {} |-> <<>>] /\ ungrouped = <<>> /\ assigned = {}
    /\ planPhase = "resolve"

PlanSpec(arguments) == PlanInit(arguments) /\ [][PlanNext]_planVars

-----------------------------------------------------------------------------
(* Properties.                                                             *)

DistinctNames == \A i, j \in DOMAIN files : files[i].name = files[j].name => i = j
PlacesOf(f) ==
    UNION {{<<g, i>> : i \in {j \in DOMAIN g.files : g.files[j].file = f}} : g \in Plan}

\* When the files have different names, in whatever order they come, each is
\* in the plan exactly once, a document stands with every companion that is
\* left for it, and nothing is in the plan that was not given; and a set
\* small enough for one compressor is never expected to need a split.
GroupsExact ==
    planPhase = "planned" =>
        /\ DistinctNames =>
              /\ \A f \in ToSet(files) : Cardinality(PlacesOf(f)) = 1
              /\ \A g \in Plan : \A i \in DOMAIN g.files : g.files[i].file \in ToSet(files)
              /\ \A g \in Plan : \A i \in DOMAIN g.files :
                    LET m == g.files[i]
                    IN  IF m.role = "companion"
                        THEN m.file.name \in Companions /\ BaseOf[m.file.name] = g.key
                        ELSE m.file.name = g.key /\ i = 1
              /\ \A f \in ToSet(files) : f.name \notin Companions =>
                    \E g \in Plan : g.key = f.name /\ g.files[1].file = f
        /\ Routing = "single" => SplitPrediction = "unlikely"
=============================================================================
