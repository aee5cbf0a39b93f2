--------------------------- MODULE ModuleScaffold ---------------------------
(***************************************************************************)
(* Laying out what the builders made: the setup skill of a module          *)
(* (scaffold-setup-skill.py), the module files of a skill that stands      *)
(* alone (scaffold-standalone-module.py), the sanctum of an agent with     *)
(* memory (init-sanctum.py); and the structural validation of a module     *)
(* (validate-module.py).                                                   *)
(*                                                                         *)
(* A file is created empty and then filled, a directory removed or copied  *)
(* file by file.  A scaffold may be interrupted anywhere and run again.    *)
(***************************************************************************)
EXTENDS Naturals, Sequences, FiniteSets, Lists

CONSTANTS
    SetupSkill,    \* the folder <code>-setup of the module
    OtherSetups,   \* folders of other modules whose names end in -setup
    Sanctum,       \* the folder of the agent's memory
    References,    \* the files in references/ of the agent, sorted
    SkillOnly,     \* those that stay in the skill
    Capabilities,  \* those with a name and a code in their frontmatter
    AgentScripts,  \* the files in scripts/, without init-sanctum.py
    SanctumFiles,  \* what the templates that are there become, in order
    MaxScaffolds,  \* bound: scaffolds begun
    NoJob          \* nothing is being scaffolded

\* References, scripts and filled files lie in directories of their own, and
\* CAPABILITIES.md next to the last.
ASSUME ScaffoldAssumption ==
    /\ MaxScaffolds \in Nat /\ Sanctum # SetupSkill
    /\ {References, AgentScripts, SanctumFiles} \subseteq Seq(STRING)
    /\ Capabilities \subseteq ToSet(References)
    /\ ToSet(References) \cap ToSet(AgentScripts) = {}
    /\ (ToSet(References) \cup ToSet(AgentScripts)) \cap (ToSet(SanctumFiles) \cup {"CAPABILITIES.md"}) = {}

VARIABLES
    tree,          \* tree[d][f]: the content of file f in folder d
    generated,     \* what the builder wrote: the fields of module.yaml, the help rows
    hasReferences, \* the agent has a folder references/
    job,           \* the scaffold that runs: its kind, its folder, where module.yaml is
    stage,         \* "idle", "remove" or "write"
    todo,          \* the files to write: a name and a content each
    halfway,       \* the first of them is created and not filled
    outcome,       \* how the last scaffold ended
    scaffolds      \* scaffolds begun

scaffoldVars == <<tree, generated, hasReferences, job, stage, todo, halfway, outcome, scaffolds>>

TemplateFiles == {"SKILL.md", "module.yaml", "module-help.csv", "scripts"}
MergeScripts == {"merge-config.py", "merge-help-csv.py"}
NoFiles == [f \in {} |-> "empty"]
Put(d, files) == [k \in DOMAIN tree \cup {d} |-> IF k = d THEN files ELSE tree[k]]
Set(d, f, content) ==
    Put(d, [g \in DOMAIN tree[d] \cup {f} |-> IF g = f THEN content ELSE tree[d][g]])

-----------------------------------------------------------------------------
(* The scaffolds begin.                                                    *)

Refuse(how) ==
    /\ outcome' = how
    /\ UNCHANGED <<tree, job, stage, todo, halfway>>
Start(kind, d, source, where) ==
    /\ job' = [kind |-> kind, folder |-> d, source |-> source]
    /\ stage' = where /\ outcome' = "none"
    /\ UNCHANGED halfway

\* Both generated files must be there; then the old folder is removed, and
\* with it a module.yaml that was kept in it.
BeginSetup ==
    /\ job = NoJob /\ scaffolds < MaxScaffolds
    /\ scaffolds' = scaffolds + 1
    /\ \E source \in {"outside", "inside", "nowhere"} :
          IF source = "outside" \/ (source = "inside" /\ SetupSkill \in DOMAIN tree
                                    /\ "module.yaml" \in DOMAIN tree[SetupSkill])
          THEN Start("setup", SetupSkill, source, "remove") /\ UNCHANGED <<tree, todo>>
          ELSE Refuse("error")
    /\ UNCHANGED <<generated, hasReferences>>

\* The skill and its module.yaml must be there.
BeginStandalone(d) ==
    /\ job = NoJob /\ scaffolds < MaxScaffolds
    /\ scaffolds' = scaffolds + 1
    /\ IF {"SKILL.md", "module.yaml"} \subseteq DOMAIN tree[d]
       THEN /\ Start("standalone", d, "inside", "write")
            /\ todo' = <<<<"module-setup.md", "template">>, <<"merge-config.py", "template">>,
                         <<"merge-help-csv.py", "template">>, <<"marketplace.json", "given">>>>
            /\ UNCHANGED tree
       ELSE Refuse("error")
    /\ UNCHANGED <<generated, hasReferences>>

\* What goes into the sanctum, CAPABILITIES.md last.
Kept == Filter(References, ToSet(References) \ SkillOnly)
Each(files, content) == [i \in DOMAIN files |-> <<files[i], content>>]
\* Mutant: CAPABILITIES.md goes first.
CapabilitiesFirst ==
    <<<<"CAPABILITIES.md", "generated">>>>
        \o Each(Kept, "copied") \o Each(AgentScripts, "copied") \o Each(SanctumFiles, "filled")
SanctumPlan ==
    Each(Kept, "copied") \o Each(AgentScripts, "copied") \o Each(SanctumFiles, "filled")
        \o <<<<"CAPABILITIES.md", "generated">>>>

\* A sanctum that is there is left alone; without references/ the script
\* fails, the folder made.
BeginSanctum ==
    /\ job = NoJob /\ scaffolds < MaxScaffolds
    /\ scaffolds' = scaffolds + 1
    /\ CASE Sanctum \in DOMAIN tree -> Refuse("born")
         [] Sanctum \notin DOMAIN tree /\ ~hasReferences ->
               /\ tree' = Put(Sanctum, NoFiles) /\ outcome' = "error"
               /\ UNCHANGED <<job, stage, todo, halfway>>
         [] OTHER ->
               /\ Start("sanctum", Sanctum, "inside", "write")
               /\ tree' = Put(Sanctum, NoFiles)
               /\ todo' = SanctumPlan
    /\ UNCHANGED <<generated, hasReferences>>

-----------------------------------------------------------------------------
(* ... go on, one file at a time, and end.                                 *)

RemoveFile ==
    /\ stage = "remove"
    /\ job.folder \in DOMAIN tree
    /\ \E f \in DOMAIN tree[job.folder] :
          tree' = Put(job.folder, [g \in DOMAIN tree[job.folder] \ {f} |-> tree[job.folder][g]])
    /\ UNCHANGED <<generated, hasReferences, job, stage, todo, halfway, outcome, scaffolds>>

\* The template is copied in an order of the file system's, then SKILL.md is
\* rewritten and the generated files are written over the template's.  By
\* now a module.yaml of the old folder is that of the template.
RemoveDone ==
    /\ stage = "remove"
    /\ job.folder \in DOMAIN tree => DOMAIN tree[job.folder] = {}
    /\ tree' = Put(job.folder, NoFiles)
    /\ \E order \in SetToSeqs(TemplateFiles) :
          todo' = Each(order, "template")
                  \o <<<<"SKILL.md", "given">>,
                       <<"module.yaml", IF job.source = "inside" THEN "template" ELSE "given">>,
                       <<"module-help.csv", "given">>>>
    /\ stage' = "write"
    /\ UNCHANGED <<generated, hasReferences, job, halfway, outcome, scaffolds>>

\* A merge script that is there is not overwritten.
SkipFile ==
    /\ stage = "write" /\ todo # <<>> /\ ~halfway
    /\ job.kind = "standalone"
    /\ Head(todo)[1] \in MergeScripts \cap DOMAIN tree[job.folder]
    /\ todo' = Tail(todo)
    /\ UNCHANGED <<tree, generated, hasReferences, job, stage, halfway, outcome, scaffolds>>

CreateFile ==
    /\ stage = "write" /\ todo # <<>> /\ ~halfway
    /\ job.kind = "standalone" => Head(todo)[1] \notin MergeScripts \cap DOMAIN tree[job.folder]
    /\ tree' = Set(job.folder, Head(todo)[1], "empty")
    /\ halfway' = TRUE
    /\ UNCHANGED <<generated, hasReferences, job, stage, todo, outcome, scaffolds>>

FillFile ==
    /\ stage = "write" /\ halfway
    /\ tree' = Set(job.folder, Head(todo)[1], Head(todo)[2])
    /\ todo' = Tail(todo) /\ halfway' = FALSE
    /\ UNCHANGED <<generated, hasReferences, job, stage, outcome, scaffolds>>

Stopped(how) ==
    /\ job' = NoJob /\ stage' = "idle" /\ todo' = <<>> /\ halfway' = FALSE
    /\ outcome' = how
    /\ UNCHANGED <<tree, generated, hasReferences, scaffolds>>
EndScaffold == stage = "write" /\ todo = <<>> /\ Stopped("success")
CrashScaffold == job # NoJob /\ Stopped("none")

ScaffoldNext ==
    \/ BeginSetup \/ BeginSanctum
    \/ \E d \in DOMAIN tree \ {SetupSkill, Sanctum} : BeginStandalone(d)
    \/ RemoveFile \/ RemoveDone \/ SkipFile \/ CreateFile \/ FillFile
    \/ EndScaffold \/ CrashScaffold

ScaffoldInit(trees, products) ==
    /\ tree \in trees /\ generated \in products /\ hasReferences \in BOOLEAN
    /\ job = NoJob /\ stage = "idle" /\ todo = <<>> /\ halfway = FALSE
    /\ outcome = "none" /\ scaffolds = 0

ScaffoldSpec(trees, products) == ScaffoldInit(trees, products) /\ [][ScaffoldNext]_scaffoldVars

-----------------------------------------------------------------------------
(* validate-module.py.  Of a help row: its skill, its menu code, whether    *)
(* other required fields are blank, the capability it is, and those it      *)
(* comes after or before.  No two rows are alike in all of these.           *)

Has(d, f) == d \in DOMAIN tree /\ f \in DOMAIN tree[d]
Folders == {d \in DOMAIN tree \ {Sanctum} : Has(d, "SKILL.md")}
Setups == DOMAIN tree \cap ({SetupSkill} \cup OtherSetups)

\* The setup skill is the first folder the file system names; without one,
\* the only skill, if it has a module.yaml.
Candidates ==
    IF Setups # {} THEN Setups
    ELSE {d \in Folders : Folders = {d} /\ Has(d, "module.yaml")}

Fields(d) == IF tree[d]["module.yaml"] \in {"given", "own"} THEN generated.fields ELSE {}
Rows(d) == IF tree[d]["module-help.csv"] \in {"given", "own"} THEN generated.rows ELSE {}
Required(d) ==
    IF Setups # {} THEN {"SKILL.md", "module.yaml", "module-help.csv"}
    ELSE {"module.yaml", "module-help.csv", "module-setup.md"} \cup MergeScripts

\* Findings on the contents, for a module that has the files.
ContentFindings(d) ==
    LET rows == Rows(d)
        named == {r.skill : r \in rows}
    IN  {<<"high", "yaml", f>> : f \in {"code", "name", "description"} \ Fields(d)} \cup
        {<<"high", "csv-header", f>> : f \in {g \in {"module-help.csv"} : tree[d][g] = "empty"}} \cup
        (IF rows = {} THEN {<<"high", "csv-empty", d>>}
         ELSE {<<"medium", "csv-columns", r>> : r \in {q \in rows : ~q.columns}} \cup
              {<<"high", "missing-entry", s>> :
                  s \in (IF Setups # {} THEN Folders \ {d} ELSE Folders) \ named} \cup
              {<<"high", "orphan-entry", s>> : s \in named \ (Folders \cup {d})} \cup
              {<<"high", "duplicate-menu-code", r>> :
                  r \in {q \in rows : q.menu # "" /\ \E o \in rows \ {q} : o.menu = q.menu}} \cup
              {<<"medium", "invalid-ref", r>> :
                  r \in {q \in rows : \E ref \in q.refs : ref \notin {o.capability : o \in rows}}} \cup
              {<<"high", "missing-field", r>> :
                  r \in {q \in rows : q.skill = "" \/ q.menu = "" \/ q.blank # {}}})

\* A file that is missing ends the validation.
Findings(d) ==
    LET lacking == {f \in Required(d) : ~Has(d, f)}
    IN  IF lacking # {} THEN {<<"critical", "structure", f>> : f \in lacking} ELSE ContentFindings(d)

Passes(d) == \A f \in Findings(d) : f[1] \notin {"critical", "high"}

-----------------------------------------------------------------------------
(* Properties.                                                             *)

\* What the builder wrote is sound: every skill has entries, every entry a
\* skill, a code of its own and its fields.
Sound ==
    /\ generated.fields = {"code", "name", "description"}
    /\ \A r, q \in generated.rows :
          r.blank = {} /\ r.skill # "" /\ r.menu # "" /\ (r.menu = q.menu => r = q)
    /\ generated.rows # {}
    /\ {r.skill : r \in generated.rows} \ {SetupSkill} = Folders \ {SetupSkill}
Whole(d) == \A f \in {"SKILL.md", "module.yaml", "module-help.csv"} : Has(d, f) /\ tree[d][f] = "given"

\* Whatever was interrupted and run again, what comes last vouches for what
\* comes before.  A setup skill passes the validation only with the generated
\* files in place, and then each skill is reached by a menu code no other
\* entry has; if they are sound and the module has no other setup skill, it
\* does pass.  A sanctum that lists the agent's capabilities holds them all,
\* with the scripts and the filled files.
LastFileVouches ==
    /\ SetupSkill \in Candidates /\ Passes(SetupSkill) =>
          /\ Whole(SetupSkill)
          /\ \A s \in Folders \ {SetupSkill} : \E r \in generated.rows :
                r.skill = s /\ r.menu # "" /\ \A o \in generated.rows \ {r} : o.menu # r.menu
    /\ Whole(SetupSkill) /\ Sound /\ Setups = {SetupSkill} => Passes(SetupSkill)
    /\ Has(Sanctum, "CAPABILITIES.md") /\ tree[Sanctum]["CAPABILITIES.md"] = "generated" =>
          /\ \A f \in (Capabilities \ SkillOnly) \cup ToSet(AgentScripts) :
                Has(Sanctum, f) /\ tree[Sanctum][f] = "copied"
          /\ \A f \in ToSet(SanctumFiles) \ {"CAPABILITIES.md"} :
                Has(Sanctum, f) /\ tree[Sanctum][f] = "filled"
=============================================================================
