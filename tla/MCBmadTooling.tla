--------------------------- MODULE MCBmadTooling ---------------------------
(***************************************************************************)
(* The scripts of the BMad tooling, each by itself: `tool` says which one  *)
(* a behaviour is of, the state of the others does not change.             *)
(***************************************************************************)
EXTENDS ModuleSetup, LayeredConfig, SkillTemplate, StageGraph, SourceGroups, SkillCatalog,
        ModuleScaffold, SkillScans, TLC

CONSTANTS m1, m2     \* the modules of ModuleSetup

VARIABLE tool

-----------------------------------------------------------------------------
(* ModuleSetup: both modules have the personal setting "mine", m2 also     *)
(* help rows without a code.                                               *)

VariablesOf == (m1 :> {"out", "mine"}) @@ (m2 :> {"dir", "mine"})
Raw(v) == [of |-> v, rooted |-> FALSE]
OldConfig == [root |-> "folder" :> Raw("old"), core |-> EmptyDict,
              sections |-> m1 :> [k \in {"out", "gone"} |-> [of |-> "old", rooted |-> TRUE]]]
NestedConfig == [root |-> EmptyDict, core |-> "folder" :> Raw("old"), sections |-> EmptyDict]
CoreFile == ("folder" :> Raw("old")) @@ ("name" :> Raw("old"))
M1File == ("out" :> Raw("old")) @@ ("mine" :> Raw("old")) @@ ("gone" :> Raw("old"))
M2File == ("dir" :> Raw("old")) @@ ("name" :> Raw("new"))
Installer(a, b, c) == (m1 :> a) @@ (m2 :> b) @@ ("core" :> c) @@ ("_config" :> NoFile)
Installers == {Installer(M1File, M2File, CoreFile), Installer(NoFile, M2File, NoFile)}
AllPackages == (m1 :> {"s1"}) @@ (m2 :> {"s2"}) @@ ("core" :> {}) @@ ("_config" :> {})

SetupStart ==
    SetupInit({EmptyConfig, OldConfig, NestedConfig}, {EmptyDict}, Installers, {AllPackages},
              {{"s1"}, {"s1", "s2"}})
SetupIdle == SetupInit({EmptyConfig}, {EmptyDict}, {Installer(NoFile, NoFile, NoFile)},
                       {AllPackages}, {{}}) /\ help = NoRows

-----------------------------------------------------------------------------
(* LayeredConfig: every scalar carries the number of its layer.            *)

PathsAsked == {<<"a">>, <<"a", "b">>, <<"a", "c">>, <<"l">>}
NoEntries == [k \in {} |-> 0]
Item(f, k, i) == Table((f :> Scalar(k)) @@ ("v" :> Scalar(i)))
TablePart(i) == {NoEntries, "a" :> Scalar(i), "a" :> Table("b" :> Scalar(i)), "a" :> Table("c" :> Scalar(i))}
ArrayPart(i) == {NoEntries, "l" :> Scalar(i), "l" :> Array(<<Item("code", "x", i)>>),
                 "l" :> Array(<<Item("code", "y", i), Item("code", "x", i)>>),
                 "l" :> Array(<<Item("id", "x", i)>>), "l" :> Array(<<Scalar(i)>>)}
Layer(i) == {Table(x @@ y) : x \in TablePart(i), y \in ArrayPart(i)}
\* The skill lies in a project or in none, in which case the working
\* directory may; the central config has a fourth layer.
SkillStacks ==
    {SkillLayers(d, "inner" :> <<t, u>>, <<"skills", "inner">>, <<"work">>, marked) :
        d \in Layer(1) \cup {Missing}, t \in Layer(2) \cup {Unreadable}, u \in Layer(3),
        marked \in {{"inner"}}} \cup
    {SkillLayers(d, ("inner" :> <<Empty, Empty>>) @@ ("work" :> <<t, Missing>>), <<"skills", "inner">>,
                 <<"work">>, marked) :
        d \in Layer(1), t \in Layer(2), marked \in {{}, {"work"}, {"inner", "work"}}}
CentralStacks ==
    {CentralLayers(<<Table(a), Table(b)>>, "project" :> <<Table(c), Table(d)>>, "project") :
        a \in ArrayPart(1), b \in ArrayPart(2), c \in ArrayPart(3), d \in ArrayPart(4)}

-----------------------------------------------------------------------------
(* SkillTemplate: every text of up to five tokens over two conditions; one *)
(* value holds the placeholder that is replaced after it.                  *)

TemplateTokens == {Open(c) : c \in Conditions} \cup {Close(c) : c \in Conditions} \cup {Plain("p"), Hole("v")}
Templates == UNION {[1..n -> TemplateTokens] : n \in 0..5}
VarPairs == {<<>>, <<[name |-> "v", value |-> <<Hole("w"), Plain("x")>>],
                     [name |-> "w", value |-> <<Plain("y")>>]>>}

-----------------------------------------------------------------------------
(* StageGraph: every graph of three nodes, a node depending on up to two,  *)
(* and every graph of four in which no node depends on an earlier one.     *)

Lists == {<<>>, <<1>>, <<2>>, <<3>>, <<1, 2>>, <<2, 1>>, <<1, 3>>, <<3, 2>>}
ThreeNodes == UNION {[D -> Lists] : D \in SUBSET {1, 2, 3}}
FourNodes == {[n \in 1..4 |-> SetToSeq(later[n])] :
                 later \in {f \in [1..4 -> SUBSET (1..4)] : \A n \in 1..4 : \A x \in f[n] : x > n}}

-----------------------------------------------------------------------------
(* SourceGroups: a document, its notes, their review, its own review, and  *)
(* another; some of them in two folders.                                   *)

Bases == ("notes" :> "doc") @@ ("notes-review" :> "notes") @@ ("doc-review" :> "doc")
File(d, n, s) == [dir |-> d, name |-> n, size |-> s]
Sources == {File("docs", "doc", 20), File("docs", "notes", 4), File("docs", "notes-review", 8),
            File("docs", "doc-review", 30), File("docs", "other", 60), File("lib", "doc", 4),
            File("lib", "notes", 4)}
FileLists(n) == {s \in BoundedSeq(Sources, n) : IsInjective(s)}
Image == File("docs", "image", 4)
Arguments ==
    {<<[kind |-> "folder", files |-> s]>> : s \in FileLists(4)} \cup
    {<<[kind |-> "file", files |-> <<Image>>], [kind |-> "glob", files |-> <<Image>> \o s]>> : s \in FileLists(2)} \cup
    {<<[kind |-> "folder", files |-> s \o <<File("node_modules", "notes", 4)>>],
       [kind |-> "file", files |-> <<File("docs", "doc", 20)>>]>> : s \in FileLists(2)}

-----------------------------------------------------------------------------
(* SkillCatalog: three roots, which may be equal.                          *)

CustomFiles == {[file |-> "none", surfaces |-> {}], [file |-> "bad", surfaces |-> {}]} \cup
               {[file |-> "read", surfaces |-> S] : S \in {{}, {"agent"}, Surfaces}}
SkillLists == {<<>>} \cup {<<[name |-> "x"] @@ f>> : f \in CustomFiles} \cup
              {<<[name |-> "x"] @@ f, [name |-> "y"] @@ g>> : f, g \in CustomFiles}
RootSet == {[exists |-> FALSE, skills |-> <<>>]} \cup {[exists |-> TRUE, skills |-> s] : s \in SkillLists}
RootLists == {<<r, s, t>> : r, s \in RootSet, t \in {q \in RootSet : Len(q.skills) < 2}}

-----------------------------------------------------------------------------
(* ModuleScaffold: a module of two skills with help files sound and not, a *)
(* skill that stands alone, another setup skill, a setup skill of before.  *)

ReferenceFiles == <<"cap.md", "first-breath.md", "guide.md">>
ScriptFiles == <<"tool.py">>
SanctumOutput == <<"INDEX.md", "CAPABILITIES.md">>
Row(s, m) == [skill |-> s, menu |-> m, blank |-> {}, columns |-> TRUE, capability |-> m, refs |-> {}]
GoodRows == {Row("sk1", "A"), Row("sk2", "B"), Row("su", "C")}
RowSets == {{}, GoodRows, {Row("sk1", "A"), Row("sk2", "A")}, {Row("sk1", "A")},
            GoodRows \cup {Row("sk3", "D")}, {Row("sk1", "A"), Row("sk2", "")},
            {[Row("sk1", "A") EXCEPT !.blank = {"description"}], Row("sk2", "B")},
            {[Row("sk1", "A") EXCEPT !.columns = FALSE, !.refs = {"B"}], [Row("sk2", "B") EXCEPT !.refs = {"X"}]}}
Products == [rows : RowSets, fields : {{"code", "name", "description"}}] \cup
            [rows : {GoodRows}, fields : {{"code", "name"}}]
Own == "SKILL.md" :> "own"
OwnModule == Own @@ ("module.yaml" :> "own") @@ ("module-help.csv" :> "own")
Before == [f \in {"SKILL.md", "module.yaml", "module-help.csv"} |-> "given"] @@ ("old" :> "own")
Trees == {("sk1" :> Own) @@ ("sk2" :> Own), ("sk1" :> Own) @@ ("sk2" :> Own) @@ ("other" :> Own),
          "sk1" :> OwnModule, "sk1" :> Own, ("sk1" :> Own) @@ ("sk2" :> Own) @@ ("su" :> Before)}

-----------------------------------------------------------------------------
(* SkillScans: a skill without a defect, and those with one.               *)

CleanText == [left |-> {}, blunt |-> FALSE, header |-> TRUE, progress |-> TRUE, patterns |-> {},
              toolSteps |-> 0, number |-> 0, sections |-> {}, uses |-> {}, spawns |-> FALSE]
CleanMain == [absent |-> FALSE, frontmatter |-> [shape |-> "mapping", name |-> "agent",
                                                 description |-> "trigger", extra |-> {}],
              threeLaws |-> FALSE, sacredTruth |-> FALSE,
              sections |-> {"Overview", "Identity", "Communication Style", "Principles", "On Activation"},
              left |-> {}, blunt |-> FALSE, refs |-> {<<"root", "01-a.md">>, <<"root", "02-b.md">>},
              patterns |-> {}, toolSteps |-> 0, lines |-> 30, uses |-> {}, spawns |-> FALSE]
CleanFiles == (<<"root", "01-a.md">> :> [CleanText EXCEPT !.number = 1]) @@
              (<<"root", "02-b.md">> :> [CleanText EXCEPT !.number = 2]) @@
              (<<"references", "r.md">> :> CleanText) @@ (<<"prompts", "p.md">> :> CleanText)
Script(n, l, facts) == [name |-> n, language |-> l, lines |-> 25, facts |-> facts]
CleanPython == Script("a.py", "python", {"pep723", "imports", "requires-python", "argparse", "dumps", "exit"})
CleanScripts == <<CleanPython, Script("b.sh", "shell", {"shebang", "env", "set-e"})>>
CleanSkill == [main |-> CleanMain, files |-> CleanFiles, init |-> <<>>,
               scripts |-> CleanScripts, tests |-> <<{"a.py", "b.sh", "c.js"}>>]
TextDefects(t) == {[t EXCEPT !.left = {"{if-memory}"}], [t EXCEPT !.left = {"{if-customizable}"}],
                   [t EXCEPT !.blunt = TRUE], [t EXCEPT !.header = FALSE], [t EXCEPT !.progress = FALSE],
                   [t EXCEPT !.patterns = {"load-all-memory"}], [t EXCEPT !.patterns = {"read-all"}],
                   [t EXCEPT !.patterns = {"multi-source-read-all"}], [t EXCEPT !.toolSteps = 3]}
MainDefects ==
    {[CleanMain EXCEPT !.absent = TRUE], [CleanMain EXCEPT !.frontmatter.shape = "none"],
     [CleanMain EXCEPT !.frontmatter.shape = "invalid"], [CleanMain EXCEPT !.frontmatter.name = "missing"],
     [CleanMain EXCEPT !.frontmatter.name = "not-kebab"], [CleanMain EXCEPT !.frontmatter.name = "kebab"],
     [CleanMain EXCEPT !.frontmatter.description = "missing"], [CleanMain EXCEPT !.frontmatter.extra = {"menu-code"}],
     [CleanMain EXCEPT !.threeLaws = TRUE, !.sacredTruth = TRUE],
     [CleanMain EXCEPT !.sections = @ \ {"Identity"}], [CleanMain EXCEPT !.sections = @ \cup {"On Exit"}],
     [CleanMain EXCEPT !.sections = {"The Three Laws", "The Sacred Truth", "On Activation"}],
     [CleanMain EXCEPT !.left = {"{if-module}"}], [CleanMain EXCEPT !.patterns = {"scan-all"}],
     [CleanMain EXCEPT !.refs = @ \cup {<<"root", "03-c.md">>}], [CleanMain EXCEPT !.refs = {}]}
ScriptDefects ==
    {<<[CleanPython EXCEPT !.facts = @ \cup {f}]>> : f \in {"pip", "syntax-error", "input", "file-imports"}} \cup
    {<<[CleanPython EXCEPT !.facts = @ \ {f}]>> : f \in {"pep723", "requires-python", "argparse"}} \cup
    {<<>>, <<[CleanPython EXCEPT !.lines = 3]>>,
     <<Script("c.js", "node", {}), Script("c.js", "node", {"unpinned"})>>, <<Script("b.sh", "shell", {"env"})>>, <<Script("b.sh", "shell", {"shebang", "unpinned", "unquoted"})>>}
OneDefect(s) ==
    {[s EXCEPT !.main = m] : m \in MainDefects} \cup
    UNION {{[s EXCEPT !.files[p] = t] : t \in TextDefects(s.files[p])} : p \in DOMAIN s.files} \cup
    {[s EXCEPT !.files = [p \in DOMAIN s.files \ {q} |-> s.files[p]]] : q \in DOMAIN s.files} \cup
    {[s EXCEPT !.files[<<"root", "02-b.md">>].number = 4],
     [s EXCEPT !.files = @ @@ (<<"root", "more.md">> :> [CleanText EXCEPT !.spawns = TRUE])],
     [s EXCEPT !.tests = <<>>], [s EXCEPT !.tests = <<{"a.py"}>>]} \cup
    {[s EXCEPT !.scripts = x] : x \in ScriptDefects}
\* A memory agent: nothing lies next to SKILL.md, its sanctum is complete.
Breath == {"Save As You Go", "Pacing", "Chase What Catches", "Absorb", "Absorb Their Voice",
           "Show Your Work", "Hear the Silence", "The Territories", "Wrapping Up"}
Memory ==
    [CleanSkill EXCEPT
        !.main.sections = {"The Three Laws", "The Sacred Truth", "On Activation"}, !.main.refs = {},
        !.files = (<<"prompts", "p.md">> :> CleanText) @@
                  (FirstBreath :> [CleanText EXCEPT !.sections = Breath]) @@
                  [p \in {"assets"} \X StandardTemplates |->
                      [CleanText EXCEPT !.sections = IF p = Creed THEN CreedSections ELSE {}]],
        !.init = <<[named |-> TRUE, templates |-> StandardTemplates]>>, !.scripts = <<>>]
Use(k, n, b) == [kind |-> k, fences |-> n, back |-> b]
Uses == {Use(k, n, 99) : k \in {"double-prefix", "absolute-path", "_bmad"}, n \in {0, 1, 2}} \cup
        {Use("_bmad", 0, 15), Use("_bmad", 0, 25), Use("_bmad/memory", 0, 15), Use("_bmad/memory", 0, 25)}
Without1(f, p) == [q \in DOMAIN f \ {p} |-> f[q]]
MemoryDefects ==
    {[Memory EXCEPT !.main.lines = 41]} \cup
    {[Memory EXCEPT !.files = Without1(@, p)] : p \in {Creed, FirstBreath, <<"assets", "BOND-template.md">>}} \cup
    {[Memory EXCEPT !.files[FirstBreath].sections = S] :
        S \in {Breath \ {"Pacing"}, {"Save As You Go", "Discovery", "Urgency", "Wrapping Up"}, {"Discovery"}}} \cup
    {[Memory EXCEPT !.files[Creed].sections = @ \ {"Mission"}]} \cup
    {[Memory EXCEPT !.init = i] :
        i \in {<<>>, <<[named |-> FALSE, templates |-> StandardTemplates]>>,
                <<[named |-> TRUE, templates |-> StandardTemplates \ {"BOND-template.md"}]>>,
                <<[named |-> TRUE, templates |-> StandardTemplates \cup {"PULSE-template.md"}]>>}} \cup
    {[Memory EXCEPT !.files[<<"prompts", "p.md">>].uses = {u}] : u \in Uses} \cup
    {[Memory EXCEPT !.main.uses = {u}] : u \in Uses}

SkillSet == {CleanSkill, Memory} \cup OneDefect(CleanSkill) \cup MemoryDefects

-----------------------------------------------------------------------------
Tools == {"setup", "resolve", "template", "graph", "plan", "catalog", "scaffold", "scan"}

Init ==
    /\ tool \in Tools
    /\ IF tool = "setup" THEN SetupStart ELSE SetupIdle
    /\ ResolveInit(IF tool = "resolve" THEN SkillStacks \cup CentralStacks ELSE {<<Missing>>})
    /\ TemplateInit(IF tool = "template" THEN Templates ELSE {<<>>},
                    IF tool = "template" THEN VarPairs ELSE {<<>>})
    /\ tool # "template" => trueOnes = {}
    /\ \/ tool = "graph" /\ GraphInit(ThreeNodes, SUBSET {1, 2, 3})
       \/ tool = "graph" /\ GraphInit(FourNodes, {1..4})
       \/ tool # "graph" /\ GraphInit({<<>>}, {{}})
    /\ PlanInit(IF tool = "plan" THEN Arguments ELSE {<<>>})
    /\ CatalogInit(IF tool = "catalog" THEN RootLists ELSE {<<>>}, {{}, {<<"x", "team">>}})
    /\ tool # "catalog" => overrides = {}
    /\ ScaffoldInit(IF tool = "scaffold" THEN Trees ELSE {<<>>}, IF tool = "scaffold" THEN Products ELSE {{}})
    /\ tool # "scaffold" => hasReferences
    /\ ScanInit(IF tool = "scan" THEN SkillSet ELSE {{}})

\* A step is of the script that runs.
SetupStep == tool = "setup" /\ SetupNext /\
    UNCHANGED <<tool, resolveVars, templateVars, graphVars, planVars, catalogVars, scaffoldVars, scanVars>>
ResolveStep == tool = "resolve" /\ ResolveNext /\
    UNCHANGED <<tool, setupVars, templateVars, graphVars, planVars, catalogVars, scaffoldVars, scanVars>>
TemplateStep == tool = "template" /\ TemplateNext /\
    UNCHANGED <<tool, setupVars, resolveVars, graphVars, planVars, catalogVars, scaffoldVars, scanVars>>
GraphStep == tool = "graph" /\ GraphNext /\
    UNCHANGED <<tool, setupVars, resolveVars, templateVars, planVars, catalogVars, scaffoldVars, scanVars>>
PlanStep == tool = "plan" /\ PlanNext /\
    UNCHANGED <<tool, setupVars, resolveVars, templateVars, graphVars, catalogVars, scaffoldVars, scanVars>>
CatalogStep == tool = "catalog" /\ CatalogNext /\
    UNCHANGED <<tool, setupVars, resolveVars, templateVars, graphVars, planVars, scaffoldVars, scanVars>>
ScaffoldStep == tool = "scaffold" /\ ScaffoldNext /\
    UNCHANGED <<tool, setupVars, resolveVars, templateVars, graphVars, planVars, catalogVars, scanVars>>
ScanStep == tool = "scan" /\ ScanNext /\
    UNCHANGED <<tool, setupVars, resolveVars, templateVars, graphVars, planVars, catalogVars, scaffoldVars>>

Next ==
    \/ SetupStep \/ ResolveStep \/ TemplateStep \/ GraphStep
    \/ PlanStep \/ CatalogStep \/ ScaffoldStep \/ ScanStep

allVars == <<tool, setupVars, resolveVars, templateVars, graphVars, planVars, catalogVars,
             scaffoldVars, scanVars>>

Spec == Init /\ [][Next]_allVars

\* The setups alone.
SetupSpec == (Init /\ tool = "setup") /\ [][SetupStep]_allVars
=============================================================================
