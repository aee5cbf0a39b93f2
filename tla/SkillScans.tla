----------------------------- MODULE SkillScans -----------------------------
(***************************************************************************)
(* The deterministic scans of a built skill: the paths its files name      *)
(* (scan-path-standards.py), the structure of an agent                     *)
(* (prepass-structure-capabilities.py) or of a workflow                    *)
(* (prepass-workflow-integrity.py), the patterns that cost time            *)
(* (prepass-execution-deps.py), the sanctum of a memory agent              *)
(* (prepass-sanctum-architecture.py), and the scripts with the linters run *)
(* on them (scan-scripts.py).                                              *)
(*                                                                         *)
(* A text is what the scans' expressions tell apart in it.  A finding is a *)
(* severity, a category and what it is about; a finding met twice counts   *)
(* once, which no status tells from twice.                                 *)
(***************************************************************************)
EXTENDS Naturals, Sequences, FiniteSets, FiniteSetsExt

CONSTANTS
    AgentArtifacts,    \* markers an agent's scan knows as left by the template
    WorkflowArtifacts  \* those a workflow's scan knows

VARIABLES
    skill,        \* the skill that is scanned
    issues,       \* the findings of each scan that has ended
    scriptsDone,  \* how many scripts are scanned
    scriptIssues, \* the findings on scripts so far
    linted        \* what came of the linter for each script scanned

scanVars == <<skill, issues, scriptsDone, scriptIssues, linted>>

\* What each builder runs on a skill; both look at scripts in the same way.
StructureScans == <<"agent-paths", "workflow-paths", "agent", "workflow",
                    "agent-execution", "workflow-execution", "sanctum">>
Scans == {StructureScans[i] : i \in DOMAIN StructureScans} \cup {"scripts"}

\* The rules of a table that apply, as findings about something.
Apply(rules, about) == {<<r[2], r[3], about>> : r \in {q \in rules : q[1]}}

\* A finding that is critical fails the scan, a high one warns.
Status(findings) ==
    IF \E f \in findings : f[1] = "critical" THEN "fail"
    ELSE IF \E f \in findings : f[1] = "high" THEN "warning" ELSE "pass"

Main == skill.main
Texts(dirs) == {p \in DOMAIN skill.files : p[1] \in dirs}
Text(p) == skill.files[p]

-----------------------------------------------------------------------------
(* prepass-structure-capabilities.py                                       *)

\* The frontmatter: its shape, its name, its description.
AgentFrontmatter(fm) ==
    IF fm.shape # "mapping" THEN {<<"critical", "frontmatter", "SKILL.md">>}
    ELSE Apply({<<fm.name = "missing", "critical", "frontmatter">>,
                <<fm.name = "not-kebab", "high", "frontmatter">>,
                <<fm.name = "kebab", "medium", "frontmatter">>,
                <<fm.description = "missing", "high", "frontmatter">>,
                <<fm.description = "no-trigger", "medium", "frontmatter">>,
                <<fm.extra # {}, "low", "frontmatter">>}, "SKILL.md")

\* Sanctum templates, or the laws and the sacred truth, make a memory agent.
SanctumTemplates == {p[2] : p \in Texts({"assets"})}
IsMemoryAgent == SanctumTemplates # {} \/ (Main.threeLaws /\ Main.sacredTruth)

AgentSections ==
    IF IsMemoryAgent THEN {"The Three Laws", "The Sacred Truth", "On Activation"}
    ELSE {"Overview", "Identity", "Communication Style", "Principles", "On Activation"}
ExitSections == {"On Exit", "Exiting"}
SectionFindings(required) ==
    {<<"high", "sections", s>> : s \in required \ Main.sections} \cup
    {<<"high", "invalid-section", s>> : s \in ExitSections \cap Main.sections}

ArtifactFindings(text, known, about) == {<<"high", "artifacts", <<m, about>>>> : m \in text.left \cap known}
BluntFindings(text, about) == Apply({<<text.blunt, "low", "language">>}, about)

\* Prompts lie next to SKILL.md or in references/.
AgentPrompt(p) ==
    Apply({<<~Text(p).header, "medium", "config-header">>,
           <<~Text(p).progress, "high", "progression">>}, p)
    \cup BluntFindings(Text(p), p) \cup ArtifactFindings(Text(p), AgentArtifacts, p)

\* Every path the expression finds begins with memory/: they never disagree.
MemoryPrefixes == {"memory"}
MemoryFindings == Apply({<<Cardinality(MemoryPrefixes) > 1, "medium", "memory-paths">>}, "multiple")

AgentIssues ==
    IF Main.absent THEN {<<"critical", "missing-file", "SKILL.md">>}
    ELSE AgentFrontmatter(Main.frontmatter) \cup SectionFindings(AgentSections)
         \cup ArtifactFindings(Main, AgentArtifacts, "SKILL.md") \cup BluntFindings(Main, "SKILL.md")
         \cup MemoryFindings \cup UNION {AgentPrompt(p) : p \in Texts({"root", "references"})}

-----------------------------------------------------------------------------
(* prepass-workflow-integrity.py                                           *)

\* Any line of the form key: value is taken, so a block never fails to parse.
WorkflowFrontmatter(fm) ==
    IF fm.shape = "none" THEN {<<"critical", "frontmatter", "SKILL.md">>}
    ELSE Apply({<<fm.name = "missing", "critical", "frontmatter">>,
                <<fm.name = "not-kebab", "high", "frontmatter">>,
                <<fm.description = "missing", "high", "frontmatter">>,
                <<fm.description = "no-trigger", "medium", "frontmatter">>,
                <<fm.extra \ {"menu-code"} # {}, "low", "frontmatter">>}, "SKILL.md")

\* Stages are the numbered files next to SKILL.md; a file has the number its
\* name begins with.
StageFiles == {p \in Texts({"root"}) : Text(p).number > 0}
Numbers == {Text(p).number : p \in StageFiles}
\* The numbers in a row there should be, and are not.
NumberGaps ==
    IF StageFiles = {} THEN {}
    ELSE (Min(Numbers)..(Min(Numbers) + Cardinality(StageFiles) - 1)) \ Numbers

StageFindings ==
    {<<"critical", "missing-stage", p>> : p \in Main.refs \ StageFiles} \cup
    {<<"medium", "naming", p>> : p \in StageFiles \ Main.refs} \cup
    Apply({<<NumberGaps # {}, "medium", "naming">>}, "numbers")

WorkflowPrompt(p) ==
    Apply({<<~Text(p).header, "medium", "config-header">>,
           <<~Text(p).progress, "high", "progression">>}, p)
    \cup BluntFindings(Text(p), p) \cup ArtifactFindings(Text(p), WorkflowArtifacts, p)

WorkflowIssues ==
    IF Main.absent THEN {<<"critical", "missing-file", "SKILL.md">>}
    ELSE WorkflowFrontmatter(Main.frontmatter) \cup SectionFindings({"Overview", "On Activation"})
         \cup ArtifactFindings(Main, WorkflowArtifacts, "SKILL.md") \cup BluntFindings(Main, "SKILL.md")
         \cup StageFindings \cup UNION {WorkflowPrompt(p) : p \in StageFiles}

-----------------------------------------------------------------------------
(* prepass-execution-deps.py: patterns of work done one thing at a time.   *)

BulkMemory == {"load-all-memory", "read-all-memory", "load-entire-memory",
               "load-all-context", "read-entire-memory"}
Loops == {"read-all", "for-each-loop", "analyze-each", "scan-all", "review-all"}

\* Three tool calls listed one after the other are one pattern.  An agent's
\* subagent that spawns others would be critical, but it is known by a name
\* without its directory, and the names compared have one.
PatternFindings(text, about) ==
    {<<IF t \in BulkMemory THEN "high" ELSE "medium", t, about>> : t \in text.patterns}
    \cup Apply({<<text.toolSteps >= 3, "medium", "sequential-tool-calls">>}, about)

AgentExecutionIssues ==
    UNION {PatternFindings(Text(p), p) : p \in Texts({"prompts", "agents"})}
    \cup (IF Main.absent THEN {} ELSE PatternFindings(Main, "SKILL.md"))

\* A workflow's prompts lie next to SKILL.md, a name without a number is a
\* subagent's, and only loops are looked for.
WorkflowExecutionIssues ==
    LET Of(text, about) == PatternFindings([text EXCEPT !.patterns = @ \cap Loops], about)
    IN  UNION {Of(Text(p), p) \cup Apply({<<Text(p).spawns /\ Text(p).number = 0,
                                           "critical", "subagent-chain-violation">>}, p) :
                  p \in Texts({"root"})}
        \cup (IF Main.absent THEN {} ELSE Of(Main, "SKILL.md"))

\* These scans warn of medium findings too.
ExecutionStatus(findings) ==
    IF \E f \in findings : f[1] = "critical" THEN "fail"
    ELSE IF \E f \in findings : f[1] \in {"high", "medium"} THEN "warning" ELSE "pass"

-----------------------------------------------------------------------------
(* prepass-sanctum-architecture.py                                         *)

StandardTemplates == {"INDEX-template.md", "PERSONA-template.md", "CREED-template.md",
                      "BOND-template.md", "MEMORY-template.md", "CAPABILITIES-template.md"}
CreedSections == {"The Sacred Truth", "Mission", "Core Values", "Standing Orders",
                  "Philosophy", "Boundaries", "Anti-Patterns", "Dominion"}
Creed == <<"assets", "CREED-template.md">>
FirstBreath == <<"references", "first-breath.md">>
\* The sections of a file that may not be there.
SectionsAt(p) == IF p \in DOMAIN skill.files THEN Text(p).sections ELSE {}

\* A first breath that absorbs the owner's voice is of the other style.
BreathSections ==
    IF "Absorb" \in SectionsAt(FirstBreath)
    THEN {"Save As You Go", "Pacing", "Chase What Catches", "Absorb Their Voice",
          "Show Your Work", "Hear the Silence", "The Territories", "Wrapping Up"}
    ELSE {"Save As You Go", "Discovery", "Urgency", "Wrapping Up"}

\* skill.init is empty or holds what init-sanctum.py says of itself.
InitFindings ==
    IF skill.init = <<>> THEN {<<"critical", "missing-file", "init-sanctum.py">>}
    ELSE Apply({<<~skill.init[1].named, "critical", "skill-name">>,
                <<skill.init[1].templates # SanctumTemplates, "high", "templates">>}, "init-sanctum.py")

\* The laws alone do not make this scan look at an agent.
SanctumIssues ==
    IF SanctumTemplates = {} THEN {}
    ELSE Apply({<<~Main.absent /\ Main.lines > 40, "high", "bootloader">>}, "SKILL.md")
         \cup {<<"critical", "missing-template", t>> : t \in StandardTemplates \ SanctumTemplates}
         \cup {<<"high", "creed", s>> : s \in CreedSections \ SectionsAt(Creed)}
         \cup (IF FirstBreath \notin DOMAIN skill.files
               THEN {<<"critical", "missing-file", "first-breath.md">>}
               ELSE {<<"high", "first-breath", s>> : s \in BreathSections \ SectionsAt(FirstBreath)})
         \cup InitFindings

-----------------------------------------------------------------------------
(* scan-path-standards.py: a use of a path is what kind of path it is, how *)
(* many fence marks stand before it, and how many characters before it the *)
(* closest {project-root}/ begins (15 when the path continues it).         *)

BmadPaths == {"_bmad", "_bmad/memory"}

\* After an odd number of fence marks a use is an example.
Fenced(u) == u.fences % 2 = 1

\* The flag that has examples looked at too is not modelled.
UseFindings(text, memoryToo, about) ==
    LET Seen(kinds) == {u \in text.uses : u.kind \in kinds /\ ~Fenced(u)}
    IN  {<<"critical", u.kind, about>> : u \in Seen({"double-prefix"})}
        \cup {<<"high", u.kind, about>> : u \in Seen({"absolute-path", "relative-prefix", "cross-dir"})}
        \cup {<<"high", "bare-bmad", about>> : u \in {v \in Seen(BmadPaths) : v.back > 30}}
        \cup {<<"high", "memory-path", about>> :
                  u \in {v \in Seen({"_bmad/memory"}) : memoryToo /\ v.back > 20}}

PathFrontmatter(fm) ==
    IF fm.shape = "none" THEN {<<"critical", "frontmatter", "SKILL.md">>}
    ELSE {<<"high", "frontmatter", key>> : key \in fm.extra}

\* Only SKILL.md may lie at the root, whatever the workflow's stages are.
PathIssues(memoryToo) ==
    {<<"high", "structure", p>> : p \in Texts({"root"})}
    \cup (IF Main.absent THEN {}
          ELSE PathFrontmatter(Main.frontmatter) \cup UseFindings(Main, memoryToo, "SKILL.md"))
    \cup UNION {UseFindings(Text(p), memoryToo, p) : p \in DOMAIN skill.files}

-----------------------------------------------------------------------------
(* scan-scripts.py                                                         *)

Is(s, fact) == fact \in s.facts

\* A script that does not parse is looked at no further.
PythonFindings(s) ==
    Apply({<<~Is(s, "pep723") /\ Is(s, "imports"), "medium", "dependencies">>,
           <<Is(s, "pep723") /\ ~Is(s, "requires-python"), "low", "dependencies">>,
           <<Is(s, "pip"), "high", "dependencies">>,
           <<Is(s, "syntax-error"), "critical", "error-handling">>}, s.name)
    \cup (IF Is(s, "syntax-error") THEN {}
          ELSE Apply({<<Is(s, "input"), "critical", "agentic-design">>,
                      <<~Is(s, "argparse") /\ s.lines > 20, "medium", "agentic-design">>,
                      <<~Is(s, "dumps") /\ s.lines > 20, "medium", "agentic-design">>,
                      <<~Is(s, "exit") /\ s.lines > 20, "low", "agentic-design">>,
                      <<Is(s, "file-imports") /\ s.lines < 30, "low", "over-engineered">>,
                      <<s.lines < 5, "medium", "over-engineered">>}, s.name))

ShellFindings(s) ==
    Apply({<<~Is(s, "shebang"), "high", "portability">>,
           <<Is(s, "shebang") /\ ~Is(s, "env"), "medium", "portability">>,
           <<~Is(s, "set-e"), "medium", "error-handling">>,
           <<Is(s, "hardcoded") \/ Is(s, "gnu-only"), "medium", "portability">>,
           <<Is(s, "unquoted"), "low", "portability">>,
           <<Is(s, "unpinned"), "medium", "dependencies">>,
           <<s.lines < 5, "medium", "over-engineered">>}, s.name)

NodeFindings(s) ==
    Apply({<<Is(s, "unpinned"), "medium", "dependencies">>,
           <<s.lines < 5, "medium", "over-engineered">>}, s.name)

PatternChecks(s) ==
    CASE s.language = "python" -> PythonFindings(s)
      [] s.language = "shell" -> ShellFindings(s)
      [] s.language = "node" -> NodeFindings(s)

\* What comes of a linter: its runner is not found, it cannot be started, it
\* takes too long, its output is no JSON, it fails and prints nothing on
\* stdout, or it gives a list of problems.
LintResults(s) ==
    [how : {"no-runner", "not-started", "timeout", "garbled", "silent"}, levels : {{}}] \cup
    [how : {"listed"}, levels : SUBSET (IF s.language = "shell" THEN {"high", "medium"} ELSE {"high"})]

\* Mutant: a linter that does not start leaves nothing behind.
StartedFindings(result, about) ==
    Apply({<<result.how = "no-runner", "high", "lint-setup">>,
           <<result.how \in {"timeout", "garbled"}, "medium", "lint">>}, about)
    \cup {<<level, "lint", about>> : level \in result.levels}
RunnerFindings(result, about) ==
    Apply({<<result.how \in {"no-runner", "not-started"}, "high", "lint-setup">>,
           <<result.how \in {"timeout", "garbled"}, "medium", "lint">>}, about)
    \cup {<<level, "lint", about>> : level \in result.levels}
\* Nothing on stdout is taken for an empty list.
RuffFindings(s, result) == RunnerFindings(result, s.name)
\* The message on stderr is read in its place, and is no JSON.
ShellcheckFindings(s, result) ==
    RunnerFindings(result, s.name) \cup Apply({<<result.how = "silent", "medium", "lint">>}, s.name)
BiomeFindings(s, result) == RunnerFindings(result, s.name)

LintFindings(s, result) ==
    CASE s.language = "python" -> RuffFindings(s, result)
      [] s.language = "shell" -> ShellcheckFindings(s, result)
      [] s.language = "node" -> BiomeFindings(s, result)

TestFindings(s) == Apply({<<skill.tests = <<>> \/ s.name \notin skill.tests[1], "medium", "tests">>}, s.name)

-----------------------------------------------------------------------------
(* The scans run side by side and share nothing but the skill, which none  *)
(* writes: one order stands for all.  Scripts are met one after another.   *)

Found(scan) ==
    CASE scan = "agent-paths" -> PathIssues(TRUE)
      [] scan = "workflow-paths" -> PathIssues(FALSE)
      [] scan = "agent" -> AgentIssues
      [] scan = "workflow" -> WorkflowIssues
      [] scan = "agent-execution" -> AgentExecutionIssues
      [] scan = "workflow-execution" -> WorkflowExecutionIssues
      [] scan = "sanctum" -> SanctumIssues

Ended(scan) == issues[scan] # <<>>

ScanStructure ==
    \E i \in DOMAIN StructureScans :
        /\ ~Ended(StructureScans[i])
        /\ \A j \in 1..(i - 1) : Ended(StructureScans[j])
        /\ issues' = [issues EXCEPT ![StructureScans[i]] = <<Found(StructureScans[i])>>]
        /\ UNCHANGED <<skill, scriptsDone, scriptIssues, linted>>

ScanScript ==
    /\ Ended("sanctum") /\ ~Ended("scripts")
    /\ scriptsDone < Len(skill.scripts)
    /\ LET s == skill.scripts[scriptsDone + 1]
       IN  \E result \in LintResults(s) :
              /\ scriptIssues' = scriptIssues \cup PatternChecks(s) \cup TestFindings(s)
                                              \cup LintFindings(s, result)
              /\ linted' = Append(linted, result)
    /\ scriptsDone' = scriptsDone + 1
    /\ UNCHANGED <<skill, issues>>

ScriptsEnd ==
    /\ Ended("sanctum") /\ ~Ended("scripts")
    /\ scriptsDone = Len(skill.scripts)
    /\ issues' = [issues EXCEPT !["scripts"] =
                     <<scriptIssues \cup Apply({<<skill.scripts # <<>> /\ skill.tests = <<>>,
                                                  "high", "tests">>}, "tests")>>]
    /\ UNCHANGED <<skill, scriptsDone, scriptIssues, linted>>

ScanNext == ScanStructure \/ ScanScript \/ ScriptsEnd

ScanInit(skills) ==
    /\ skill \in skills
    /\ issues = [s \in Scans |-> <<>>]
    /\ scriptsDone = 0 /\ scriptIssues = {} /\ linted = <<>>

ScanSpec(skills) == ScanInit(skills) /\ [][ScanNext]_scanVars

-----------------------------------------------------------------------------
(* Properties.                                                             *)

Passed(scan) ==
    /\ Ended(scan)
    /\ CASE scan \in {"agent-execution", "workflow-execution"} -> ExecutionStatus(issues[scan][1]) = "pass"
         [] scan \in {"agent-paths", "workflow-paths", "sanctum"} -> issues[scan][1] = {}
         [] OTHER -> Status(issues[scan][1]) = "pass"

\* What a scan that passes vouches for, whatever else is found or fails.  An
\* agent's: no text it goes by still has a marker of the template, and the
\* agent has the sections its kind is run by.  A workflow's: following the
\* stages SKILL.md names, one always finds the file, a way on from it, and
\* no marker.  The sanctum's: what init-sanctum.py will copy is all there and
\* is all that a memory agent needs.  The paths': outside of examples a path
\* of the project stands by its root.  The scripts': each parses, asks nothing
\* of a terminal and was linted without a grave problem, unless its linter
\* gave out half way.
PassMeansSound ==
    /\ Passed("agent") =>
          /\ ~Main.absent /\ AgentSections \subseteq Main.sections
          /\ Main.left \cap AgentArtifacts = {}
          /\ \A p \in Texts({"root", "references"}) : Text(p).left \cap AgentArtifacts = {} /\ Text(p).progress
    /\ Passed("workflow") =>
          \A p \in Main.refs :
              /\ p \in DOMAIN skill.files
              /\ Text(p).progress /\ Text(p).left \cap WorkflowArtifacts = {}
    /\ Passed("agent-execution") =>
          \A p \in Texts({"prompts", "agents"}) : Text(p).patterns = {}
    /\ Passed("workflow-execution") => \A p \in Texts({"root"}) : Text(p).spawns => Text(p).number > 0
    /\ Passed("sanctum") /\ SanctumTemplates # {} =>
          /\ StandardTemplates \subseteq skill.init[1].templates
          /\ skill.init[1].templates \subseteq SanctumTemplates
          /\ FirstBreath \in DOMAIN skill.files
    /\ Passed("agent-paths") =>
          \A p \in DOMAIN skill.files :
              \A u \in {v \in Text(p).uses : ~Fenced(v)} :
                  u.kind \in BmadPaths /\ u.back <= (IF u.kind = "_bmad" THEN 30 ELSE 20)
    /\ Passed("scripts") =>
          /\ skill.scripts # <<>> => skill.tests # <<>>
          /\ \A i \in DOMAIN skill.scripts :
                LET s == skill.scripts[i]
                IN  /\ s.language = "python" => ~Is(s, "syntax-error") /\ ~Is(s, "input")
                    /\ s.language = "shell" => Is(s, "shebang")
                    /\ linted[i].how \notin {"no-runner", "not-started"}
                    /\ linted[i].how = "listed" => "high" \notin linted[i].levels
=============================================================================
