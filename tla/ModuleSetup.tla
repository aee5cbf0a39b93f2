---------------------------- MODULE ModuleSetup ----------------------------
(***************************************************************************)
(* Setting up BMad modules in a project, as a setup skill directs it: the  *)
(* owner's answers are merged into _bmad/config.yaml and config.user.yaml  *)
(* (merge-config.py) and the module's help rows into module-help.csv       *)
(* (merge-help-csv.py), the two scripts running side by side; when both    *)
(* are through, the installer's directories are removed                    *)
(* (cleanup-legacy.py).  The old per-module files of the installer are     *)
(* read as defaults and deleted.                                           *)
(*                                                                         *)
(* A file is written by truncating it and dumping the new content, so a    *)
(* crash between the two leaves it empty.  Any step may be the last one of *)
(* a setup, and the setup may be run again.  Modules are set up one after  *)
(* another.                                                                *)
(***************************************************************************)
EXTENDS Naturals

CONSTANTS
    Modules,      \* module codes
    SharedKeys,   \* core keys kept at the root of config.yaml
    UserKeys,     \* core keys kept in config.user.yaml
    Variables,    \* Variables[m]: the variables module.yaml of m defines
    UserVars,     \* the variables marked user_setting
    BlankRows,    \* modules whose help file also has rows without a code
    Skills,       \* skills the installer may have packaged
    Values,       \* values an owner may give
    Default,      \* the default of module.yaml
    MaxRuns,      \* bound: setups begun
    NoFile,       \* a file that does not exist
    NoSetup       \* no setup is running

CoreKeys == SharedKeys \cup UserKeys
Keys == CoreKeys \cup UNION {Variables[m] : m \in Modules}
Dirs == Modules \cup {"core", "_config"}

\* A value as given, or with the {project-root} token in front.
Value == [of : Values \cup {Default}, rooted : BOOLEAN]
Dict == UNION {[S -> Value] : S \in SUBSET Keys}
EmptyDict == [k \in {} |-> Default]

ASSUME SetupAssumption ==
    /\ SharedKeys \cap UserKeys = {}
    /\ \A m \in Modules : Variables[m] \cap CoreKeys = {}
    /\ UserVars \subseteq UNION {Variables[m] : m \in Modules}
    /\ {"core", "_config"} \cap Modules = {}
    /\ MaxRuns \in Nat
    /\ NoSetup \notin [module : Modules, answers : [core : Dict, module : Dict]]

EmptyConfig == [root |-> EmptyDict, core |-> EmptyDict, sections |-> EmptyDict]

VARIABLES
    config,       \* config.yaml: root keys, an old nested core section, module sections
    userConfig,   \* config.user.yaml
    help,         \* help[m]: copies of m's coded and uncoded rows in module-help.csv
    legacy,       \* legacy[d]: config.yaml in the directory d of the installer
    legacyHelp,   \* the directories that still have a module-help.csv
    package,      \* package[d]: the skills in d, for the directories that exist
    installed,    \* the skills found under .claude/skills
    setup,        \* the setup that runs: its module and the owner's answers
    step,         \* where the three scripts of the setup are
    work,         \* what the scripts have computed and not yet written
    runs,         \* setups begun
    given,        \* history: the installer's files and skills at the start
    answered,     \* history: the answers of every finished setup
    chosen,       \* history: a personal setting's answer in the last setup that has it
    cut           \* history: the files a crash has cut off

setupVars == <<config, userConfig, help, legacy, legacyHelp, package, installed,
          setup, step, work, runs, given, answered, chosen, cut>>

-----------------------------------------------------------------------------
(* Dictionaries.                                                           *)

\* dict.update
Updated(base, over) ==
    [k \in DOMAIN base \cup DOMAIN over |-> IF k \in DOMAIN over THEN over[k] ELSE base[k]]
Restricted(dict, S) == [k \in DOMAIN dict \cap S |-> dict[k]]
Without(dict, S) == [k \in DOMAIN dict \ S |-> dict[k]]

Contents(file) == IF file = NoFile THEN EmptyDict ELSE file

-----------------------------------------------------------------------------
(* merge-config.py                                                         *)

\* Values of the installer's files whose keys are still in the schema; the
\* core file goes before the core keys repeated in the module's file.
LegacyCore(m) ==
    Updated(Restricted(Contents(legacy[m]), CoreKeys),
            Restricted(Contents(legacy["core"]), CoreKeys))
LegacyModule(m) == Restricted(Contents(legacy[m]), Variables[m])

\* Mutant: the old values are not carried over.
AnswersOnly(m, answers) == answers

\* Old values fill in what was not answered.
WithLegacy(m, answers) ==
    [core |-> Updated(LegacyCore(m), answers.core),
     module |-> Updated(LegacyModule(m), answers.module)]

\* The result template puts the root token in front, once.
Templated(answers) == [k \in DOMAIN answers |-> [answers[k] EXCEPT !.rooted = TRUE]]

\* The nested core section moves to the root, the user's keys are dropped,
\* the shared answers written, and the module's section built anew.
MergedConfig(m, answers) ==
    [root |-> Updated(Without(Updated(config.root, config.core), UserKeys),
                      Restricted(answers.core, SharedKeys)),
     core |-> EmptyDict,
     sections |-> [n \in DOMAIN config.sections \cup {m} |->
                     IF n = m THEN Templated(answers.module) ELSE config.sections[n]]]

UserSettings(answers) ==
    Updated(Restricted(answers.core, UserKeys), Restricted(answers.module, UserVars))

ConfigLoad ==
    /\ step.config = "load"
    /\ LET m == setup.module
           answers == WithLegacy(m, setup.answers)
       IN  work' = [work EXCEPT !.config = MergedConfig(m, answers),
                                !.user = UserSettings(answers)]
    /\ step' = [step EXCEPT !.config = "write"]
    /\ UNCHANGED <<config, userConfig, help, legacy, legacyHelp, package, installed,
                   setup, runs, given, answered, chosen, cut>>

ConfigTruncate ==
    /\ step.config = "write"
    /\ config' = EmptyConfig
    /\ step' = [step EXCEPT !.config = "dump"]
    /\ UNCHANGED <<userConfig, help, legacy, legacyHelp, package, installed,
                   setup, work, runs, given, answered, chosen, cut>>

\* config.user.yaml is touched only when there is something to write.
ConfigDump ==
    /\ step.config = "dump"
    /\ config' = work.config
    /\ step' = [step EXCEPT !.config = IF work.user = EmptyDict THEN "unlink" ELSE "user"]
    /\ UNCHANGED <<userConfig, help, legacy, legacyHelp, package, installed,
                   setup, work, runs, given, answered, chosen, cut>>

UserTruncate ==
    /\ step.config = "user"
    /\ work' = [work EXCEPT !.user = Updated(userConfig, work.user)]
    /\ userConfig' = EmptyDict
    /\ step' = [step EXCEPT !.config = "userDump"]
    /\ UNCHANGED <<config, help, legacy, legacyHelp, package, installed,
                   setup, runs, given, answered, chosen, cut>>

UserDump ==
    /\ step.config = "userDump"
    /\ userConfig' = work.user
    /\ step' = [step EXCEPT !.config = "unlink"]
    /\ UNCHANGED <<config, help, legacy, legacyHelp, package, installed,
                   setup, work, runs, given, answered, chosen, cut>>

\* The module's old file goes first, the core's after it.
ConfigUnlink ==
    /\ step.config \in {"unlink", "unlinkCore"}
    /\ LET last == step.config = "unlinkCore"
           d == IF last THEN "core" ELSE setup.module
       IN  /\ legacy' = [legacy EXCEPT ![d] = NoFile]
           /\ step' = [step EXCEPT !.config = IF last THEN "done" ELSE "unlinkCore"]
    /\ UNCHANGED <<config, userConfig, help, legacyHelp, package, installed,
                   setup, work, runs, given, answered, chosen, cut>>

-----------------------------------------------------------------------------
(* merge-help-csv.py                                                       *)

NoRows == [m \in Modules |-> [coded |-> 0, uncoded |-> 0]]

\* Mutant: the rows of an earlier setup stay.
AppendedHelp(m) ==
    [help EXCEPT ![m] = [coded |-> @.coded + 1,
                         uncoded |-> @.uncoded + (IF m \in BlankRows THEN 1 ELSE 0)]]

\* Rows with a code of the source are removed, the source's are appended.  A
\* row without a code matches none.
MergedHelp(m) ==
    [help EXCEPT ![m] = [coded |-> 1,
                         uncoded |-> @.uncoded + (IF m \in BlankRows THEN 1 ELSE 0)]]

HelpLoad ==
    /\ step.help = "load"
    /\ work' = [work EXCEPT !.help = MergedHelp(setup.module)]
    /\ step' = [step EXCEPT !.help = "write"]
    /\ UNCHANGED <<config, userConfig, help, legacy, legacyHelp, package, installed,
                   setup, runs, given, answered, chosen, cut>>

HelpTruncate ==
    /\ step.help = "write"
    /\ help' = NoRows
    /\ step' = [step EXCEPT !.help = "dump"]
    /\ UNCHANGED <<config, userConfig, legacy, legacyHelp, package, installed,
                   setup, work, runs, given, answered, chosen, cut>>

HelpDump ==
    /\ step.help = "dump"
    /\ help' = work.help
    /\ step' = [step EXCEPT !.help = "unlink"]
    /\ UNCHANGED <<config, userConfig, legacy, legacyHelp, package, installed,
                   setup, work, runs, given, answered, chosen, cut>>

HelpUnlink ==
    /\ step.help \in {"unlink", "unlinkCore"}
    /\ LET last == step.help = "unlinkCore"
       IN  /\ legacyHelp' = legacyHelp \ {IF last THEN "core" ELSE setup.module}
           /\ step' = [step EXCEPT !.help = IF last THEN "done" ELSE "unlinkCore"]
    /\ UNCHANGED <<config, userConfig, help, legacy, package, installed,
                   setup, work, runs, given, answered, chosen, cut>>

-----------------------------------------------------------------------------
(* cleanup-legacy.py, and the setup around the three scripts               *)

Idle == [config |-> "idle", help |-> "idle", clean |-> "idle"]
NoWork == [config |-> EmptyConfig, user |-> EmptyDict, help |-> NoRows]

Stop == setup' = NoSetup /\ step' = Idle /\ work' = NoWork

\* History: what the setup that ends was answered.
Recorded ==
    /\ answered' = [answered EXCEPT ![setup.module] = setup.answers]
    /\ chosen' = [k \in UserVars |-> IF k \in Variables[setup.module]
                                     THEN setup.answers.module[k] ELSE chosen[k]]

\* The directories to remove, in the order they are removed.
NextDir == [module |-> "core", core |-> "_config", _config |-> "done"]
DirOf(place) == IF place = "module" THEN setup.module ELSE place
ToRemove == {setup.module, "core", "_config"}

\* Every skill of every directory must be installed, or nothing is removed
\* and the setup ends.
CleanVerify ==
    /\ step.config = "done" /\ step.help = "done" /\ step.clean = "idle"
    /\ IF UNION {package[d] : d \in ToRemove \cap DOMAIN package} \subseteq installed
       THEN step' = [step EXCEPT !.clean = "module"] /\ UNCHANGED <<setup, work, answered, chosen>>
       ELSE Stop /\ Recorded
    /\ UNCHANGED <<config, userConfig, help, legacy, legacyHelp, package, installed,
                   runs, given, cut>>

\* A whole directory goes with what it holds; one that is missing is passed over.
CleanRemove ==
    /\ step.clean \in {"module", "core", "_config"}
    /\ LET d == DirOf(step.clean)
       IN  /\ package' = Without(package, {d})
           /\ legacy' = [legacy EXCEPT ![d] = NoFile]
           /\ legacyHelp' = legacyHelp \ {d}
    /\ step' = [step EXCEPT !.clean = NextDir[step.clean]]
    /\ UNCHANGED <<config, userConfig, help, installed, setup, work, runs, given,
                   answered, chosen, cut>>

\* rmtree gives up part of the way: the script reports an error and stops.
CleanFail ==
    /\ step.clean \in {"module", "core", "_config"}
    /\ LET d == DirOf(step.clean)
       IN  /\ d \in DOMAIN package
           /\ \E left \in SUBSET package[d] : package' = [package EXCEPT ![d] = left]
           /\ legacy' \in {legacy, [legacy EXCEPT ![d] = NoFile]}
           /\ legacyHelp' \in {legacyHelp, legacyHelp \ {d}}
    /\ Stop
    /\ Recorded
    /\ UNCHANGED <<config, userConfig, help, installed, runs, given, cut>>

Finish ==
    /\ step.clean = "done"
    /\ Stop
    /\ Recorded
    /\ UNCHANGED <<config, userConfig, help, legacy, legacyHelp, package, installed,
                   runs, given, cut>>

\* The defaults the owner is offered: what the new files hold, else the old
\* ones, else module.yaml.
Offered(k, new, old) ==
    CASE k \in DOMAIN new -> new[k]
      [] k \notin DOMAIN new /\ k \in DOMAIN old -> old[k]
      [] OTHER -> [of |-> Default, rooted |-> FALSE]
Answers(S, new, old) ==
    {f \in [S -> Value] : \A k \in S : \/ f[k] = Offered(k, new, old)
                                       \/ f[k] \in [of : Values, rooted : {FALSE}]}

\* The core questions are asked only when no core key is set yet.
Section(m) == IF m \in DOMAIN config.sections THEN config.sections[m] ELSE EmptyDict
HasCore == (DOMAIN config.root \cup DOMAIN config.core \cup DOMAIN userConfig) \cap CoreKeys # {}

Begin(m) ==
    /\ setup = NoSetup
    /\ runs < MaxRuns
    /\ runs' = runs + 1
    /\ \E core \in IF HasCore THEN {EmptyDict} ELSE Answers(CoreKeys, EmptyDict, LegacyCore(m)),
          module \in Answers(Variables[m], Section(m), LegacyModule(m)) :
             setup' = [module |-> m, answers |-> [core |-> core, module |-> module]]
    /\ step' = [config |-> "load", help |-> "load", clean |-> "idle"]
    /\ answered' = [answered EXCEPT ![m] = NoSetup]
    /\ chosen' = [k \in UserVars |-> IF k \in Variables[m] THEN NoSetup ELSE chosen[k]]
    /\ UNCHANGED <<config, userConfig, help, legacy, legacyHelp, package, installed, work,
                   given, cut>>

\* The setup is interrupted anywhere; a file that was being written is empty.
Crash ==
    /\ setup # NoSetup
    /\ Stop
    /\ cut' = cut \cup {f \in {"config", "user", "help"} :
                           \/ f = "config" /\ step.config = "dump"
                           \/ f = "user" /\ step.config = "userDump"
                           \/ f = "help" /\ step.help = "dump"}
    /\ UNCHANGED <<config, userConfig, help, legacy, legacyHelp, package, installed, runs,
                   given, answered, chosen>>

ConfigStep == ConfigLoad \/ ConfigTruncate \/ ConfigDump \/ UserTruncate \/ UserDump \/ ConfigUnlink
HelpStep == HelpLoad \/ HelpTruncate \/ HelpDump \/ HelpUnlink
CleanStep == CleanVerify \/ CleanRemove \/ CleanFail \/ Finish

SetupNext == ConfigStep \/ HelpStep \/ CleanStep \/ Crash \/ \E m \in Modules : Begin(m)

\* The installer's state: its files, its directories, what reached .claude/skills.
SetupInit(configs, users, legacies, packages, installs) ==
    /\ config \in configs /\ userConfig \in users
    /\ help \in {NoRows, [m \in Modules |-> [coded |-> 1, uncoded |-> 0]]}
    /\ legacy \in legacies
    /\ legacyHelp = {d \in Dirs : legacy[d] # NoFile}
    /\ package \in packages
    /\ installed \in installs
    /\ setup = NoSetup /\ step = Idle /\ work = NoWork /\ runs = 0
    /\ given = [files |-> legacy, skills |-> UNION {package[d] : d \in DOMAIN package}]
    /\ answered = [m \in Modules |-> NoSetup]
    /\ chosen = [k \in UserVars |-> NoSetup]
    /\ cut = {}

ModuleSetupSpec(configs, users, legacies, packages, installs) ==
    SetupInit(configs, users, legacies, packages, installs) /\ [][SetupNext]_setupVars

-----------------------------------------------------------------------------
(* Properties.                                                             *)

Holds(m, k) ==
    CASE k \in UserKeys -> k \in DOMAIN userConfig \/ "user" \in cut \/ step.config = "userDump"
      [] k \in SharedKeys -> k \in DOMAIN config.root \/ "config" \in cut \/ step.config = "dump"
      [] OTHER -> k \in DOMAIN Section(m) \/ "config" \in cut \/ step.config = "dump"
Recognised(m) == DOMAIN given.files[m] \cap (CoreKeys \cup Variables[m])

\* Whatever is interrupted and run again, a value of the installer's files
\* that the schema still knows is either in its old file or has reached the
\* new ones, and a skill is either in its package or installed: nothing is
\* deleted before what replaces it is there (the order of main, and the
\* check before removal).  Files cut off by a crash are excepted.
NothingLost ==
    /\ \A m \in Modules : given.files[m] # NoFile =>
          \A k \in Recognised(m) : legacy[m] # NoFile \/ Holds(m, k)
    /\ given.files["core"] # NoFile =>
          \A k \in DOMAIN given.files["core"] \cap CoreKeys :
             legacy["core"] # NoFile \/ \E m \in Modules : Holds(m, k)
    /\ given.skills \subseteq installed \cup UNION {package[d] : d \in DOMAIN package}

\* After a setup, its module's section in config.yaml has variables of the
\* module only (what an earlier version had is gone), and the shared ones
\* exactly as answered, with the root token once, however often it was run
\* and whoever else was set up in between.  (The module's name, description and
\* version, which the script puts beside them, are left out.)
SectionsAsAnswered ==
    "config" \notin cut /\ step.config # "dump" =>
        \A m \in Modules : answered[m] # NoSetup =>
            /\ DOMAIN Section(m) \subseteq Variables[m]
            /\ \A k \in Variables[m] \ UserVars :
                  k \in DOMAIN Section(m) /\ Section(m)[k] = Templated(answered[m].module)[k]

\* config.user.yaml is flat: a personal setting has the answer of the last
\* setup that asked for it, of whichever module.
PersonalAsChosen ==
    "user" \notin cut /\ step.config # "userDump" =>
        \A k \in UserVars : chosen[k] # NoSetup =>
            k \in DOMAIN userConfig /\ userConfig[k] = chosen[k]

\* Of the rows that carry its code, the help file never holds a module's
\* twice, and after its setup it holds them once, whichever modules were set
\* up or interrupted since.  Nothing is said of rows without a code.
HelpRowsExact ==
    \A m \in Modules :
        /\ help[m].coded \leq 1
        /\ answered[m] # NoSetup /\ "help" \notin cut /\ step.help # "dump" => help[m].coded = 1

\* Setting up a module takes effect and keeps it, in all three files (a file
\* that a crash cut off, or that is being written, is excepted).
SetupTakesEffect == SectionsAsAnswered /\ PersonalAsChosen /\ HelpRowsExact

\* What the setup skill promises of defaults: values in the new files go
\* before those of the installer, so only an answer may change a value that
\* is already at the root of config.yaml.
ExistingBeatsLegacy ==
    step.config = "write" =>
        \A k \in DOMAIN config.root \cap DOMAIN work.config.root :
            k \in DOMAIN setup.answers.core \/ work.config.root[k] = config.root[k]
=============================================================================
