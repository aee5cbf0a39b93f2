------------------------- MODULE ModuleSetupProofs -------------------------
(***************************************************************************)
(* For any modules, keys, files and skills, any number of setups, and a    *)
(* crash at any step: nothing the installer left is lost by setting up     *)
(* modules, and what a setup was answered stays in force.                  *)
(***************************************************************************)
EXTENDS ModuleSetup, TLAPS

\* What a file holds, or will hold once the dump under way is through.
ConfigNow == IF step.config = "dump" THEN work.config ELSE config
UserNow == IF step.config = "userDump" THEN work.user ELSE userConfig
SectionKeys(c, m) == IF m \in DOMAIN c.sections THEN DOMAIN c.sections[m] ELSE {}

\* A key of module m is in the new files, or was until a crash cut one off.
Reached(m, k) ==
    /\ k \in UserKeys => k \in DOMAIN UserNow \/ "user" \in cut
    /\ k \in SharedKeys => k \in DOMAIN ConfigNow.root \/ "config" \in cut
    /\ k \notin CoreKeys => k \in SectionKeys(ConfigNow, m) \/ "config" \in cut

\* The core keys a setup of m finds in the old files.
OldKeys(m) == (DOMAIN Contents(legacy[m]) \cup DOMAIN Contents(legacy["core"])) \cap CoreKeys

ConfigPlaces == {"idle", "load", "write", "dump", "user", "userDump", "unlink", "unlinkCore", "done"}
HelpPlaces == {"idle", "load", "write", "dump", "unlink", "unlinkCore", "done"}
Removing == {"module", "core", "_config"}

Shape(Files) ==
    /\ step \in [config : ConfigPlaces, help : HelpPlaces, clean : Removing \cup {"idle", "done"}]
    /\ work = [config |-> work.config, user |-> work.user, help |-> work.help]
    /\ legacy \in [Dirs -> Files \cup {NoFile}]
    /\ package \in [DOMAIN package -> SUBSET Skills]

SetupInv ==
    /\ setup = NoSetup => step.config = "idle"
    /\ step.config # "idle" => /\ setup.module \in Modules
                               /\ DOMAIN setup.answers.module = Variables[setup.module]
    /\ step.clean # "idle" => step.config = "done"

\* The old files go in their turn.
OldFilesInv ==
    /\ \A d \in Dirs : legacy[d] \in {given.files[d], NoFile}
    /\ step.config \in {"unlinkCore", "done"} => legacy[setup.module] = NoFile
    /\ step.config = "done" => legacy["core"] = NoFile

\* What was in an old file that is gone has reached the new ones.
ReachedInv ==
    /\ \A m \in Modules : legacy[m] = NoFile /\ given.files[m] # NoFile =>
          \A k \in Recognised(m) : Reached(m, k)
    /\ legacy["core"] = NoFile /\ given.files["core"] # NoFile =>
          \A m \in Modules : \A k \in DOMAIN given.files["core"] \cap CoreKeys : Reached(m, k)

\* What is about to be written holds the old and the new.
WorkInv ==
    /\ step.config = "write" =>
          /\ DOMAIN config.root \cap SharedKeys \subseteq DOMAIN work.config.root
          /\ \A n \in Modules : SectionKeys(config, n) \cap Variables[n] \subseteq SectionKeys(work.config, n)
    /\ step.config \in {"write", "dump"} =>
          /\ OldKeys(setup.module) \cap SharedKeys \subseteq DOMAIN work.config.root
          /\ Variables[setup.module] \subseteq SectionKeys(work.config, setup.module)
    /\ step.config \in {"write", "dump", "user", "userDump"} =>
          OldKeys(setup.module) \cap UserKeys \subseteq DOMAIN work.user

\* What a setup has written holds what it read.
WrittenInv ==
    /\ step.config \in {"user", "userDump", "unlink", "unlinkCore"} =>
          /\ OldKeys(setup.module) \cap SharedKeys \subseteq DOMAIN config.root
          /\ Variables[setup.module] \subseteq SectionKeys(config, setup.module)
    /\ step.config \in {"unlink", "unlinkCore"} =>
          OldKeys(setup.module) \cap UserKeys \subseteq DOMAIN userConfig

\* No skill is in a package alone once removal has begun.
SkillsInv ==
    /\ given.skills \subseteq installed \cup UNION {package[d] : d \in DOMAIN package}
    /\ step.clean \in Removing => \A d \in ToRemove \cap DOMAIN package : package[d] \subseteq installed

SetupIInv(Files) ==
    /\ Shape(Files) /\ SetupInv /\ OldFilesInv /\ ReachedInv /\ WorkInv /\ WrittenInv /\ SkillsInv

-----------------------------------------------------------------------------
LEMMA KeysApart ==
    /\ SharedKeys \cap UserKeys = {} /\ CoreKeys = SharedKeys \cup UserKeys
    /\ \A m \in Modules : m # "core" /\ m # "_config" /\ Variables[m] \cap CoreKeys = {}
    /\ Modules \subseteq Dirs /\ "core" \in Dirs /\ "_config" \in Dirs
BY SetupAssumption DEF CoreKeys, Dirs

LEMMA InvariantMeansNothingLost ==
    ASSUME NEW Files, SetupIInv(Files), Modules # {}
    PROVE  NothingLost
<1> USE DEF SetupIInv
<1>1. ASSUME NEW m \in Modules, NEW k \in CoreKeys \cup Variables[m], Reached(m, k)
      PROVE  Holds(m, k)
    BY <1>1, KeysApart DEF Reached, Holds, ConfigNow, UserNow, SectionKeys, Section, EmptyDict
<1>2. \A m \in Modules : given.files[m] # NoFile =>
         \A k \in Recognised(m) : legacy[m] # NoFile \/ Holds(m, k)
    BY <1>1 DEF ReachedInv, Recognised
<1>3. given.files["core"] # NoFile =>
         \A k \in DOMAIN given.files["core"] \cap CoreKeys :
            legacy["core"] # NoFile \/ \E m \in Modules : Holds(m, k)
    BY <1>1 DEF ReachedInv
<1> QED
    BY <1>2, <1>3 DEF NothingLost, SkillsInv

LEMMA InitSetup ==
    ASSUME NEW Files, NEW configs, NEW users, NEW legacies, NEW packages, NEW installs,
           legacies \subseteq [Dirs -> Files],
           packages \subseteq UNION {[D -> SUBSET Skills] : D \in SUBSET Dirs},
           SetupInit(configs, users, legacies, packages, installs)
    PROVE  SetupIInv(Files)
<1> USE DEF SetupInit
<1>1. Shape(Files)
    BY DEF Shape, Idle, NoWork, ConfigPlaces, HelpPlaces
<1>2. SetupInv /\ WorkInv /\ WrittenInv
    BY DEF SetupInv, WorkInv, WrittenInv, Idle
<1>3. OldFilesInv
    BY DEF OldFilesInv, Idle
<1>4. ReachedInv
    BY KeysApart DEF ReachedInv
<1>5. SkillsInv
    BY DEF SkillsInv, Idle, Removing
<1> QED
    BY <1>1, <1>2, <1>3, <1>4, <1>5 DEF SetupIInv
-----------------------------------------------------------------------------
\* While the old files stay, what has reached the new ones stays there when
\* those only grow, or are cut off.
LEMMA ReachedKept ==
    ASSUME ReachedInv, UNCHANGED <<legacy, given>>, cut \subseteq cut',
           DOMAIN UserNow \cap UserKeys \subseteq DOMAIN UserNow' \/ "user" \in cut',
           \/ /\ DOMAIN ConfigNow.root \cap SharedKeys \subseteq DOMAIN ConfigNow'.root
              /\ \A n \in Modules : SectionKeys(ConfigNow, n) \cap Variables[n] \subseteq SectionKeys(ConfigNow, n)'
           \/ "config" \in cut'
    PROVE  ReachedInv'
<1>1. ASSUME NEW m \in Modules, NEW k \in CoreKeys \cup Variables[m], Reached(m, k)
      PROVE  Reached(m, k)'
    <2>1. k \in UserKeys => k \in DOMAIN UserNow' \/ "user" \in cut'
        BY <1>1 DEF Reached
    <2>2. k \in SharedKeys => k \in DOMAIN ConfigNow'.root \/ "config" \in cut'
        BY <1>1 DEF Reached
    <2>3. k \notin CoreKeys => k \in SectionKeys(ConfigNow, m)' \/ "config" \in cut'
        BY <1>1 DEF Reached
    <2> QED
        BY <2>1, <2>2, <2>3 DEF Reached
<1>2. \A m \in Modules : Recognised(m)' = Recognised(m) /\ Recognised(m) \subseteq CoreKeys \cup Variables[m]
    BY DEF Recognised
<1>3. \A m \in Modules : legacy'[m] = NoFile /\ given'.files[m] # NoFile =>
         \A k \in Recognised(m)' : Reached(m, k)'
    BY <1>1, <1>2 DEF ReachedInv
<1>4. legacy'["core"] = NoFile /\ given'.files["core"] # NoFile =>
         \A m \in Modules : \A k \in DOMAIN given'.files["core"] \cap CoreKeys : Reached(m, k)'
    BY <1>1 DEF ReachedInv
<1> QED
    BY <1>3, <1>4 DEF ReachedInv

LEMMA OldKeysKept ==
    ASSUME UNCHANGED legacy, NEW m
    PROVE  OldKeys(m)' = OldKeys(m)
BY DEF OldKeys, Contents

LEMMA ConfigLoadKeeps ==
    ASSUME NEW Files, SetupIInv(Files), ConfigLoad
    PROVE  SetupIInv(Files)'
<1> DEFINE m == setup.module
           answers == WithLegacy(m, setup.answers)
<1> USE DEF SetupIInv
<1>1. /\ step.config = "load" /\ step' = [step EXCEPT !.config = "write"]
      /\ work' = [work EXCEPT !.config = MergedConfig(m, answers), !.user = UserSettings(answers)]
      /\ UNCHANGED <<config, userConfig, legacy, package, installed, setup, given, cut>>
    BY DEF ConfigLoad
<1>2. /\ step'.config = "write" /\ step'.clean = step.clean /\ step'.help = step.help
      /\ work'.config = MergedConfig(m, answers) /\ work'.user = UserSettings(answers)
      /\ m \in Modules /\ DOMAIN setup.answers.module = Variables[m] /\ step.clean = "idle"
    <2> HIDE DEF m, answers
    <2> QED
        BY <1>1 DEF Shape, SetupInv, m
<1>3. Shape(Files)'
    <2> HIDE DEF m, answers
    <2> QED
        BY <1>1, <1>2 DEF Shape, ConfigPlaces
<1>4. SetupInv' /\ OldFilesInv' /\ WrittenInv' /\ SkillsInv'
    <2> HIDE DEF m, answers
    <2> QED
        BY <1>1, <1>2 DEF SetupInv, OldFilesInv, WrittenInv, SkillsInv, Removing
<1>5. ReachedInv'
    <2>1. ConfigNow' = ConfigNow /\ UserNow' = UserNow
        BY <1>1, <1>2 DEF ConfigNow, UserNow
    <2> QED
        BY <1>1, <2>1, ReachedKept DEF SectionKeys
<1>6. /\ DOMAIN answers.core = OldKeys(m) \cup DOMAIN setup.answers.core
      /\ Variables[m] \subseteq DOMAIN answers.module
    BY <1>2 DEF WithLegacy, LegacyCore, LegacyModule, Updated, Restricted, OldKeys
<1>7. /\ DOMAIN config.root \cap SharedKeys \subseteq DOMAIN work'.config.root
      /\ OldKeys(m) \cap SharedKeys \subseteq DOMAIN work'.config.root
      /\ OldKeys(m) \cap UserKeys \subseteq DOMAIN work'.user
    <2> HIDE DEF answers
    <2> QED
        BY <1>2, <1>6, KeysApart DEF MergedConfig, UserSettings, Updated, Without, Restricted
<1>8. /\ \A n \in Modules : SectionKeys(config, n) \cap Variables[n] \subseteq SectionKeys(work'.config, n)
      /\ Variables[m] \subseteq SectionKeys(work'.config, m)
    <2> HIDE DEF answers
    <2> QED
        BY <1>2, <1>6 DEF MergedConfig, SectionKeys, Templated
<1>9. WorkInv'
    <2>1. OldKeys(m)' = OldKeys(m) /\ setup' = setup /\ config' = config
        BY <1>1, OldKeysKept
    <2>2. SectionKeys(work.config, m)' = SectionKeys(work'.config, m)
        BY <1>1 DEF SectionKeys
    <2> HIDE DEF answers
    <2> QED
        BY <1>2, <1>7, <1>8, <2>1, <2>2, OldKeysKept, <1>1 DEF WorkInv, SectionKeys
<1> QED
    BY <1>3, <1>4, <1>5, <1>9
\* The files are truncated and written, one after the other.
LEMMA ConfigWriteKeeps ==
    ASSUME NEW Files, SetupIInv(Files), ConfigTruncate \/ ConfigDump
    PROVE  SetupIInv(Files)'
<1> USE DEF SetupIInv
<1>1. CASE ConfigTruncate
    <2>1. /\ step.config = "write" /\ step' = [step EXCEPT !.config = "dump"]
          /\ config' = EmptyConfig
          /\ UNCHANGED <<userConfig, work, legacy, package, installed, setup, given, cut>>
        BY <1>1 DEF ConfigTruncate
    <2>2. step'.config = "dump" /\ step'.clean = step.clean /\ step.clean = "idle"
        BY <2>1 DEF Shape, SetupInv
    <2>3. Shape(Files)'
        BY <2>1 DEF Shape, ConfigPlaces
    <2>4. SetupInv' /\ OldFilesInv' /\ WrittenInv' /\ SkillsInv'
        BY <2>1, <2>2 DEF SetupInv, OldFilesInv, WrittenInv, SkillsInv, Removing
    <2>5. ReachedInv'
        <3>1. UserNow' = UserNow /\ ConfigNow' = work.config /\ ConfigNow = config
            BY <2>1, <2>2 DEF ConfigNow, UserNow
        <3>2. \A n \in Modules : SectionKeys(ConfigNow, n) \cap Variables[n] \subseteq SectionKeys(ConfigNow, n)'
            BY <2>1, <3>1 DEF WorkInv, SectionKeys
        <3> QED
            BY <2>1, <3>1, <3>2, ReachedKept DEF WorkInv
    <2>6. WorkInv'
        BY <2>1, <2>2, OldKeysKept DEF WorkInv, SectionKeys
    <2> QED
        BY <2>3, <2>4, <2>5, <2>6
<1>2. CASE ConfigDump
    <2> DEFINE next == IF work.user = EmptyDict THEN "unlink" ELSE "user"
    <2>1. /\ step.config = "dump" /\ step' = [step EXCEPT !.config = next]
          /\ config' = work.config
          /\ UNCHANGED <<userConfig, work, legacy, package, installed, setup, given, cut>>
        BY <1>2 DEF ConfigDump
    <2>2. /\ next \in {"user", "unlink"} /\ (next = "unlink" => DOMAIN work.user = {})
          /\ step'.config = next /\ step'.clean = step.clean /\ step.clean = "idle"
        BY <2>1 DEF Shape, SetupInv, EmptyDict
    <2> HIDE DEF next
    <2>3. Shape(Files)'
        BY <2>1, <2>2 DEF Shape, ConfigPlaces
    <2>4. SetupInv' /\ OldFilesInv' /\ SkillsInv'
        BY <2>1, <2>2 DEF SetupInv, OldFilesInv, SkillsInv, Removing
    <2>5. ReachedInv'
        <3>1. UserNow' = UserNow /\ ConfigNow' = ConfigNow
            BY <2>1, <2>2 DEF ConfigNow, UserNow
        <3> QED
            BY <2>1, <3>1, ReachedKept DEF SectionKeys
    <2>6. WorkInv'
        BY <2>1, <2>2, OldKeysKept DEF WorkInv
    <2>7. WrittenInv'
        BY <2>1, <2>2, OldKeysKept DEF WorkInv, WrittenInv, SectionKeys
    <2> QED
        BY <2>3, <2>4, <2>5, <2>6, <2>7
<1> QED
    BY <1>1, <1>2

LEMMA UserWriteKeeps ==
    ASSUME NEW Files, SetupIInv(Files), UserTruncate \/ UserDump
    PROVE  SetupIInv(Files)'
<1> USE DEF SetupIInv
<1>1. CASE UserTruncate
    <2>1. /\ step.config = "user" /\ step' = [step EXCEPT !.config = "userDump"]
          /\ work' = [work EXCEPT !.user = Updated(userConfig, work.user)]
          /\ UNCHANGED <<config, legacy, package, installed, setup, given, cut>>
        BY <1>1 DEF UserTruncate
    <2>2. /\ step'.config = "userDump" /\ step'.clean = step.clean /\ step.clean = "idle"
          /\ work'.user = Updated(userConfig, work.user) /\ work'.config = work.config
          /\ DOMAIN work'.user = DOMAIN userConfig \cup DOMAIN work.user
        BY <2>1 DEF Shape, SetupInv, Updated
    <2>3. Shape(Files)'
        BY <2>1, <2>2 DEF Shape, ConfigPlaces
    <2>4. SetupInv' /\ OldFilesInv' /\ SkillsInv'
        BY <2>1, <2>2 DEF SetupInv, OldFilesInv, SkillsInv, Removing
    <2>5. ReachedInv'
        <3>1. UserNow' = work'.user /\ UserNow = userConfig /\ ConfigNow' = ConfigNow
            BY <2>1, <2>2 DEF ConfigNow, UserNow
        <3> QED
            BY <2>1, <2>2, <3>1, ReachedKept DEF SectionKeys
    <2>6. WorkInv'
        BY <2>1, <2>2, OldKeysKept DEF WorkInv
    <2>7. WrittenInv'
        BY <2>1, <2>2, OldKeysKept DEF WrittenInv, SectionKeys
    <2> QED
        BY <2>3, <2>4, <2>5, <2>6, <2>7
<1>2. CASE UserDump
    <2>1. /\ step.config = "userDump" /\ step' = [step EXCEPT !.config = "unlink"]
          /\ userConfig' = work.user
          /\ UNCHANGED <<config, work, legacy, package, installed, setup, given, cut>>
        BY <1>2 DEF UserDump
    <2>2. step'.config = "unlink" /\ step'.clean = step.clean /\ step.clean = "idle"
        BY <2>1 DEF Shape, SetupInv
    <2>3. Shape(Files)'
        BY <2>1, <2>2 DEF Shape, ConfigPlaces
    <2>4. SetupInv' /\ OldFilesInv' /\ SkillsInv'
        BY <2>1, <2>2 DEF SetupInv, OldFilesInv, SkillsInv, Removing
    <2>5. ReachedInv'
        <3>1. UserNow' = UserNow /\ ConfigNow' = ConfigNow
            BY <2>1, <2>2 DEF ConfigNow, UserNow
        <3> QED
            BY <2>1, <3>1, ReachedKept DEF SectionKeys
    <2>6. WorkInv' /\ WrittenInv'
        BY <2>1, <2>2, OldKeysKept DEF WorkInv, WrittenInv, SectionKeys
    <2> QED
        BY <2>3, <2>4, <2>5, <2>6
<1> QED
    BY <1>1, <1>2

\* An old file goes only when all it has that is still known is written.
LEMMA ConfigUnlinkKeeps ==
    ASSUME NEW Files, SetupIInv(Files), ConfigUnlink
    PROVE  SetupIInv(Files)'
<1> DEFINE m == setup.module
           d == IF step.config = "unlinkCore" THEN "core" ELSE m
           next == IF step.config = "unlinkCore" THEN "done" ELSE "unlinkCore"
<1> USE DEF SetupIInv
<1>1. /\ step.config \in {"unlink", "unlinkCore"} /\ step' = [step EXCEPT !.config = next]
      /\ legacy' = [legacy EXCEPT ![d] = NoFile]
      /\ UNCHANGED <<config, userConfig, work, package, installed, setup, given, cut>>
    BY DEF ConfigUnlink
<1>2. /\ step'.config = next /\ step'.clean = step.clean /\ step.clean = "idle"
      /\ m \in Modules /\ d \in Dirs /\ m \in Dirs /\ m # "core"
      /\ next = IF step.config = "unlinkCore" THEN "done" ELSE "unlinkCore"
      /\ d = IF step.config = "unlinkCore" THEN "core" ELSE m
    <2> HIDE DEF d, next
    <2>1. step'.config = next /\ step'.clean = step.clean
        BY <1>1 DEF Shape
    <2> QED
        BY <1>1, <2>1, KeysApart DEF SetupInv, d, next
<1> HIDE DEF d, next
<1>3. Shape(Files)'
    BY <1>1, <1>2 DEF Shape, ConfigPlaces
<1>4. /\ \A e \in Dirs : legacy'[e] = IF e = d THEN NoFile ELSE legacy[e]
    BY <1>1, <1>2 DEF Shape
<1>5. SetupInv' /\ SkillsInv'
    BY <1>1, <1>2 DEF SetupInv, SkillsInv, Removing
<1>6. OldFilesInv'
    BY <1>1, <1>2, <1>4, KeysApart DEF OldFilesInv
<1>7. ConfigNow' = ConfigNow /\ UserNow' = UserNow /\ ConfigNow = config /\ UserNow = userConfig
    BY <1>1, <1>2 DEF ConfigNow, UserNow
<1>8. \A n, k : Reached(n, k)' = Reached(n, k)
    BY <1>1, <1>7 DEF Reached, SectionKeys
<1>9. \A k \in OldKeys(m) : \A n \in Modules : Reached(n, k)
    BY <1>1, <1>7, KeysApart DEF WrittenInv, Reached, OldKeys
<1>10. \A k \in Variables[m] : Reached(m, k)
    BY <1>1, <1>2, <1>7, KeysApart DEF WrittenInv, Reached
<1>11. ReachedInv'
    <2>1. ASSUME NEW n \in Modules, legacy'[n] = NoFile, given.files[n] # NoFile, NEW k \in Recognised(n)
          PROVE  Reached(n, k)
        <3>1. CASE legacy[n] = NoFile
            BY <2>1, <3>1 DEF ReachedInv
        <3>2. CASE legacy[n] # NoFile
            <4>1. n = m /\ legacy[m] = given.files[m]
                BY <1>2, <1>4, <2>1, <3>2, KeysApart DEF OldFilesInv
            <4>2. k \in OldKeys(m) \cup Variables[m]
                BY <2>1, <3>2, <4>1 DEF Recognised, OldKeys, Contents
            <4> QED
                BY <1>9, <1>10, <4>1, <4>2
        <3> QED
            BY <3>1, <3>2
    <2>2. ASSUME legacy'["core"] = NoFile, given.files["core"] # NoFile, NEW n \in Modules,
                 NEW k \in DOMAIN given.files["core"] \cap CoreKeys
          PROVE  Reached(n, k)
        <3>1. CASE legacy["core"] = NoFile
            BY <2>2, <3>1 DEF ReachedInv
        <3>2. CASE legacy["core"] # NoFile
            <4>1. k \in OldKeys(m)
                BY <2>2, <3>2, KeysApart DEF OldFilesInv, OldKeys, Contents
            <4> QED
                BY <1>9, <4>1
        <3> QED
            BY <3>1, <3>2
    <2>3. \A n \in Modules : Recognised(n)' = Recognised(n)
        BY <1>1 DEF Recognised
    <2> QED
        BY <1>1, <1>8, <2>1, <2>2, <2>3 DEF ReachedInv
<1>12. OldKeys(m)' \subseteq OldKeys(m)
    BY <1>1, <1>2, <1>4, KeysApart DEF OldKeys, Contents, EmptyDict
<1>13. WorkInv' /\ WrittenInv'
    BY <1>1, <1>2, <1>12 DEF WorkInv, WrittenInv, SectionKeys
<1> QED
    BY <1>3, <1>5, <1>6, <1>11, <1>13
\* Merging the help rows touches nothing the invariant speaks of.
LEMMA HelpKeeps ==
    ASSUME NEW Files, SetupIInv(Files), HelpStep
    PROVE  SetupIInv(Files)'
<1> USE DEF SetupIInv
<1>1. /\ UNCHANGED <<config, userConfig, legacy, package, installed, setup, given, cut>>
      /\ \E p \in HelpPlaces : step' = [step EXCEPT !.help = p]
      /\ \E h : work' = [work EXCEPT !.help = h]
    <2>1. CASE HelpLoad
        BY <2>1 DEF HelpLoad, HelpPlaces
    <2>2. ASSUME UNCHANGED work PROVE \E h : work' = [work EXCEPT !.help = h]
        <3>1. work' = [work EXCEPT !.help = work.help]
            BY <2>2 DEF Shape
        <3> QED
            BY <3>1
    <2>3. CASE HelpTruncate
        BY <2>2, <2>3 DEF HelpTruncate, HelpPlaces
    <2>4. CASE HelpDump
        BY <2>2, <2>4 DEF HelpDump, HelpPlaces
    <2>5. CASE HelpUnlink
        BY <2>2, <2>5 DEF HelpUnlink, HelpPlaces
    <2> QED
        BY <2>1, <2>3, <2>4, <2>5 DEF HelpStep
<1>2. PICK p \in HelpPlaces : step' = [step EXCEPT !.help = p]
    BY <1>1
<1>3. PICK h : work' = [work EXCEPT !.help = h]
    BY <1>1
<1>4. /\ step'.config = step.config /\ step'.clean = step.clean
      /\ work'.config = work.config /\ work'.user = work.user
    BY <1>2, <1>3 DEF Shape
<1>5. Shape(Files)'
    BY <1>1, <1>2, <1>3 DEF Shape
<1>6. SetupInv' /\ OldFilesInv' /\ SkillsInv'
    BY <1>1, <1>4 DEF SetupInv, OldFilesInv, SkillsInv, ToRemove
<1>7. ReachedInv'
    <2>1. UserNow' = UserNow /\ ConfigNow' = ConfigNow
        BY <1>1, <1>4 DEF ConfigNow, UserNow
    <2> QED
        BY <1>1, <2>1, ReachedKept DEF SectionKeys
<1>8. WorkInv' /\ WrittenInv'
    BY <1>1, <1>4, OldKeysKept DEF WorkInv, WrittenInv, SectionKeys
<1> QED
    BY <1>5, <1>6, <1>7, <1>8

\* A setup that ends after its files are written leaves what it wrote.
LEMMA StopKeeps ==
    ASSUME NEW Files, SetupIInv(Files), Stop,
           UNCHANGED <<config, userConfig, installed, given>>, cut \subseteq cut',
           step.config = "dump" => "config" \in cut', step.config = "userDump" => "user" \in cut',
           legacy' = [d \in Dirs |-> legacy'[d]],
           \A d \in Dirs \ {"_config"} : legacy'[d] = legacy[d],
           legacy'["_config"] \in {legacy["_config"], NoFile},
           package' \in [DOMAIN package -> SUBSET Skills],
           \A d \in DOMAIN package : package'[d] = package[d] \/ package[d] \subseteq installed
    PROVE  SetupIInv(Files)'
<1> USE DEF SetupIInv
<1>1. /\ step' = Idle /\ work' = NoWork /\ setup' = NoSetup
      /\ step'.config = "idle" /\ step'.clean = "idle"
    BY DEF Stop, Idle
<1>2. Shape(Files)'
    <2>1. legacy' \in [Dirs -> Files \cup {NoFile}]
        BY DEF Shape
    <2>2. step' \in [config : ConfigPlaces, help : HelpPlaces, clean : Removing \cup {"idle", "done"}]
        BY <1>1 DEF Idle, ConfigPlaces, HelpPlaces
    <2>3. work' = [config |-> work'.config, user |-> work'.user, help |-> work'.help]
        BY <1>1 DEF NoWork
    <2> QED
        BY <2>1, <2>2, <2>3 DEF Shape
<1>3. SetupInv' /\ WorkInv' /\ WrittenInv'
    BY <1>1 DEF SetupInv, WorkInv, WrittenInv
<1>4. OldFilesInv'
    BY <1>1 DEF OldFilesInv
<1>5. SkillsInv'
    <2>1. DOMAIN package' = DOMAIN package
        BY DEF Shape
    <2>2. given.skills \subseteq installed \cup UNION {package'[d] : d \in DOMAIN package}
        BY DEF SkillsInv
    <2> QED
        BY <1>1, <2>1, <2>2 DEF SkillsInv, Removing
<1>6. ReachedInv'
    <2>1. UserNow' = userConfig /\ ConfigNow' = config
        BY <1>1 DEF ConfigNow, UserNow
    <2>2. ASSUME NEW m \in Modules, NEW k \in CoreKeys \cup Variables[m], Reached(m, k)
          PROVE  Reached(m, k)'
        BY <2>1, <2>2 DEF Reached, ConfigNow, UserNow, SectionKeys
    <2>3. \A m \in Modules : legacy'[m] = legacy[m]
        BY KeysApart
    <2>4. legacy'["core"] = legacy["core"]
        BY KeysApart
    <2> QED
        BY <2>2, <2>3, <2>4 DEF ReachedInv, Recognised
<1> QED
    BY <1>2, <1>3, <1>4, <1>5, <1>6

LEMMA CrashKeeps ==
    ASSUME NEW Files, SetupIInv(Files), Crash
    PROVE  SetupIInv(Files)'
<1>1. /\ Stop /\ UNCHANGED <<config, userConfig, legacy, package, installed, given>>
      /\ cut \subseteq cut'
      /\ step.config = "dump" => "config" \in cut'
      /\ step.config = "userDump" => "user" \in cut'
    BY DEF Crash
<1>2. legacy \in [Dirs -> Files \cup {NoFile}] /\ package \in [DOMAIN package -> SUBSET Skills]
    BY DEF SetupIInv, Shape
<1> QED
    BY <1>1, <1>2, StopKeeps

\* The files are written when the directories are checked and removed.
LEMMA CleanKeeps ==
    ASSUME NEW Files, SetupIInv(Files), CleanStep
    PROVE  SetupIInv(Files)'
<1>1. legacy \in [Dirs -> Files \cup {NoFile}] /\ package \in [DOMAIN package -> SUBSET Skills]
    BY DEF SetupIInv, Shape
<1>2. CASE CleanVerify
    <2>1. /\ step.config = "done"
          /\ UNCHANGED <<config, userConfig, legacy, package, installed, given, cut>>
        BY <1>2 DEF CleanVerify
    <2>2. CASE Stop
        BY <1>1, <2>1, <2>2, StopKeeps
    <2>3. CASE /\ UNION {package[d] : d \in ToRemove \cap DOMAIN package} \subseteq installed
               /\ step' = [step EXCEPT !.clean = "module"] /\ UNCHANGED <<setup, work>>
        <3> USE DEF SetupIInv
        <3>1. step'.config = "done" /\ step'.clean = "module"
            BY <2>1, <2>3 DEF Shape
        <3>2. Shape(Files)'
            BY <2>1, <2>3 DEF Shape, Removing
        <3>3. SetupInv' /\ OldFilesInv' /\ WorkInv' /\ WrittenInv'
            BY <2>1, <2>3, <3>1 DEF SetupInv, OldFilesInv, WorkInv, WrittenInv
        <3>4. SkillsInv'
            BY <2>1, <2>3, <3>1 DEF SkillsInv, ToRemove
        <3>5. ReachedInv'
            <4>1. UserNow' = UserNow /\ ConfigNow' = ConfigNow
                BY <2>1, <2>3, <3>1 DEF ConfigNow, UserNow
            <4> QED
                BY <2>1, <4>1, ReachedKept DEF SectionKeys
        <3> QED
            BY <3>2, <3>3, <3>4, <3>5
    <2> QED
        BY <1>2, <2>2, <2>3 DEF CleanVerify
<1>3. CASE CleanRemove
    <2> DEFINE d == DirOf(step.clean)
               next == NextDir[step.clean]
    <2> USE DEF SetupIInv
    <2>1. /\ step.clean \in Removing /\ step' = [step EXCEPT !.clean = next]
          /\ package' = Without(package, {d}) /\ legacy' = [legacy EXCEPT ![d] = NoFile]
          /\ UNCHANGED <<config, userConfig, installed, setup, work, given, cut>>
        BY <1>3 DEF CleanRemove, Removing
    <2>2. next \in Removing \cup {"done"} /\ step.config = "done"
        BY <2>1 DEF NextDir, Removing, SetupInv
    <2>3. setup.module \in Modules /\ d \in ToRemove
        BY <2>1, <2>2 DEF DirOf, ToRemove, Removing, SetupInv
    <2>4. step'.config = "done" /\ step'.clean = next
        <3> HIDE DEF next
        <3> QED
            BY <2>1, <2>2 DEF Shape
    <2> HIDE DEF next, d
    <2>5. d \in Dirs /\ \A e \in Dirs : legacy'[e] = IF e = d THEN NoFile ELSE legacy[e]
        BY <1>1, <2>1, <2>3, KeysApart DEF ToRemove
    <2>6. \A e \in Dirs \ {"_config"} : legacy'[e] = legacy[e]
        BY <2>2, <2>3, <2>5, KeysApart DEF OldFilesInv, ToRemove
    <2>7. /\ DOMAIN package' = DOMAIN package \ {d}
          /\ \A e \in DOMAIN package' : package'[e] = package[e]
          /\ package' \in [DOMAIN package' -> SUBSET Skills]
        BY <1>1, <2>1 DEF Without
    <2>8. Shape(Files)'
        <3>1. legacy' \in [Dirs -> Files \cup {NoFile}]
            BY <1>1, <2>1
        <3>2. step' \in [config : ConfigPlaces, help : HelpPlaces, clean : Removing \cup {"idle", "done"}]
            BY <2>1, <2>2 DEF Shape
        <3> QED
            BY <2>1, <2>7, <3>1, <3>2 DEF Shape
    <2>9. SetupInv' /\ WorkInv' /\ WrittenInv'
        BY <2>1, <2>2, <2>4 DEF SetupInv, WorkInv, WrittenInv
    <2>10. OldFilesInv'
        BY <2>1, <2>2, <2>3, <2>4, <2>5, <2>6, KeysApart DEF OldFilesInv
    <2>11. SkillsInv'
        <3>1. \A e \in DOMAIN package : e = d => package[e] \subseteq installed
            BY <2>1, <2>3 DEF SkillsInv
        <3>2. given.skills \subseteq installed \cup UNION {package'[e] : e \in DOMAIN package'}
            BY <2>7, <3>1 DEF SkillsInv
        <3>3. \A e \in ToRemove \cap DOMAIN package' : package'[e] \subseteq installed
            BY <2>1, <2>7 DEF SkillsInv
        <3> QED
            BY <2>1, <3>2, <3>3 DEF SkillsInv, ToRemove
    <2>12. ReachedInv'
        <3>1. UserNow' = UserNow /\ ConfigNow' = ConfigNow
            BY <2>1, <2>2, <2>4 DEF ConfigNow, UserNow
        <3>2. \A n, k : Reached(n, k)' = Reached(n, k)
            BY <2>1, <3>1 DEF Reached, SectionKeys
        <3> QED
            BY <2>1, <2>6, <3>2, KeysApart DEF ReachedInv, Recognised
    <2> QED
        BY <2>8, <2>9, <2>10, <2>11, <2>12
<1>4. CASE CleanFail
    <2> DEFINE d == DirOf(step.clean)
    <2>1. /\ step.clean \in Removing /\ Stop /\ d \in DOMAIN package
          /\ \E left \in SUBSET package[d] : package' = [package EXCEPT ![d] = left]
          /\ legacy' \in {legacy, [legacy EXCEPT ![d] = NoFile]}
          /\ UNCHANGED <<config, userConfig, installed, given, cut>>
        BY <1>4 DEF CleanFail, Removing
    <2>2. step.config = "done" /\ setup.module \in Modules /\ d \in ToRemove
        BY <2>1 DEF SetupIInv, SetupInv, DirOf, ToRemove, Removing
    <2> HIDE DEF d
    <2>3. /\ \A e \in Dirs \ {"_config"} : legacy'[e] = legacy[e]
          /\ legacy'["_config"] \in {legacy["_config"], NoFile}
          /\ legacy' = [e \in Dirs |-> legacy'[e]]
        <3>1. CASE legacy' = legacy
            BY <1>1, <3>1
        <3>2. CASE legacy' = [legacy EXCEPT ![d] = NoFile]
            BY <1>1, <2>2, <3>2, KeysApart DEF SetupIInv, OldFilesInv, ToRemove
        <3> QED
            BY <2>1, <3>1, <3>2
    <2>4. package[d] \subseteq installed
        BY <2>1, <2>2 DEF SetupIInv, SkillsInv
    <2>5. /\ package' \in [DOMAIN package -> SUBSET Skills]
          /\ \A e \in DOMAIN package : package'[e] = package[e] \/ package[e] \subseteq installed
        <3>1. PICK left \in SUBSET package[d] : package' = [package EXCEPT ![d] = left]
            BY <2>1
        <3>2. left \in SUBSET Skills
            BY <1>1, <2>1
        <3> QED
            BY <1>1, <2>4, <3>1, <3>2
    <2> QED
        BY <2>1, <2>2, <2>3, <2>5, StopKeeps
<1>5. CASE Finish
    <2>1. /\ step.clean = "done" /\ Stop
          /\ UNCHANGED <<config, userConfig, legacy, package, installed, given, cut>>
        BY <1>5 DEF Finish
    <2>2. step.config = "done"
        BY <2>1 DEF SetupIInv, SetupInv
    <2> QED
        BY <1>1, <2>1, <2>2, StopKeeps
<1> QED
    BY <1>2, <1>3, <1>4, <1>5 DEF CleanStep
\* The owner answers every question of the module.
LEMMA AnswersAreTyped ==
    ASSUME NEW S \in SUBSET Keys, NEW new, NEW old, NEW f \in Answers(S, new, old)
    PROVE  f \in Dict /\ DOMAIN f = S
BY DEF Answers, Dict

LEMMA BeginKeeps ==
    ASSUME NEW Files, SetupIInv(Files), NEW m \in Modules, Begin(m)
    PROVE  SetupIInv(Files)'
<1> USE DEF SetupIInv
<1>1. /\ setup = NoSetup /\ step' = [config |-> "load", help |-> "load", clean |-> "idle"]
      /\ UNCHANGED <<config, userConfig, legacy, package, installed, work, given, cut>>
    BY DEF Begin
<1>2. PICK core \in IF HasCore THEN {EmptyDict} ELSE Answers(CoreKeys, EmptyDict, LegacyCore(m)),
           module \in Answers(Variables[m], Section(m), LegacyModule(m)) :
              setup' = [module |-> m, answers |-> [core |-> core, module |-> module]]
    BY DEF Begin
<1>3. core \in Dict /\ module \in Dict /\ DOMAIN module = Variables[m]
    <2>1. CoreKeys \in SUBSET Keys /\ Variables[m] \in SUBSET Keys /\ {} \in SUBSET Keys
        BY DEF Keys
    <2>2. EmptyDict \in Dict
        <3>1. EmptyDict \in [{} -> Value]
            BY DEF EmptyDict
        <3> QED
            BY <2>1, <3>1 DEF Dict
    <2>3. CASE HasCore
        BY <1>2, <2>1, <2>2, <2>3, AnswersAreTyped
    <2>4. CASE ~HasCore
        BY <1>2, <2>1, <2>4, AnswersAreTyped
    <2> QED
        BY <2>3, <2>4
<1>4. /\ setup' # NoSetup /\ setup'.module = m /\ DOMAIN setup'.answers.module = Variables[m]
      /\ step'.config = "load" /\ step'.clean = "idle" /\ step.config = "idle"
    BY <1>1, <1>2, <1>3, SetupAssumption DEF SetupInv
<1>5. Shape(Files)'
    BY <1>1 DEF Shape, ConfigPlaces, HelpPlaces
<1>6. SetupInv' /\ OldFilesInv' /\ WorkInv' /\ WrittenInv' /\ SkillsInv'
    BY <1>1, <1>4 DEF SetupInv, OldFilesInv, WorkInv, WrittenInv, SkillsInv, Removing
<1>7. ReachedInv'
    <2>1. UserNow' = UserNow /\ ConfigNow' = ConfigNow
        BY <1>1, <1>4 DEF ConfigNow, UserNow
    <2> QED
        BY <1>1, <2>1, ReachedKept DEF SectionKeys
<1> QED
    BY <1>5, <1>6, <1>7

LEMMA NextSetup ==
    ASSUME NEW Files, SetupIInv(Files), [SetupNext]_setupVars
    PROVE  SetupIInv(Files)'
<1>1. CASE ConfigStep
    BY <1>1, ConfigLoadKeeps, ConfigWriteKeeps, UserWriteKeeps, ConfigUnlinkKeeps DEF ConfigStep
<1>2. CASE HelpStep
    BY <1>2, HelpKeeps
<1>3. CASE CleanStep
    BY <1>3, CleanKeeps
<1>4. CASE Crash
    BY <1>4, CrashKeeps
<1>5. ASSUME NEW m \in Modules, Begin(m) PROVE SetupIInv(Files)'
    BY <1>5, BeginKeeps
<1>6. CASE UNCHANGED setupVars
    <2>1. UNCHANGED <<config, userConfig, legacy, package, installed, setup, step, work, given, cut>>
        BY <1>6 DEF setupVars
    <2>2. Shape(Files)' /\ SetupInv' /\ OldFilesInv'
        BY <2>1 DEF SetupIInv, Shape, SetupInv, OldFilesInv
    <2>3. WorkInv' /\ WrittenInv' /\ SkillsInv'
        BY <2>1, OldKeysKept DEF SetupIInv, WorkInv, WrittenInv, SkillsInv, ToRemove, SectionKeys
    <2>4. ReachedInv'
        BY <2>1 DEF SetupIInv, ReachedInv, Recognised, Reached, ConfigNow, UserNow, SectionKeys
    <2> QED
        BY <2>2, <2>3, <2>4 DEF SetupIInv
<1> QED
    BY <1>1, <1>2, <1>3, <1>4, <1>5, <1>6 DEF SetupNext

\* Whatever is set up, interrupted and run again, a value of the installer's
\* files that the schema still knows is in its old file or has reached the
\* new ones, and a skill is in its package or installed.
THEOREM SetupLosesNothing ==
    ASSUME NEW Files, NEW configs, NEW users, NEW legacies, NEW packages, NEW installs,
           Modules # {}, legacies \subseteq [Dirs -> Files],
           packages \subseteq UNION {[D -> SUBSET Skills] : D \in SUBSET Dirs}
    PROVE  ModuleSetupSpec(configs, users, legacies, packages, installs) => []NothingLost
<1>1. SetupInit(configs, users, legacies, packages, installs) => SetupIInv(Files)
    BY InitSetup
<1>2. SetupIInv(Files) /\ [SetupNext]_setupVars => SetupIInv(Files)'
    BY NextSetup
<1>3. SetupIInv(Files) => NothingLost
    BY InvariantMeansNothingLost
<1> QED
    BY <1>1, <1>2, <1>3, PTL DEF ModuleSetupSpec
-----------------------------------------------------------------------------
(* A setup takes effect, and keeps it.                                     *)

SectionOf(c, m) == IF m \in DOMAIN c.sections THEN c.sections[m] ELSE EmptyDict
Personal(m) == Variables[m] \cap UserVars

Rows == [coded : {0, 1}, uncoded : Nat]
HelpNow == IF step.help = "dump" THEN work.help ELSE help

\* Each file has what finished setups were answered; in config.user.yaml, which is flat,
\* a setting is the last one's that has it.
SectionsTold(c) ==
    \/ "config" \in cut
    \/ \A m \in Modules : answered[m] # NoSetup => SectionOf(c, m) = Templated(answered[m].module)
SettingsTold(u) ==
    \/ "user" \in cut
    \/ \A k \in UserVars : chosen[k] # NoSetup => k \in DOMAIN u /\ u[k] = chosen[k]
RowsTold(rows) ==
    \/ "help" \in cut
    \/ \A m \in Modules : answered[m] # NoSetup => rows[m].coded = 1

\* Each file has what the setup that runs was answered.
OwnSection(c) == SectionOf(c, setup.module) = Templated(setup.answers.module)
OwnSettings(u) ==
    \A k \in Personal(setup.module) : k \in DOMAIN u /\ u[k] = setup.answers.module[k]
OwnRows(rows) == rows[setup.module].coded = 1

\* A setup has no answers on record until all three scripts are through.
AnsweredInv ==
    /\ answered = [m \in Modules |-> answered[m]]
    /\ \A m \in Modules : answered[m] # NoSetup => DOMAIN answered[m].module = Variables[m]
    /\ step.config # "idle" => /\ answered[setup.module] = NoSetup
                               /\ \A k \in Personal(setup.module) : chosen[k] = NoSetup
    /\ step.help # "idle" => step.config # "idle"
    /\ step.clean # "idle" => step.help = "done"

SectionsInv ==
    /\ SectionsTold(ConfigNow)
    /\ step.config = "write" => SectionsTold(work.config)
    /\ step.config \in {"write", "dump"} => OwnSection(work.config)
    /\ step.config \in {"user", "userDump", "unlink", "unlinkCore", "done"} => OwnSection(config)

SettingsInv ==
    /\ SettingsTold(UserNow)
    /\ step.config \in {"write", "dump", "user"} =>
          DOMAIN work.user \subseteq UserKeys \cup Personal(setup.module)
    /\ step.config \in {"write", "dump", "user", "userDump"} => OwnSettings(work.user)
    /\ step.config \in {"unlink", "unlinkCore", "done"} => OwnSettings(userConfig)

RowsInv ==
    /\ help \in [Modules -> Rows] /\ RowsTold(HelpNow)
    /\ step.help \in {"write", "dump"} => work.help \in [Modules -> Rows] /\ OwnRows(work.help)
    /\ step.help = "write" => RowsTold(work.help)
    /\ step.help \in {"unlink", "unlinkCore", "done"} => OwnRows(help)

EffectInv == AnsweredInv /\ SectionsInv /\ SettingsInv /\ RowsInv

\* What the three parts speak of, but for the places of the scripts.
effectVars == <<config, userConfig, help, setup, answered, chosen, cut>>

LEMMA InitEffect ==
    ASSUME NEW configs, NEW users, NEW legacies, NEW packages, NEW installs,
           SetupInit(configs, users, legacies, packages, installs)
    PROVE  EffectInv
<1> USE DEF SetupInit
<1>1. answered = [m \in Modules |-> NoSetup] /\ step = Idle
    OBVIOUS
<1>2. \A k \in UserVars : chosen[k] = NoSetup
    OBVIOUS
<1>3. AnsweredInv
    BY <1>1 DEF AnsweredInv, Idle
<1>4. SectionsInv /\ SettingsInv
    BY <1>1, <1>2 DEF SectionsInv, SectionsTold, SettingsInv, SettingsTold, Idle
<1>5. help \in [Modules -> Rows]
    BY DEF NoRows, Rows
<1>6. RowsInv
    BY <1>1, <1>5 DEF RowsInv, RowsTold, Idle
<1> QED
    BY <1>3, <1>4, <1>6 DEF EffectInv

LEMMA EffectMeansTakesEffect == EffectInv => SetupTakesEffect
<1> SUFFICES ASSUME EffectInv PROVE SetupTakesEffect
    OBVIOUS
<1>1. SectionsAsAnswered
    <2> SUFFICES ASSUME NEW m \in Modules, answered[m] # NoSetup, "config" \notin cut,
                        step.config # "dump"
                 PROVE  /\ DOMAIN Section(m) \subseteq Variables[m]
                        /\ \A k \in Variables[m] \ UserVars :
                              /\ k \in DOMAIN Section(m)
                              /\ Section(m)[k] = Templated(answered[m].module)[k]
        BY DEF SectionsAsAnswered
    <2>1. Section(m) = Templated(answered[m].module)
        BY DEF EffectInv, SectionsInv, SectionsTold, ConfigNow, SectionOf, Section
    <2>2. DOMAIN answered[m].module = Variables[m]
        BY DEF EffectInv, AnsweredInv
    <2>3. DOMAIN Templated(answered[m].module) = Variables[m]
        BY <2>2 DEF Templated
    <2> QED
        BY <2>1, <2>3
<1>2. PersonalAsChosen
    BY DEF PersonalAsChosen, EffectInv, SettingsInv, SettingsTold, UserNow
<1>3. ASSUME NEW m \in Modules
      PROVE  /\ help[m].coded \leq 1
             /\ answered[m] # NoSetup /\ "help" \notin cut /\ step.help # "dump" => help[m].coded = 1
    <2>1. help[m] \in Rows
        BY DEF EffectInv, RowsInv
    <2>2. help[m].coded \in {0, 1}
        BY <2>1 DEF Rows
    <2> QED
        BY <2>2 DEF EffectInv, RowsInv, RowsTold, HelpNow
<1> QED
    BY <1>1, <1>2, <1>3 DEF SetupTakesEffect, HelpRowsExact

\* While the files, the setup and the answers stay, only the scripts' places count.
LEMMA EffectUnmoved ==
    ASSUME EffectInv, UNCHANGED effectVars,
           UNCHANGED work \/ step.config \notin {"write", "dump", "user", "userDump"},
           UNCHANGED work.help \/ step.help \notin {"write", "dump"},
           step'.config = step.config
              \/ {step.config, step'.config} \subseteq {"unlink", "unlinkCore", "done"},
           step'.help = step.help
              \/ {step.help, step'.help} \subseteq {"unlink", "unlinkCore", "done"},
           step'.clean # "idle" => step'.help = "done"
    PROVE  EffectInv'
<1>1. AnsweredInv'
    BY DEF EffectInv, AnsweredInv, effectVars
<1>2. SectionsInv'
    BY DEF EffectInv, SectionsInv, SectionsTold, OwnSection, SectionOf, ConfigNow, effectVars
<1>3. SettingsInv'
    BY DEF EffectInv, SettingsInv, SettingsTold, OwnSettings, UserNow, effectVars
<1>4. RowsInv'
    BY DEF EffectInv, RowsInv, RowsTold, OwnRows, HelpNow, effectVars
<1> QED
    BY <1>1, <1>2, <1>3, <1>4 DEF EffectInv

\* What is written to config.yaml and config.user.yaml: the module's section and personal
\* settings as answered, the other modules' sections as they were.
LEMMA ConfigLoadTakesEffect ==
    ASSUME NEW Files, SetupIInv(Files), EffectInv, ConfigLoad
    PROVE  EffectInv'
<1> DEFINE m == setup.module
           answers == WithLegacy(m, setup.answers)
<1>1. /\ step.config = "load" /\ step' = [step EXCEPT !.config = "write"]
      /\ work' = [work EXCEPT !.config = MergedConfig(m, answers), !.user = UserSettings(answers)]
      /\ UNCHANGED effectVars
    BY DEF ConfigLoad, effectVars
<1>2. m \in Modules /\ DOMAIN setup.answers.module = Variables[m] /\ step.clean = "idle"
    BY <1>1 DEF SetupIInv, SetupInv
<1>3. PICK c : c = MergedConfig(m, answers)
    OBVIOUS
<1>4. PICK u : u = UserSettings(answers)
    OBVIOUS
<1>5. /\ DOMAIN answers.module = Variables[m]
      /\ \A k \in Variables[m] : answers.module[k] = setup.answers.module[k]
    BY <1>2 DEF WithLegacy, LegacyModule, Updated, Restricted
<1>6. OwnSection(c)
    <2>1. SectionOf(c, m) = Templated(answers.module)
        BY <1>3 DEF MergedConfig, SectionOf
    <2>2. Templated(answers.module) = Templated(setup.answers.module)
        <3> HIDE DEF answers
        <3> QED
            BY <1>2, <1>5 DEF Templated
    <2> QED
        BY <2>1, <2>2 DEF OwnSection
<1>7. SectionsTold(c)
    <2>1. \A n \in Modules : n # m => SectionOf(c, n) = SectionOf(config, n)
        <3> HIDE DEF m, answers
        <3> QED
            BY <1>3 DEF MergedConfig, SectionOf
    <2>2. answered[m] = NoSetup /\ SectionsTold(config)
        BY <1>1 DEF EffectInv, AnsweredInv, SectionsInv, ConfigNow
    <2> QED
        BY <2>1, <2>2 DEF SectionsTold
<1>8. OwnSettings(u) /\ DOMAIN u \subseteq UserKeys \cup Personal(m)
    <2>1. PICK a, b : /\ a = Restricted(answers.core, UserKeys)
                      /\ b = Restricted(answers.module, UserVars)
        OBVIOUS
    <2>2. u = Updated(a, b)
        BY <1>4, <2>1 DEF UserSettings
    <2>3. DOMAIN a \subseteq UserKeys
        BY <2>1 DEF Restricted
    <2>4. DOMAIN b = Personal(m) /\ \A k \in Personal(m) : b[k] = setup.answers.module[k]
        <3> HIDE DEF answers
        <3> QED
            BY <1>5, <2>1 DEF Restricted, Personal
    <2>5. DOMAIN u = DOMAIN a \cup DOMAIN b /\ \A k \in DOMAIN b : u[k] = b[k]
        BY <2>2 DEF Updated
    <2> QED
        BY <2>3, <2>4, <2>5 DEF OwnSettings
<1> HIDE DEF answers
<1>9. /\ step'.config = "write" /\ step'.help = step.help /\ step'.clean = "idle"
      /\ work'.config = c /\ work'.user = u /\ work'.help = work.help
    BY <1>1, <1>2, <1>3, <1>4 DEF SetupIInv, Shape
<1>10. AnsweredInv'
    BY <1>1, <1>9 DEF EffectInv, AnsweredInv, effectVars
<1>11. SectionsInv'
    <2>1. SectionsTold(config)
        BY <1>1 DEF EffectInv, SectionsInv, ConfigNow
    <2> QED
        BY <1>1, <1>6, <1>7, <1>9, <2>1
           DEF SectionsInv, SectionsTold, OwnSection, SectionOf, ConfigNow, effectVars
<1>12. SettingsInv'
    <2>1. SettingsTold(userConfig)
        BY <1>1 DEF EffectInv, SettingsInv, UserNow
    <2> QED
        BY <1>1, <1>8, <1>9, <2>1 DEF SettingsInv, SettingsTold, OwnSettings, UserNow, effectVars
<1>13. RowsInv'
    BY <1>1, <1>9 DEF EffectInv, RowsInv, RowsTold, OwnRows, HelpNow, effectVars
<1> QED
    BY <1>10, <1>11, <1>12, <1>13 DEF EffectInv

\* Truncating and dumping change what is in the file, not what will be.
LEMMA ConfigWriteTakesEffect ==
    ASSUME NEW Files, SetupIInv(Files), EffectInv, ConfigTruncate \/ ConfigDump
    PROVE  EffectInv'
<1>1. UNCHANGED <<userConfig, help, setup, work, answered, chosen, cut>>
    BY DEF ConfigTruncate, ConfigDump
<1>2. PICK next \in {"dump", "unlink", "user"} :
         /\ step' = [step EXCEPT !.config = next]
         /\ \/ step.config = "write" /\ next = "dump"
            \/ /\ step.config = "dump" /\ next # "dump" /\ config' = work.config
               /\ next = "unlink" => DOMAIN work.user = {}
    BY DEF ConfigTruncate, ConfigDump, EmptyDict
<1>3. step'.config = next /\ step'.help = step.help /\ step'.clean = step.clean
    BY <1>2 DEF SetupIInv, Shape
<1>4. AnsweredInv'
    BY <1>1, <1>2, <1>3 DEF EffectInv, AnsweredInv
<1>5. SectionsInv'
    BY <1>1, <1>2, <1>3 DEF EffectInv, SectionsInv, SectionsTold, OwnSection, SectionOf, ConfigNow
<1>6. SettingsInv'
    <2>1. SettingsTold(userConfig) /\ OwnSettings(work.user)
        BY <1>2 DEF EffectInv, SettingsInv, UserNow
    <2>2. next = "unlink" => OwnSettings(userConfig)
        BY <1>2, <2>1 DEF OwnSettings
    <2> QED
        BY <1>1, <1>2, <1>3, <2>1, <2>2 DEF EffectInv, SettingsInv, SettingsTold, OwnSettings, UserNow
<1>7. RowsInv'
    BY <1>1, <1>3 DEF EffectInv, RowsInv, RowsTold, OwnRows, HelpNow
<1> QED
    BY <1>4, <1>5, <1>6, <1>7 DEF EffectInv

\* What goes into the user's file leaves the settings that are not this module's as they were.
LEMMA UserWriteTakesEffect ==
    ASSUME NEW Files, SetupIInv(Files), EffectInv, UserTruncate \/ UserDump
    PROVE  EffectInv'
<1>1. UNCHANGED <<config, help, setup, answered, chosen, cut>>
    BY DEF UserTruncate, UserDump
<1>2. CASE UserTruncate
    <2>1. PICK u : u = Updated(userConfig, work.user)
        OBVIOUS
    <2>2. /\ step.config = "user" /\ step' = [step EXCEPT !.config = "userDump"]
          /\ work' = [work EXCEPT !.user = u]
        BY <1>2, <2>1 DEF UserTruncate
    <2>3. /\ step'.config = "userDump" /\ step'.help = step.help /\ step'.clean = step.clean
          /\ work'.user = u /\ work'.config = work.config /\ work'.help = work.help
        BY <2>2 DEF SetupIInv, Shape
    <2>4. OwnSettings(work.user) /\ DOMAIN work.user \subseteq UserKeys \cup Personal(setup.module)
        BY <2>2 DEF EffectInv, SettingsInv
    <2>5. /\ \A k \in DOMAIN work.user : k \in DOMAIN u /\ u[k] = work.user[k]
          /\ \A k \in DOMAIN userConfig \ DOMAIN work.user : k \in DOMAIN u /\ u[k] = userConfig[k]
        BY <2>1 DEF Updated
    <2>6. OwnSettings(u)
        BY <2>4, <2>5 DEF OwnSettings
    <2>7. SettingsTold(u)
        <3>1. SettingsTold(userConfig)
            BY <2>2 DEF EffectInv, SettingsInv, UserNow
        <3>2. ASSUME NEW k \in UserVars, chosen[k] # NoSetup
              PROVE  k \notin DOMAIN work.user
            <4>1. k \notin Personal(setup.module)
                BY <2>2, <3>2 DEF EffectInv, AnsweredInv
            <4>2. k \notin UserKeys
                BY KeysApart, SetupAssumption
            <4> QED
                BY <2>4, <4>1, <4>2
        <3> QED
            BY <2>5, <3>1, <3>2 DEF SettingsTold
    <2>8. AnsweredInv' /\ SectionsInv' /\ RowsInv'
        BY <1>1, <2>2, <2>3 DEF EffectInv, AnsweredInv, SectionsInv, SectionsTold, OwnSection,
           SectionOf, ConfigNow, RowsInv, RowsTold, OwnRows, HelpNow
    <2>9. SettingsInv'
        BY <1>1, <2>3, <2>6, <2>7 DEF SettingsInv, SettingsTold, OwnSettings, UserNow
    <2> QED
        BY <2>8, <2>9 DEF EffectInv
<1>3. CASE UserDump
    <2>1. /\ step.config = "userDump" /\ step' = [step EXCEPT !.config = "unlink"]
          /\ userConfig' = work.user /\ UNCHANGED work
        BY <1>3 DEF UserDump
    <2>2. step'.config = "unlink" /\ step'.help = step.help /\ step'.clean = step.clean
        BY <2>1 DEF SetupIInv, Shape
    <2>3. AnsweredInv' /\ SectionsInv' /\ RowsInv'
        BY <1>1, <2>1, <2>2 DEF EffectInv, AnsweredInv, SectionsInv, SectionsTold, OwnSection,
           SectionOf, ConfigNow, RowsInv, RowsTold, OwnRows, HelpNow
    <2>4. SettingsInv'
        BY <1>1, <2>1, <2>2 DEF EffectInv, SettingsInv, SettingsTold, OwnSettings, UserNow
    <2> QED
        BY <2>3, <2>4 DEF EffectInv
<1> QED
    BY <1>2, <1>3

\* The rows written are one for the module, and the other modules' as they were.
LEMMA HelpTakesEffect ==
    ASSUME NEW Files, SetupIInv(Files), EffectInv, HelpLoad \/ HelpTruncate \/ HelpDump
    PROVE  EffectInv'
<1>1. UNCHANGED <<config, userConfig, setup, answered, chosen, cut>>
    BY DEF HelpLoad, HelpTruncate, HelpDump
<1>2. /\ step.help \in {"load", "write", "dump"} /\ step.config # "idle"
      /\ setup.module \in Modules /\ answered[setup.module] = NoSetup /\ step.clean = "idle"
    BY DEF HelpLoad, HelpTruncate, HelpDump, EffectInv, AnsweredInv, SetupIInv, SetupInv
<1>3. help \in [Modules -> Rows]
    BY DEF EffectInv, RowsInv
<1>4. PICK rows, next :
         /\ work' = [work EXCEPT !.help = rows] /\ step' = [step EXCEPT !.help = next]
         /\ \/ /\ step.help = "load" /\ next = "write" /\ UNCHANGED help
               /\ rows = MergedHelp(setup.module)
            \/ step.help = "write" /\ next = "dump" /\ help' = NoRows /\ rows = work.help
            \/ step.help = "dump" /\ next = "unlink" /\ help' = work.help /\ rows = work.help
    <2>1. work = [work EXCEPT !.help = work.help]
        BY DEF SetupIInv, Shape
    <2> QED
        BY <2>1 DEF HelpLoad, HelpTruncate, HelpDump
<1>5. /\ step'.help = next /\ step'.config = step.config /\ step'.clean = "idle"
      /\ work'.help = rows /\ work'.config = work.config /\ work'.user = work.user
    BY <1>2, <1>4 DEF SetupIInv, Shape
<1>6. AnsweredInv' /\ SectionsInv' /\ SettingsInv'
    BY <1>1, <1>2, <1>5 DEF EffectInv, AnsweredInv, SectionsInv, SectionsTold, OwnSection,
       SectionOf, ConfigNow, SettingsInv, SettingsTold, OwnSettings, UserNow
<1>7. CASE step.help = "load"
    <2>1. rows = MergedHelp(setup.module) /\ next = "write" /\ UNCHANGED help
        BY <1>4, <1>7
    <2>2. PICK n \in Nat : rows = [help EXCEPT ![setup.module] = [coded |-> 1, uncoded |-> n]]
        <3>1. help[setup.module].uncoded \in Nat
            BY <1>2, <1>3 DEF Rows
        <3>2. help[setup.module].uncoded + (IF setup.module \in BlankRows THEN 1 ELSE 0) \in Nat
            BY <3>1
        <3> QED
            BY <2>1, <3>2 DEF MergedHelp
    <2>3. rows \in [Modules -> Rows] /\ OwnRows(rows)
        BY <1>2, <1>3, <2>2 DEF Rows, OwnRows
    <2>4. RowsTold(help)
        BY <1>7 DEF EffectInv, RowsInv, HelpNow
    <2>5. RowsTold(rows)
        BY <1>2, <1>3, <2>2, <2>4 DEF RowsTold
    <2>6. RowsInv'
        BY <1>1, <1>3, <1>5, <2>1, <2>3, <2>4, <2>5 DEF RowsInv, RowsTold, OwnRows, HelpNow
    <2> QED
        BY <1>6, <2>6 DEF EffectInv
<1>8. CASE step.help \in {"write", "dump"}
    <2>1. rows = work.help /\ rows \in [Modules -> Rows] /\ OwnRows(rows)
        BY <1>4, <1>8 DEF EffectInv, RowsInv
    <2>2. RowsTold(rows)
        BY <1>8, <2>1 DEF EffectInv, RowsInv, HelpNow
    <2>3. help' \in [Modules -> Rows]
        <3>1. NoRows \in [Modules -> Rows]
            BY DEF NoRows, Rows
        <3> QED
            BY <1>4, <1>8, <2>1, <3>1
    <2>4. RowsInv'
        BY <1>1, <1>4, <1>5, <1>8, <2>1, <2>2, <2>3 DEF RowsInv, RowsTold, OwnRows, HelpNow
    <2> QED
        BY <1>6, <2>4 DEF EffectInv
<1> QED
    BY <1>2, <1>7, <1>8

\* A setup that ends with its files written, its answers on record; or is cut off.
LEMMA EndsTakeEffect ==
    ASSUME NEW Files, SetupIInv(Files), EffectInv, Stop, UNCHANGED <<config, userConfig, help>>,
           cut \subseteq cut',
           step.config = "dump" => "config" \in cut', step.config = "userDump" => "user" \in cut',
           step.help = "dump" => "help" \in cut',
           \/ UNCHANGED <<answered, chosen>>
           \/ Recorded /\ step.config = "done" /\ step.help = "done"
    PROVE  EffectInv'
<1>1. step'.config = "idle" /\ step'.help = "idle" /\ step'.clean = "idle"
    BY DEF Stop, Idle
<1>2. \A m \in Modules :
         \/ answered'[m] = answered[m]
         \/ m = setup.module /\ answered'[m] = setup.answers /\ step.config = "done" /\ step.help = "done"
    BY DEF EffectInv, AnsweredInv, Recorded
<1>3. \A k \in UserVars :
         \/ chosen'[k] = chosen[k]
         \/ /\ k \in Personal(setup.module) /\ chosen'[k] = setup.answers.module[k]
            /\ step.config = "done"
    BY DEF Recorded, Personal
<1>4. AnsweredInv'
    <2>1. step.config = "done" => DOMAIN setup.answers.module = Variables[setup.module]
        BY DEF SetupIInv, SetupInv
    <2>2. answered' = [m \in Modules |-> answered'[m]]
        BY DEF EffectInv, AnsweredInv, Recorded
    <2> QED
        BY <1>1, <1>2, <2>1, <2>2 DEF EffectInv, AnsweredInv
<1>5. SectionsInv'
    <2>1. SectionsTold(config)'
        BY <1>2 DEF EffectInv, SectionsInv, SectionsTold, OwnSection, ConfigNow, SectionOf
    <2> QED
        BY <1>1, <2>1 DEF SectionsInv, ConfigNow, SectionsTold
<1>6. SettingsInv'
    <2>1. SettingsTold(userConfig)'
        BY <1>3 DEF EffectInv, SettingsInv, SettingsTold, OwnSettings, UserNow
    <2> QED
        BY <1>1, <2>1 DEF SettingsInv, UserNow, SettingsTold
<1>7. RowsInv'
    <2>1. RowsTold(help)'
        BY <1>2 DEF EffectInv, RowsInv, RowsTold, OwnRows, HelpNow
    <2> QED
        BY <1>1, <2>1 DEF EffectInv, RowsInv, HelpNow, RowsTold
<1> QED
    BY <1>4, <1>5, <1>6, <1>7 DEF EffectInv

\* A setup that begins takes its module's answers off the record.
LEMMA BeginTakesEffect ==
    ASSUME NEW Files, SetupIInv(Files), EffectInv, NEW m \in Modules, Begin(m)
    PROVE  EffectInv'
<1>1. /\ setup = NoSetup /\ step' = [config |-> "load", help |-> "load", clean |-> "idle"]
      /\ answered' = [answered EXCEPT ![m] = NoSetup]
      /\ chosen' = [k \in UserVars |-> IF k \in Variables[m] THEN NoSetup ELSE chosen[k]]
      /\ UNCHANGED <<config, userConfig, help, work, cut>>
    BY DEF Begin
<1>2. /\ step'.config = "load" /\ step'.help = "load" /\ step'.clean = "idle"
      /\ step.config = "idle" /\ step.help = "idle"
    BY <1>1 DEF SetupIInv, SetupInv, EffectInv, AnsweredInv
<1>3. \A n \in Modules : answered'[n] = answered[n] \/ answered'[n] = NoSetup
    BY <1>1 DEF EffectInv, AnsweredInv
<1>4. AnsweredInv'
    <2>1. setup'.module = m
        BY DEF Begin
    <2>2. answered'[m] = NoSetup
        BY <1>1 DEF EffectInv, AnsweredInv
    <2>3. \A k \in Personal(m) : chosen'[k] = NoSetup
        BY <1>1 DEF Personal
    <2> QED
        BY <1>1, <1>2, <1>3, <2>1, <2>2, <2>3 DEF EffectInv, AnsweredInv
<1>5. SectionsInv'
    <2>1. SectionsTold(config)
        BY <1>2 DEF EffectInv, SectionsInv, ConfigNow
    <2>2. SectionsTold(config)'
        BY <1>1, <1>3, <2>1 DEF SectionsTold, SectionOf
    <2> QED
        BY <1>2, <2>2 DEF SectionsInv, SectionsTold, ConfigNow
<1>6. SettingsInv'
    <2>1. SettingsTold(userConfig)
        BY <1>2 DEF EffectInv, SettingsInv, UserNow
    <2>2. SettingsTold(userConfig)'
        BY <1>1, <2>1 DEF SettingsTold
    <2> QED
        BY <1>2, <2>2 DEF SettingsInv, SettingsTold, UserNow
<1>7. RowsInv'
    <2>1. RowsTold(help)
        BY <1>2 DEF EffectInv, RowsInv, HelpNow
    <2>2. RowsTold(help)'
        BY <1>1, <1>3, <2>1 DEF RowsTold
    <2> QED
        BY <1>1, <1>2, <2>2 DEF EffectInv, RowsInv, RowsTold, HelpNow
<1> QED
    BY <1>4, <1>5, <1>6, <1>7 DEF EffectInv

\* The steps that touch only what the installer left.
LEMMA RemovalsTakeNoEffect ==
    ASSUME NEW Files, SetupIInv(Files), EffectInv,
           \/ ConfigUnlink \/ HelpUnlink \/ CleanRemove \/ UNCHANGED setupVars
           \/ CleanVerify /\ UNCHANGED <<setup, answered, chosen>>
    PROVE  EffectInv'
<1>1. CASE ConfigUnlink
    <2>1. PICK next \in {"unlinkCore", "done"} :
             step' = [step EXCEPT !.config = next] /\ step.config \in {"unlink", "unlinkCore"}
        BY <1>1 DEF ConfigUnlink
    <2>2. step'.config = next /\ step'.help = step.help /\ step'.clean = step.clean
        BY <2>1 DEF SetupIInv, Shape
    <2>3. UNCHANGED effectVars /\ UNCHANGED work
        BY <1>1 DEF ConfigUnlink, effectVars
    <2>4. step'.clean # "idle" => step'.help = "done"
        BY <2>2 DEF EffectInv, AnsweredInv
    <2> QED
        BY <2>1, <2>2, <2>3, <2>4, EffectUnmoved
<1>2. CASE HelpUnlink
    <2>1. PICK next \in {"unlinkCore", "done"} :
             step' = [step EXCEPT !.help = next] /\ step.help \in {"unlink", "unlinkCore"}
        BY <1>2 DEF HelpUnlink
    <2>2. step'.help = next /\ step'.config = step.config /\ step'.clean = step.clean
        BY <2>1 DEF SetupIInv, Shape
    <2>3. UNCHANGED effectVars /\ UNCHANGED work
        BY <1>2 DEF HelpUnlink, effectVars
    <2>4. step'.clean # "idle" => step'.help = "done"
        BY <2>1, <2>2 DEF EffectInv, AnsweredInv
    <2> QED
        BY <2>1, <2>2, <2>3, <2>4, EffectUnmoved
<1>3. CASE UNCHANGED setupVars
    <2>1. UNCHANGED effectVars /\ UNCHANGED <<work, step>>
        BY <1>3 DEF setupVars, effectVars
    <2>2. step.clean # "idle" => step.help = "done"
        BY DEF EffectInv, AnsweredInv
    <2> QED
        BY <2>1, <2>2, EffectUnmoved
<1>4. CASE CleanRemove
    <2>1. PICK next : step' = [step EXCEPT !.clean = next] /\ step.clean # "idle"
        BY <1>4 DEF CleanRemove
    <2>2. step'.config = step.config /\ step'.help = step.help /\ step'.help = "done"
        BY <2>1 DEF SetupIInv, Shape, EffectInv, AnsweredInv
    <2>3. UNCHANGED effectVars /\ UNCHANGED work
        BY <1>4 DEF CleanRemove, effectVars
    <2> QED
        BY <2>1, <2>2, <2>3, EffectUnmoved
<1>5. CASE CleanVerify /\ UNCHANGED <<setup, answered, chosen>>
    <2>1. step.config = "done" /\ step.help = "done"
        BY <1>5 DEF CleanVerify
    <2>2. setup # NoSetup /\ ~Stop
        BY <1>5, <2>1 DEF SetupIInv, SetupInv, Stop
    <2>3. step' = [step EXCEPT !.clean = "module"] /\ UNCHANGED work
        BY <1>5, <2>2 DEF CleanVerify
    <2>4. step'.config = "done" /\ step'.help = "done"
        BY <2>1, <2>3 DEF SetupIInv, Shape
    <2>5. UNCHANGED effectVars
        BY <1>5 DEF CleanVerify, effectVars
    <2> QED
        BY <2>1, <2>3, <2>4, <2>5, EffectUnmoved
<1> QED
    BY <1>1, <1>2, <1>3, <1>4, <1>5

LEMMA NextEffect ==
    ASSUME NEW Files, SetupIInv(Files), EffectInv, [SetupNext]_setupVars
    PROVE  EffectInv'
<1>1. CASE ConfigStep
    BY <1>1, ConfigLoadTakesEffect, ConfigWriteTakesEffect, UserWriteTakesEffect,
       RemovalsTakeNoEffect DEF ConfigStep
<1>2. CASE HelpStep
    BY <1>2, HelpTakesEffect, RemovalsTakeNoEffect DEF HelpStep
<1>3. CASE CleanStep
    <2>1. CASE CleanVerify
        <3>1. step.config = "done" /\ step.help = "done" /\ UNCHANGED <<config, userConfig, help, cut>>
            BY <2>1 DEF CleanVerify
        <3>2. CASE Stop /\ Recorded
            BY <3>1, <3>2, EndsTakeEffect
        <3> QED
            BY <2>1, <3>2, RemovalsTakeNoEffect DEF CleanVerify
    <2>2. CASE CleanFail \/ Finish
        <3>1. /\ Stop /\ UNCHANGED <<config, userConfig, help, cut>> /\ step.clean # "idle"
              /\ Recorded
            BY <2>2 DEF CleanFail, Finish
        <3>2. step.config = "done" /\ step.help = "done"
            BY <3>1 DEF EffectInv, AnsweredInv, SetupIInv, SetupInv
        <3> QED
            BY <3>1, <3>2, EndsTakeEffect
    <2> QED
        BY <1>3, <2>1, <2>2, RemovalsTakeNoEffect DEF CleanStep
<1>4. CASE Crash
    BY <1>4, EndsTakeEffect DEF Crash
<1>5. ASSUME NEW m \in Modules, Begin(m) PROVE EffectInv'
    BY <1>5, BeginTakesEffect
<1>6. CASE UNCHANGED setupVars
    BY <1>6, RemovalsTakeNoEffect
<1> QED
    BY <1>1, <1>2, <1>3, <1>4, <1>5, <1>6 DEF SetupNext

\* After a setup, its module's section has the module's variables only, the shared ones as
\* answered; a personal setting is in the user's file as the last setup that asked for it was
\* answered; and of the help rows that carry its code each is there once: in any number of
\* setups of any modules, whether or not their settings share names, and wherever they are
\* interrupted.  A file that a crash cut off is excepted.
THEOREM SetupsTakeEffect ==
    ASSUME NEW Files, NEW configs, NEW users, NEW legacies, NEW packages, NEW installs,
           legacies \subseteq [Dirs -> Files],
           packages \subseteq UNION {[D -> SUBSET Skills] : D \in SUBSET Dirs}
    PROVE  ModuleSetupSpec(configs, users, legacies, packages, installs) => []SetupTakesEffect
<1>1. SetupInit(configs, users, legacies, packages, installs) => SetupIInv(Files) /\ EffectInv
    BY InitSetup, InitEffect
<1>2. SetupIInv(Files) /\ EffectInv /\ [SetupNext]_setupVars => (SetupIInv(Files) /\ EffectInv)'
    BY NextSetup, NextEffect
<1>3. EffectInv => SetupTakesEffect
    BY EffectMeansTakesEffect
<1> QED
    BY <1>1, <1>2, <1>3, PTL DEF ModuleSetupSpec
=============================================================================
