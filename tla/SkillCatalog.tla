---------------------------- MODULE SkillCatalog ----------------------------
(***************************************************************************)
(* Listing the customizable skills (list_customizable_skills.py): the      *)
(* skill directories of several roots are visited in order, and a skill is *)
(* listed once for each surface its customize.toml opens, with the         *)
(* overrides the project has for it.                                       *)
(***************************************************************************)
EXTENDS Naturals, Sequences, FiniteSets, FiniteSetsExt, Lists

VARIABLES
    skillsRoots,   \* the roots, in the order given: whether each exists, and its skills
    overrides,     \* the override files of the project: <<name, layer>>
    atRoot,        \* the root that is being scanned
    atSkill,       \* how many of its skills are scanned
    seenNames,     \* names of the skills whose customize.toml could be read
    entries,       \* the entries listed so far
    scanErrors     \* what is reported as an error

catalogVars == <<skillsRoots, overrides, atRoot, atSkill, seenNames, entries, scanErrors>>

Surfaces == {"agent", "workflow"}

\* main: a root given twice is scanned once.
DistinctRoots(given) == Distinct(given)

ScanDone == atRoot > Len(skillsRoots)
Skill == skillsRoots[atRoot].skills[atSkill + 1]
\* What is reported: of a root, and of a skill in one.
MissingRoot(r) == <<"root", r, "">>
BadSkill(r, name) == <<"skill", r, name>>
InRoot == ~ScanDone /\ skillsRoots[atRoot].exists /\ atSkill < Len(skillsRoots[atRoot].skills)

\* The next root, when this one is missing or through.
NextRoot ==
    /\ ~ScanDone /\ ~InRoot
    /\ atRoot' = atRoot + 1 /\ atSkill' = 0
    /\ scanErrors' = IF skillsRoots[atRoot].exists THEN scanErrors
                     ELSE scanErrors \cup {MissingRoot(atRoot)}
    /\ UNCHANGED <<skillsRoots, overrides, seenNames, entries>>

\* A directory without the file is no customizable skill; a file that does
\* not parse is reported and takes no name.
PassOver ==
    /\ InRoot
    /\ Skill.file \in {"none", "bad"}
    /\ atSkill' = atSkill + 1
    /\ scanErrors' = IF Skill.file = "bad" THEN scanErrors \cup {BadSkill(atRoot, Skill.name)} ELSE scanErrors
    /\ UNCHANGED <<skillsRoots, overrides, atRoot, seenNames, entries>>

\* The first skill of a name wins.
Shadowed ==
    /\ InRoot
    /\ Skill.file = "read" /\ Skill.name \in seenNames
    /\ atSkill' = atSkill + 1
    /\ UNCHANGED <<skillsRoots, overrides, atRoot, seenNames, entries, scanErrors>>

\* Mutant: only a skill that is listed takes its name.
NamesListed(s) == IF s.surfaces = {} THEN seenNames ELSE seenNames \cup {s.name}
NamesWith(s) == seenNames \cup {s.name}

\* One entry for each surface; a file with none is reported, and its name is
\* taken all the same.
ListSkill ==
    /\ InRoot
    /\ Skill.file = "read" /\ Skill.name \notin seenNames
    /\ seenNames' = NamesWith(Skill)
    /\ entries' = entries \o SetToSeq({[name |-> Skill.name, root |-> atRoot, surface |-> s,
                                        team |-> <<Skill.name, "team">> \in overrides,
                                        user |-> <<Skill.name, "user">> \in overrides] :
                                           s \in Skill.surfaces})
    /\ scanErrors' = IF Skill.surfaces = {} THEN scanErrors \cup {BadSkill(atRoot, Skill.name)} ELSE scanErrors
    /\ atSkill' = atSkill + 1
    /\ UNCHANGED <<skillsRoots, overrides, atRoot>>

CatalogNext == NextRoot \/ PassOver \/ Shadowed \/ ListSkill

CatalogInit(rootLists, overrideSets) ==
    /\ \E given \in rootLists : skillsRoots = DistinctRoots(given)
    /\ overrides \in overrideSets
    /\ atRoot = 1 /\ atSkill = 0
    /\ seenNames = {} /\ entries = <<>> /\ scanErrors = {}

CatalogSpec(rootLists, overrideSets) ==
    CatalogInit(rootLists, overrideSets) /\ [][CatalogNext]_catalogVars

-----------------------------------------------------------------------------
(* Properties.                                                             *)

\* The skills that can be read, as <<root, place>>.
Readable ==
    UNION {{<<r, i>> : i \in {j \in DOMAIN skillsRoots[r].skills :
                                 skillsRoots[r].skills[j].file = "read"}} :
              r \in {q \in DOMAIN skillsRoots : skillsRoots[q].exists}}
SkillAt(p) == skillsRoots[p[1]].skills[p[2]]

\* However the roots repeat, hide or break each other's skills: for every
\* name, exactly the surfaces of the first root that has a readable skill of
\* that name are listed, once each and from that root; and a root that is
\* missing or a file that cannot be read is reported.
CatalogExact ==
    ScanDone =>
        /\ \A p \in Readable :
              LET name == SkillAt(p).name
                  first == Min({q[1] : q \in {o \in Readable : SkillAt(o).name = name}})
              IN  \A s \in Surfaces :
                    LET listed == {i \in DOMAIN entries : entries[i].name = name /\ entries[i].surface = s}
                    IN  IF p[1] = first
                        THEN /\ Cardinality(listed) = IF s \in SkillAt(p).surfaces THEN 1 ELSE 0
                             /\ \A i \in listed : entries[i].root = first
                        ELSE \A i \in listed : entries[i].root # p[1]
        /\ \A i \in DOMAIN entries : \E p \in Readable : SkillAt(p).name = entries[i].name
        /\ \A r \in DOMAIN skillsRoots : ~skillsRoots[r].exists <=> MissingRoot(r) \in scanErrors
        /\ \A r \in DOMAIN skillsRoots : skillsRoots[r].exists =>
              \A i \in DOMAIN skillsRoots[r].skills :
                 skillsRoots[r].skills[i].file = "bad" =>
                    BadSkill(r, skillsRoots[r].skills[i].name) \in scanErrors
=============================================================================
