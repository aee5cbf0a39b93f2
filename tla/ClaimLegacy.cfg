CONSTANTS
    m1 = m1
    m2 = m2
    Modules = {m1, m2}
    SharedKeys = {"folder"}
    UserKeys = {"name"}
    Variables <- VariablesOf
    UserVars = {"mine"}
    BlankRows = {m2}
    Skills = {"s1", "s2"}
    Values = {"new"}
    Default = "default"
    MaxRuns = 2
    NoFile = NoFile
    NoSetup = NoSetup
    Paths <- PathsAsked
    NoRoot = NoRoot
    Conditions = {"c", "d"}
    Nodes = {1, 2, 3, 4}
    Companions = {"notes", "notes-review", "doc-review"}
    BaseOf <- Bases
    Skipped = {"node_modules"}
    Included = {"doc", "notes", "notes-review", "doc-review", "other"}
    CharsPerToken = 4
    SingleCompressorMax = 15
    SingleDistillateMax = 5
    SetupSkill = "su"
    OtherSetups = {"other"}
    Sanctum = "sanctum"
    References <- ReferenceFiles
    SkillOnly = {"first-breath.md"}
    Capabilities = {"cap.md", "first-breath.md"}
    AgentScripts <- ScriptFiles
    SanctumFiles <- SanctumOutput
    MaxScaffolds = 2
    NoJob = NoJob
    AgentArtifacts = {"{if-memory}", "{if-module}"}
    WorkflowArtifacts = {"{if-module}"}
SPECIFICATION SetupSpec
INVARIANT ExistingBeatsLegacy
CHECK_DEADLOCK FALSE
