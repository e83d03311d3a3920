SPECIFICATION Spec
CHECK_DEADLOCK FALSE
CONSTANTS
    o1 = o1
    o2 = o2
    Ops = {o1, o2}
    r1 = r1
    r2 = r2
    r3 = r3
    Rules = {r1}
    design = design
    plain = plain
    Flags = {design}
    contact = contact
    Pages = {contact}
    AnyPage = AnyPage
    testers = testers
    Groups = {testers}
    PagesOf <- MCPagesOf
    AudiencesOf <- MCAudiencesOf
    RequiredGroup <- MCRequiredGroup
    Guarded <- MCGuarded
    NoGroup = NoGroup
    NoOne = NoOne
    NoRule = NoRule
    NoFlag = NoFlag
    NoForm = NoForm
    Forms <- DesignForms
    RawForms = {}
    Seed <- TesterSeed
PROPERTIES StoppedIsNoDraft
