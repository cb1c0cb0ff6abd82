CONSTANTS
    Hosts = {"a", "b"}
    Known <- MCKnown
    Threads = {t1, t2}
    Rules <- MCRules
    RuleLists <- MCRuleLists
    Profiles = {"p1", "p2"}
    Contents <- MCContents
    Plugins <- MCPlugins
    Tree <- MCTree
    Filename = "firmware.bin"
    OwnName <- MCOwnName
    MaxSize = 1
    MaxEdits = 1
    None = None
SYMMETRY Symmetry
SPECIFICATION Spec
INVARIANTS
    TypeOK
    MatchIsBest
    ServedIsAllowed
PROPERTY CurrentAfterInvalidate
