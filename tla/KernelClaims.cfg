CONSTANTS
    Timed = Timed
    Scoped = Scoped
    Plain = Plain
    Wired = Wired
    Passing = Passing
    Failing = Failing
    Upstream = Upstream
    Platform = Platform
    Soc = Soc
    EvidenceIds = {Timed, Scoped}
    BasisIds = {Wired, Passing, Failing}
    RequestIds = {r1}
    Dependencies = {Upstream, Platform}
    Profiles = {Soc, Iso}
    MaxVersion = 2
    MaxTime = 3
    Intervals = {2}
    DependsOn <- CatalogueDependsOn
    ExpiresAt <- CatalogueExpiresAt
    MadeFor <- CatalogueMadeFor
    Kind <- CatalogueKind
    Says <- CatalogueSays
    Members <- CatalogueMembers
    None = None
SPECIFICATION Spec
INVARIANTS ControlInv VerifierAgrees EventsConverge
PROPERTIES NoPromotion BasisNeverReturns
