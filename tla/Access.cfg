SPECIFICATION SumSpec
CONSTANTS
  Callers = {"alice", "bob", "gate", "svc", "eve"}
  Services = {"gate", "svc"}
  Gateways = {"gate"}
  Strangers = {"eve"}
  Grants <- MCGrants
  Namespace <- MCNamespace
  Matches <- MCMatches
  Prefix <- MCPrefix
  NoPattern = ""
  Unbounded = "unbounded"
  NoWake = ""
  Configs <- MCConfigs
  PathLists <- MCPathLists
  Scenes <- MCScenes
  Slots = {c1, c2}
  MaxIncarnations = 2
  MaxClaims = 2
  k1 = k1
  k2 = k2
  NoKid = NoKid
SYMMETRY Symmetry
CHECK_DEADLOCK FALSE
INVARIANTS
    OnlyTheEntitledAct
    VerifyAgreesWithGate
    CommitsAreEntitled
    LostClaimsAreSealed
    TokenOutlivesShortLease
    PublishedKeyIsFound
