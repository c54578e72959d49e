SPECIFICATION MCSpec
CONSTANTS
  v1 = v1
  v2 = v2
  v3 = v3
  None = None
  Versions <- ThreeVersions
  ServiceOps <- Anybody
  CoreExits = TRUE
  MaxUpgrades = 2
  MaxFaults = 2
INVARIANTS
  OldBinaryIsKept
  UpgradeInv
  RunsAsBeforeAlone
PROPERTIES
  UpgradesAreAtomic
  SuccessMeansInstalled
  UpgradesGetResolved
