SPECIFICATION Spec
CONSTANTS
  t1 = t1
  t2 = t2
  x = x
  y = y
  p = p
  lx = lx
  ly = ly
  lp = lp
  Thread = {t1, t2}
  Addr = {x, y, p}
  Lock = {lx, ly, lp}
  PSLOCK <- MCPSLOCK
  Value = {0, 1}
  Reach <- MCReach
  Blocks <- MCBlocks
  Sweep <- MCSweepBlock
  MaxOps = 2
  MaxClock = 2
  NoThread = NoThread
  NoValue = NoValue
INVARIANTS TypeOK Snapshot Serializable OwnerReleases
PROPERTY VersionsGrow
