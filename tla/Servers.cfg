SPECIFICATION Spec
CONSTANTS
  Sessions <- TwoServers
  Plain = {"default"}
  Default = Default
  Elsewhere = {}
  Lasting <- Stable
  Unset = Unset
  Environments <- Variety
  Daemons = {d1, d2}
  Nobody = Nobody
  Torn = Torn
  NoDir = NoDir
  Terminals = {"t1"}
  Home <- Homes
  MaxCommands = 1
  Faults = {"crash", "disk"}
SYMMETRY Alike
INVARIANTS TypeOK OneDaemonPerServer CommandReachesAll
PROPERTIES OnceAcrossDaemons LedgerIsAtomic
