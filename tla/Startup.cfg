\* Units of 5 seconds: a lease of 25 seconds, whose half leaves the backoff
\* without a limit; a Vault that takes up to 5 seconds for an answer, or hangs.
SPECIFICATION StartupSpec
CONSTANTS
  TTLs = {5}
  Reserve = 2
  Minute = 12
  MaxSleep = 1
  Delay = 1
  MaxStrays = 0
  Configs <- SomeConfigs
  Tokens <- SomeTokens
INVARIANTS
  ServedAsConfigured
  RenewedIsServed
PROPERTY
  ReachableVaultKeepsLeases
\* A process may end.
CHECK_DEADLOCK FALSE
