\* One pod in the token mode; a secret POSTed twice with root CAs, and one of
\* another push without.
SPECIFICATION FairSpec
CONSTANTS
  s1 = s1
  s2 = s2
  Pods = {p1}
  Requests <- MCRequests
  Secrets = {s1, s2}
  SecretOf <- MCSecretOf
  UnwrapSecret = TRUE
  RetrieveToken = TRUE
  BringsCAs <- MCBringsCAs
  NoRequest = NoRequest
  NoSecret = NoSecret
INVARIANTS
  TypeOK
  Provisioned
PROPERTIES
  FirstSecretWins
  RunEnds
\* A container that has exited 0 is not started again.
CHECK_DEADLOCK FALSE
