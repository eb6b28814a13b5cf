\* Units of 90 seconds: a lease of 7.5 minutes, sleeps of up to 90 seconds, a
\* Vault that takes up to 90 seconds for an answer, or hangs.  The reserve of
\* 10 seconds and the minute are rounded up.
SPECIFICATION FairSpec
CONSTANTS
  TTLs = {5}
  Reserve = 1
  Minute = 2
  MaxSleep = 1
  Delay = 1
  MaxStrays = 1
PROPERTIES
  LostByGivingUp
  FailureIsFinal
  CertificateReturns
\* A process may exit.
CHECK_DEADLOCK FALSE
