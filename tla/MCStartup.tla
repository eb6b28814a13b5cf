----------------------------- MODULE MCStartup -----------------------------
(* An instance of Startup for TLC. *)
EXTENDS Startup

\* Every choice of the settings of the certificate with one of CAs, a token
\* that is not checked, and the other errors.
SomeConfigs ==
  { Required \cup tls : tls \in SUBSET (VaultPair \cup FilePair \cup {"prometheus.tls.caCert"}) }
  \cup { Required \cup {SkipCheck},
         Required \cup FilePair \cup {"prometheus.tls.vaultCABackends"},
         Required \cup FilePair \cup ScraperCAs,
         Required \cup VaultCAs,
         Required \ {"vault.token"} }

SomeTokens == { {}, {"explicit_max_ttl"}, {"no role"}, {"role is gone"}, {"root"} }
=============================================================================
