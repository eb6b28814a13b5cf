------------------------------ MODULE Startup ------------------------------
(***************************************************************************)
(* The life of a controller process: Validate and RootCmd.Run of           *)
(* cmd/controller/root.go, with NewVault, parseToken and validateRole of   *)
(* cmd/controller/client/vault.go, StartServer of cmd/controller/metrics,  *)
(* and StartRaft of cmd/controller/cluster.  Renewal is what the process   *)
(* leaves running while it starts, and what it is about afterwards.        *)
(*                                                                         *)
(* Run is a sequence of stages.  Most of them call something that may fail,*)
(* and a failure is Fatal: the process ends with what it has started.      *)
(* No time passes between the first certificate and the metrics server.    *)
(***************************************************************************)
EXTENDS Renewal

CONSTANTS
  Configs,   \* configurations, each the set of the settings it has
  Tokens     \* tokens, each the set of its flaws

VaultPair == {"prometheus.tls.vaultCertBackend", "prometheus.tls.vaultCertRole"}
FilePair == {"prometheus.tls.certFile", "prometheus.tls.certKey"}
ScraperCAs == {"prometheus.tls.vaultCABackends", "prometheus.tls.caCert"}
VaultCAs == {"vault.tls.vaultCABackends", "vault.tls.caCert"}
Required == {"vault.addr", "vault.token", "kubernetes.watchNamespace",
             "kubernetes.serviceNamespace", "kubernetes.service"}
SkipCheck == "vault.skipTokenRoleNameValidation"

Settings == Required \cup VaultCAs \cup VaultPair \cup FilePair \cup ScraperCAs \cup {SkipCheck}

\* Of a token that is not periodic, its role, or the lack of one, tells.
RoleFlaws == {"no role", "role is gone", "role not renewable", "explicit_max_ttl", "no period"}
Flaws == {"root", "not renewable", "no TTL"} \cup RoleFlaws

ASSUME StartupAssumption ==
  /\ Configs \subseteq SUBSET Settings
  /\ Tokens \subseteq SUBSET Flaws

VARIABLES
  conf,    \* the configuration
  token,   \* the flaws of the token it names
  stage,   \* how far Run has come
  source,  \* whose channel certCh is: "none", "vault", "file"
  roots,   \* there is a pool of CAs for the scrapers
  served   \* /metrics: "no", "http", "https", "mutual" (client certificates required)

startVars == <<conf, token, stage, source, roots, served>>
processVars == <<renewVars, startVars>>

Stages == {"config", "kube", "discover", "vault", "cert", "file", "roots", "server", "gossip",
           "raft", "running", "stopping", "done", "failed", "panicked"}

StartupTypeOK ==
  /\ TypeOK
  /\ conf \in Configs
  /\ token \in Tokens
  /\ stage \in Stages
  /\ source \in {"none", "vault", "file"}
  /\ roots \in BOOLEAN
  /\ served \in {"no", "http", "https", "mutual"}

StartupInit ==
  /\ Init
  /\ conf \in Configs
  /\ token \in Tokens
  /\ stage = "config"
  /\ source = "none"
  /\ roots = FALSE
  /\ served = "no"

-----------------------------------------------------------------------------
(***************************************************************************)
(* Configuration.                                                          *)
(***************************************************************************)

Has(set) == conf \cap set # {}
Both(pair) == pair \subseteq conf

\* Faulty variant: either setting of a pair is taken for the pair.
ValidHalfPairs ==
  /\ ~(Has(VaultPair) /\ Has(FilePair))
  /\ Required \subseteq conf
  /\ ~Both(VaultCAs)
  /\ ~Both(ScraperCAs)
  /\ Has(ScraperCAs) => Has(VaultPair) \/ Has(FilePair)

\* Faulty variant: both sources of a certificate are accepted.
ValidTwoSources ==
  /\ Has(VaultPair) => Both(VaultPair)
  /\ Has(FilePair) => Both(FilePair)
  /\ Required \subseteq conf
  /\ ~Both(VaultCAs)
  /\ ~Both(ScraperCAs)
  /\ Has(ScraperCAs) => Both(VaultPair) \/ Both(FilePair)

\* Validate finds no error.
Valid ==
  /\ ~(Has(VaultPair) /\ Has(FilePair))
  /\ Has(VaultPair) => Both(VaultPair)
  /\ Has(FilePair) => Both(FilePair)
  /\ Required \subseteq conf
  /\ ~Both(VaultCAs)
  /\ ~Both(ScraperCAs)
  /\ Has(ScraperCAs) => Both(VaultPair) \/ Both(FilePair)

-----------------------------------------------------------------------------
(***************************************************************************)
(* The stages of Run.                                                      *)
(***************************************************************************)

\* Run goes on, with what it has started so far.
Goto(from, to) == stage = from /\ stage' = to

\* logger.Fatalf, from a stage that calls something.
Fatal ==
  /\ stage \in {"config", "kube", "discover", "vault", "cert", "file", "roots", "gossip", "raft"}
  /\ stage' = "failed"
  /\ Exit
  /\ UNCHANGED <<conf, token, source, roots, served>>

\* A panic ends the process as well: validateRole reads the answer for a role
\* that does not exist, and StartRaft uses what NewRaft has returned before
\* it looks at the error.
Panic ==
  /\ \/ stage = "vault" /\ SkipCheck \notin conf /\ "role is gone" \in token
     \/ stage = "raft"
  /\ stage' = "panicked"
  /\ Exit
  /\ UNCHANGED <<conf, token, source, roots, served>>

\* The configuration is read and valid, and the address of the host is known.
Configure ==
  /\ Goto("config", "kube")
  /\ Valid
  /\ UNCHANGED <<renewVars, conf, token, source, roots, served>>

\* NewKube compiles the namespace filter and finds the cluster.
NewKube ==
  /\ Goto("kube", "discover")
  /\ UNCHANGED <<renewVars, conf, token, source, roots, served>>

\* After 3 to 10 seconds: the addresses of the nodes there are.
Discover ==
  /\ Goto("discover", "vault")
  /\ UNCHANGED <<renewVars, conf, token, source, roots, served>>

\* parseToken and validateRole find no error.
Accepts ==
  /\ {"root", "not renewable", "no TTL"} \cap token = {}
  /\ SkipCheck \in conf \/ RoleFlaws \cap token = {}

\* NewVault: Vault tells what the token is, and that ttl seconds are left of
\* it; rest are left when Run goes on.
NewVault(ttl, rest) ==
  /\ Goto("vault", "cert")
  /\ Accepts
  /\ Begin("token", ttl, rest)
  /\ UNCHANGED <<conf, token, source, roots, served>>

\* GetAndRenewCertificate.
GetAndRenewCertificate(ttl, rest) ==
  /\ Goto("cert", "file")
  /\ Both(VaultPair)
  /\ Begin("cert", ttl, rest)
  /\ source' = "vault"
  /\ UNCHANGED <<conf, token, roots, served>>

\* certificateFromFile: certCh is another channel now.
CertificateFromFile ==
  /\ Goto("file", "roots")
  /\ Both(FilePair)
  /\ source' = "file"
  /\ UNCHANGED <<renewVars, conf, token, roots, served>>

\* RootCertificates, or the file of CAs.
LoadRoots ==
  /\ Goto("roots", "server")
  /\ Has(ScraperCAs)
  /\ "prometheus.tls.vaultCABackends" \in conf => TokenLives
  /\ roots' = TRUE
  /\ UNCHANGED <<renewVars, conf, token, source, served>>

\* The stages of what is not configured.
Skip ==
  /\ \/ Goto("cert", "file") /\ ~Both(VaultPair)
     \/ Goto("file", "roots") /\ ~Both(FilePair)
     \/ Goto("roots", "server") /\ ~Has(ScraperCAs)
  /\ UNCHANGED <<renewVars, conf, token, source, roots, served>>

\* StartServer and start.
StartServer ==
  /\ Goto("server", "gossip")
  /\ served' = IF source = "none" THEN "http" ELSE IF roots THEN "mutual" ELSE "https"
  /\ UNCHANGED <<renewVars, conf, token, source, roots>>

\* NewGossip joins the nodes found ...
NewGossip ==
  /\ Goto("gossip", "raft")
  /\ UNCHANGED <<renewVars, conf, token, source, roots, served>>

\* ... and StartRaft makes them the peers.
StartRaft ==
  /\ Goto("raft", "running")
  /\ UNCHANGED <<renewVars, conf, token, source, roots, served>>

\* A signal: store.Shutdown, vault.Shutdown, and main returns.
Signal ==
  /\ Goto("running", "stopping")
  /\ Shutdown
  /\ UNCHANGED <<conf, token, source, roots, served>>

Return ==
  /\ Goto("stopping", "done")
  /\ Exit
  /\ UNCHANGED <<conf, token, source, roots, served>>

-----------------------------------------------------------------------------
(***************************************************************************)
(* What goes on beside Run.                                                *)
(***************************************************************************)

\* watchForNewCertificates reads the channel StartServer was given.
ServerTakes ==
  /\ served \in {"https", "mutual"}
  /\ source = "vault"
  /\ TakeCertificate
  /\ UNCHANGED startVars

RenewLease(k) == Renew(k) /\ UNCHANGED startVars

Pass == Tick /\ UNCHANGED startVars

\* Vault can cap any token: one that has passed the checks may have an
\* explicit_max_ttl of its own, which parseToken does not see, and its role
\* may change after them.
VaultStep == Vault /\ UNCHANGED startVars

Beside ==
  \/ Pass
  \/ VaultStep
  \/ \E k \in Kinds : RenewLease(k) \/ (Stop(k) /\ UNCHANGED startVars)
  \/ ServerTakes

Run ==
  \/ Configure
  \/ NewKube
  \/ Discover
  \/ \E ttl \in TTLs : \E rest \in 0..ttl :
       NewVault(ttl, rest) \/ GetAndRenewCertificate(ttl, rest)
  \/ CertificateFromFile
  \/ LoadRoots
  \/ Skip
  \/ StartServer
  \/ NewGossip
  \/ StartRaft
  \/ Signal
  \/ Return
  \/ Fatal
  \/ Panic

StartupNext == Run \/ Beside

StartupSpec == StartupInit /\ [][StartupNext]_processVars

-----------------------------------------------------------------------------
(***************************************************************************)
(* Properties.                                                             *)
(***************************************************************************)

\* A controller whose Vault is always up, and extends the token, loses
\* nothing before its shutdown, whatever it is given: no renewal gives up,
\* and neither the token nor the certificate expires, although the one cannot
\* be renewed without the other.  Half of a lease must be longer than the two
\* answers that may come after it: the one that tells of the lease, and the
\* one that renews it.
ReachableVaultKeepsLeases ==
  (\A ttl \in TTLs : ttl - ttl \div 2 > 2 * Delay) =>
    ([](up /\ ~capped) => [](\A k \in Kinds : Renewing(k) /\ ~shutdown => left[k] > 0))

\* /metrics is never less protected than the configuration asks for, nor
\* more: http with no TLS setting at all, client certificates when there are
\* CAs for scrapers.
ServedAsConfigured ==
  served # "no" =>
    /\ served = "http" <=> ~Has(VaultPair \cup FilePair \cup ScraperCAs)
    /\ served = "mutual" <=> Has(ScraperCAs)

\* A goroutine that renews a certificate has a reader: the channel takes 8.
RenewedIsServed ==
  Renewing("cert") /\ served # "no" => source = "vault"
=============================================================================
