--------------------------- MODULE InitContainer ---------------------------
(***************************************************************************)
(* The init container: main and startHTTPServer of cmd/init/main.go, and   *)
(* WrappedSecretId.Validate of common/wrapped-secret.go.                   *)
(*                                                                         *)
(* A run of the container serves HTTPS.  Every POST is a handler of its    *)
(* own, which blocks on an unbuffered channel; main receives exactly one   *)
(* secret (or times out), turns it into credentials, writes them and the   *)
(* CA bundle to the shared volume and exits.  Every error is Fatalf: the   *)
(* container exits 1 and the kubelet starts it again, with the same volume.*)
(* The application containers start after exit 0.                          *)
(***************************************************************************)
EXTENDS Naturals

CONSTANTS
  Pods,           \* the pods that have an init container
  Requests,       \* POSTs of a wrapped secret
  Secrets,        \* wrapping tokens
  SecretOf(_),    \* the token a request carries
  UnwrapSecret,   \* UNWRAP_SECRET
  RetrieveToken,  \* RETRIEVE_TOKEN
  BringsCAs(_),   \* a request has Vault's root CAs with it
  NoRequest,
  NoSecret

\* RETRIEVE_TOKEN without UNWRAP_SECRET is refused on start-up.
ASSUME InitContainerAssumption ==
  /\ {UnwrapSecret, RetrieveToken} \subseteq BOOLEAN
  /\ RetrieveToken => UnwrapSecret
  /\ NoRequest \notin Requests
  /\ NoSecret \notin Secrets
  /\ \A r \in Requests : SecretOf(r) \in Secrets /\ BringsCAs(r) \in BOOLEAN

VARIABLES
  pc,     \* [Pods -> States]
  inbox,  \* [Pods -> SUBSET Requests]: handlers blocked on the channel
  taken,  \* [Pods -> Requests \cup {NoRequest}]: what this run received
  cred,   \* [Pods -> Creds]: the credentials file on the volume
  ca      \* [Pods -> Secrets \cup {NoSecret}]: ca.crt, by the push that brought it;
          \* NoSecret: there is none, or a truncated one

initVars == <<pc, inbox, taken, cred, ca>>

States == {"down", "waiting", "validate", "unwrap", "login", "create", "write",
           "bundle", "fill", "exit", "ok"}
Kinds == {"none", "partial", "token", "secret-id", "wrapped"}
Creds == [kind : Kinds, secret : Secrets \cup {NoSecret}]

NoCred == [kind |-> "none", secret |-> NoSecret]
Partial == [kind |-> "partial", secret |-> NoSecret]

\* What the two switches of the container make of a secret.
Mode == IF RetrieveToken THEN "token" ELSE IF UnwrapSecret THEN "secret-id" ELSE "wrapped"

TypeOK ==
  /\ pc \in [Pods -> States]
  /\ inbox \in [Pods -> SUBSET Requests]
  /\ taken \in [Pods -> Requests \cup {NoRequest}]
  /\ cred \in [Pods -> Creds]
  /\ ca \in [Pods -> Secrets \cup {NoSecret}]

Init ==
  /\ pc = [p \in Pods |-> "down"]
  /\ inbox = [p \in Pods |-> {}]
  /\ taken = [p \in Pods |-> NoRequest]
  /\ cred = [p \in Pods |-> NoCred]
  /\ ca = [p \in Pods |-> NoSecret]

Running(p) == pc[p] \notin {"down", "ok"}
Secret(p) == SecretOf(taken[p])

\* main goes on to the next statement.
Goto(p, from, to) == pc[p] = from /\ pc' = [pc EXCEPT ![p] = to]

-----------------------------------------------------------------------------
\* A run begins; the volume is as the last run left it.
Start(p) ==
  /\ Goto(p, "down", "waiting")
  /\ UNCHANGED <<inbox, taken, cred, ca>>

\* A POST arrives: its handler has decoded the body and sends on the channel.
Deliver(p, r) ==
  /\ Running(p)
  /\ inbox' = [inbox EXCEPT ![p] = @ \cup {r}]
  /\ UNCHANGED <<pc, taken, cred, ca>>

\* Faulty variant: main keeps receiving while it works on a secret.
ReceiveAgain(p, r) ==
  /\ pc[p] \in {"waiting", "write"}
  /\ r \in inbox[p]
  /\ pc' = [pc EXCEPT ![p] = IF @ = "waiting" THEN "validate" ELSE @]
  /\ inbox' = [inbox EXCEPT ![p] = @ \ {r}]
  /\ taken' = [taken EXCEPT ![p] = r]
  /\ UNCHANGED <<cred, ca>>

\* The select of main takes the result case.
Receive(p, r) ==
  /\ r \in inbox[p]
  /\ Goto(p, "waiting", "validate")
  /\ inbox' = [inbox EXCEPT ![p] = @ \ {r}]
  /\ taken' = [taken EXCEPT ![p] = r]
  /\ UNCHANGED <<cred, ca>>

\* Fatalf, or a kill by the kubelet: the run and its handlers are gone.
Exit(p) ==
  /\ pc' = [pc EXCEPT ![p] = "down"]
  /\ inbox' = [inbox EXCEPT ![p] = {}]
  /\ taken' = [taken EXCEPT ![p] = NoRequest]
  /\ UNCHANGED <<cred, ca>>

\* Faulty variant: a time-out is logged and the loop goes on.
TimeoutIgnored(p) ==
  /\ pc[p] = "waiting"
  /\ UNCHANGED initVars

\* The select of main takes the timer case.
Timeout(p) == pc[p] = "waiting" /\ Exit(p)

\* Validate accepts the secret.
Validate(p) ==
  /\ Goto(p, "validate", IF UnwrapSecret THEN "unwrap" ELSE "create")
  /\ UNCHANGED <<inbox, taken, cred, ca>>

\* Vault hands out the secret_id behind the wrapping token.
Unwrap(p) ==
  /\ Goto(p, "unwrap", IF RetrieveToken THEN "login" ELSE "create")
  /\ UNCHANGED <<inbox, taken, cred, ca>>

Login(p) ==
  /\ Goto(p, "login", "create")
  /\ UNCHANGED <<inbox, taken, cred, ca>>

\* ioutil.WriteFile: the file is created or truncated ...
Create(p) ==
  /\ Goto(p, "create", "write")
  /\ cred' = [cred EXCEPT ![p] = Partial]
  /\ UNCHANGED <<inbox, taken, ca>>

\* Faulty variant: the container exits without having written the bundle.
WriteAndExit(p) ==
  /\ Goto(p, "write", "exit")
  /\ cred' = [cred EXCEPT ![p] = [kind |-> Mode, secret |-> Secret(p)]]
  /\ UNCHANGED <<inbox, taken, ca>>

\* ... and written.  Whether a bundle follows is a matter of the request.
Write(p) ==
  /\ Goto(p, "write", IF BringsCAs(taken[p]) THEN "bundle" ELSE "exit")
  /\ cred' = [cred EXCEPT ![p] = [kind |-> Mode, secret |-> Secret(p)]]
  /\ UNCHANGED <<inbox, taken, ca>>

\* ca.crt is created or truncated ...
CreateBundle(p) ==
  /\ Goto(p, "bundle", "fill")
  /\ ca' = [ca EXCEPT ![p] = NoSecret]
  /\ UNCHANGED <<inbox, taken, cred>>

\* Faulty variant: the body of the request is written as it came.
WriteBundleRaw(p) ==
  /\ Goto(p, "fill", "exit")
  /\ ca' = [ca EXCEPT ![p] = taken[p]]
  /\ UNCHANGED <<inbox, taken, cred>>

\* ... and written.
WriteBundle(p) ==
  /\ Goto(p, "fill", "exit")
  /\ ca' = [ca EXCEPT ![p] = Secret(p)]
  /\ UNCHANGED <<inbox, taken, cred>>

\* os.Exit(0): the handlers go with the process.
Succeed(p) ==
  /\ Goto(p, "exit", "ok")
  /\ inbox' = [inbox EXCEPT ![p] = {}]
  /\ UNCHANGED <<taken, cred, ca>>

\* Any step between the receive and the end can fail: validation, Vault's
\* client, unwrapping, login, either file.
Fail(p) ==
  /\ pc[p] \in {"validate", "unwrap", "login", "create", "write", "bundle", "fill"}
  /\ Exit(p)

\* The kubelet kills the run.
Kill(p) == Running(p) /\ Exit(p)

-----------------------------------------------------------------------------
Work(p) ==
  \/ \E r \in Requests : Receive(p, r)
  \/ Timeout(p)
  \/ Validate(p)
  \/ Unwrap(p)
  \/ Login(p)
  \/ Create(p)
  \/ Write(p)
  \/ CreateBundle(p)
  \/ WriteBundle(p)
  \/ Succeed(p)
  \/ Fail(p)

Next ==
  \E p \in Pods :
    \/ Start(p)
    \/ \E r \in Requests : Deliver(p, r)
    \/ Work(p)
    \/ Kill(p)

\* main is a straight line after the receive, and the timer fires; Vault is
\* assumed to answer or to refuse.
Fairness == \A p \in Pods : WF_initVars(Work(p))

Spec == Init /\ [][Next]_initVars
FairSpec == Spec /\ Fairness

-----------------------------------------------------------------------------
(***************************************************************************)
(* Properties.                                                             *)
(***************************************************************************)

\* The credentials an application starts with are complete and come from the
\* push its last run received, and so does the bundle if that push brought
\* one, whatever earlier runs of the container left on the volume.
Provisioned ==
  \A p \in Pods :
    pc[p] \in {"exit", "ok"} =>
      /\ taken[p] # NoRequest
      /\ cred[p] = [kind |-> Mode, secret |-> Secret(p)]
      /\ BringsCAs(taken[p]) => ca[p] = Secret(p)

\* Within one run the first secret wins: a second POST, of a retry or of
\* another controller, changes neither what main works on nor the files.
FirstSecretWins ==
  [][\A p \in Pods :
       taken[p] # NoRequest /\ pc'[p] # "down" => taken'[p] = taken[p]]_initVars

\* A run ends, with or without credentials.
RunEnds == \A p \in Pods : Running(p) ~> ~Running(p)
=============================================================================
