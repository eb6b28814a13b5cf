------------------------------ MODULE Renewal ------------------------------
(***************************************************************************)
(* How a controller keeps its Vault token and the certificate of its       *)
(* metrics server alive: renew, renewToken and GetAndRenewCertificate of   *)
(* cmd/controller/client/vault.go, and cmd/controller/metrics/server.go.   *)
(*                                                                         *)
(* One goroutine for each of the two waits for half of the lease, then     *)
(* calls Vault with backoff until it answers or the time for it is over.   *)
(* After a success it waits for half of the new lease, after a failure for *)
(* one minute.  Vault serves neither with a token that has expired.        *)
(* Startup says when the goroutines begin and when the process ends.       *)
(*                                                                         *)
(* A call has no timeout.  While Vault is up its answer arrives within     *)
(* Delay; otherwise a call may hang, be refused, be answered late, or be   *)
(* performed without an answer, during the call or after it.  Time passes  *)
(* in units, and only when no goroutine can run.                           *)
(***************************************************************************)
EXTENDS Naturals

CONSTANTS
  TTLs,      \* the leases Vault grants
  Reserve,   \* the 10 seconds of calculateMaxElapsedTime
  Minute,    \* the wait after a failure
  MaxSleep,  \* the longest sleep of the backoff: 90 seconds
  Delay,     \* the longest answer of a Vault that is up
  MaxStrays  \* bound on the requests that Vault may perform after their calls

\* calculateMaxElapsedTime: how long a renewal is tried.
MaxElapsedTime(t) == IF t >= Reserve THEN t - Reserve ELSE t \div 2

ASSUME RenewalAssumption ==
  /\ Delay \in Nat
  /\ TTLs \subseteq Nat /\ \A ttl \in TTLs : ttl > Delay
  /\ Reserve \in Nat
  /\ Minute \in Nat /\ Minute > Reserve
  /\ MaxSleep \in Nat \ {0}
  /\ MaxStrays \in Nat

Kinds == {"token", "cert"}

\* "off": not started yet; "try": the next call is due; "call": a call is out.
States == {"off", "wait", "try", "call", "stopped"}

\* A sleep and an answer, and one unit more.
Long == MaxSleep + Delay + 1

VARIABLES
  pc,         \* [Kinds -> States]: the renew goroutines
  due,        \* [Kinds -> Nat]: until the timer fires, the sleep ends, or a
              \* Vault that is up has answered
  span,       \* [Kinds -> Nat]: maxElapsedTime of the next or current renewal
  elapsed,    \* [Kinds -> Nat]: time since the renewal began; 0 before
  left,       \* [Kinds -> Nat]: what is left of the lease; 0: it has expired
  answer,     \* [Kinds -> Nat]: the lease in the answer on its way; 0: none
  strays,     \* token requests of failed calls that may still be performed
  up,         \* Vault answers in time (external)
  capped,     \* Vault will not extend the token any more (external)
  gaveUp,     \* history: a renewal has given up since the last success
  tight,      \* history: the lease does not last until the answer of a call
              \* that is made after half of the lease the goroutine knows of
  unheard,    \* history: a call that failed was the last to renew the token
  stable,     \* history: how long Vault has been up, up to Long
  delivered,  \* no certificate is in the channel to the metrics server
  shutdown    \* v.shutdown is closed

timerVars == <<pc, due, span, elapsed>>
vaultVars == <<left, answer, strays, up, capped>>
historyVars == <<gaveUp, tight, unheard, stable>>
renewVars == <<timerVars, vaultVars, historyVars, delivered, shutdown>>

TypeOK ==
  /\ pc \in [Kinds -> States]
  /\ due \in [Kinds -> Nat]
  /\ span \in [Kinds -> Nat]
  /\ elapsed \in [Kinds -> Nat]
  /\ left \in [Kinds -> Nat]
  /\ answer \in [Kinds -> Nat]
  /\ strays \in 0..MaxStrays
  /\ gaveUp \in [Kinds -> BOOLEAN]
  /\ tight \in [Kinds -> BOOLEAN]
  /\ stable \in 0..Long
  /\ {up, capped, unheard, delivered, shutdown} \subseteq BOOLEAN

Init ==
  /\ pc = [k \in Kinds |-> "off"]
  /\ due = [k \in Kinds |-> 0]
  /\ span = [k \in Kinds |-> 0]
  /\ elapsed = [k \in Kinds |-> 0]
  /\ left = [k \in Kinds |-> 0]
  /\ answer = [k \in Kinds |-> 0]
  /\ strays = 0
  /\ up = TRUE
  /\ capped = FALSE
  /\ gaveUp = [k \in Kinds |-> FALSE]
  /\ tight = [k \in Kinds |-> FALSE]
  /\ unheard = FALSE
  /\ stable = Long
  /\ delivered = TRUE
  /\ shutdown = FALSE

\* A goroutine has a lease to look after.
Renewing(k) == pc[k] \in {"wait", "try", "call"}

\* Vault takes the token.
TokenLives == left["token"] > 0

-----------------------------------------------------------------------------
(***************************************************************************)
(* The environment.                                                        *)
(***************************************************************************)

Pred(n) == IF n > 0 THEN n - 1 ELSE 0

\* The call that is out may take any time.
Hangs(k) == pc[k] = "call" /\ ~up

\* A unit of time in which there is something to renew: after Shutdown the
\* process ends at once.  elapsed is only
\* compared with span, so it need not grow beyond it by more than one.  The
\* lease in the answer to a request for a certificate is what is left of it
\* on arrival.
Tick ==
  /\ ~shutdown /\ \E k \in Kinds : Renewing(k)
  /\ \A k \in Kinds : Renewing(k) => due[k] > 0 \/ Hangs(k)
  /\ delivered
  /\ due' = [k \in Kinds |-> IF Hangs(k) THEN due[k] ELSE Pred(due[k])]
  /\ left' = [k \in Kinds |-> Pred(left[k])]
  /\ answer' = [answer EXCEPT !["cert"] = Pred(@)]
  /\ elapsed' = [k \in Kinds |->
                   IF pc[k] \in {"try", "call"} /\ elapsed[k] <= span[k]
                   THEN elapsed[k] + 1 ELSE elapsed[k]]
  /\ stable' = IF up /\ stable < Long THEN stable + 1 ELSE stable
  /\ UNCHANGED <<pc, span, strays, up, capped, gaveUp, tight, unheard, delivered, shutdown>>

\* Vault gets slow or unreachable or refuses, or is back and answers what
\* it has been asked.
Switch ==
  /\ up' = ~up
  /\ stable' = 0
  /\ due' = [k \in Kinds |-> IF pc[k] = "call" THEN Delay ELSE due[k]]
  /\ UNCHANGED <<pc, span, elapsed, left, answer, strays, capped, gaveUp, tight, unheard,
                 delivered, shutdown>>

\* The token has reached a greatest lifetime, its role has changed so that
\* Vault does not renew it, or it is revoked.
Cap ==
  /\ ~capped
  /\ TokenLives
  /\ capped' = TRUE
  /\ left' \in {left, [left EXCEPT !["token"] = 0]}
  /\ UNCHANGED <<timerVars, answer, strays, up, historyVars, delivered, shutdown>>

\* Vault performs the request of the call that is out: a token is extended,
\* or a certificate issued, for ttl.
Perform(k, ttl) ==
  /\ pc[k] = "call"
  /\ answer[k] = 0
  /\ TokenLives
  /\ IF k = "token" /\ capped
     THEN /\ answer' = [answer EXCEPT ![k] = left[k]]
          /\ UNCHANGED left
     ELSE /\ answer' = [answer EXCEPT ![k] = ttl]
          /\ left' = IF k = "token" THEN [left EXCEPT ![k] = ttl] ELSE left
  /\ unheard' = (unheard /\ k # "token")
  /\ UNCHANGED <<timerVars, strays, up, capped, gaveUp, tight, stable, delivered, shutdown>>

\* Vault performs the request of a call that has failed.
PerformStray(ttl) ==
  /\ strays > 0
  /\ TokenLives
  /\ ~capped
  /\ strays' = strays - 1
  /\ left' = [left EXCEPT !["token"] = ttl]
  /\ tight' = [tight EXCEPT !["token"] = @ \/ ttl < left["token"]]
  /\ unheard' = TRUE
  /\ UNCHANGED <<timerVars, answer, up, capped, gaveUp, stable, delivered, shutdown>>

\* Vault.Shutdown.
Shutdown ==
  /\ ~shutdown
  /\ shutdown' = TRUE
  /\ UNCHANGED <<timerVars, vaultVars, historyVars, delivered>>

-----------------------------------------------------------------------------
(***************************************************************************)
(* The renew goroutines.                                                   *)
(***************************************************************************)

\* timer.Reset(nextRenewal), and the time the renewal will have.
Schedule(k, nextRenewal) ==
  /\ pc' = [pc EXCEPT ![k] = "wait"]
  /\ due' = [due EXCEPT ![k] = nextRenewal]
  /\ span' = [span EXCEPT ![k] = MaxElapsedTime(nextRenewal)]
  /\ elapsed' = [elapsed EXCEPT ![k] = 0]

\* Of a lease of ttl that the goroutine has heard of, rest is left.
Learn(k, ttl, rest) ==
  /\ left' = [left EXCEPT ![k] = rest]
  /\ tight' = [tight EXCEPT ![k] = rest <= ttl \div 2 + Delay]
  /\ delivered' = (delivered /\ k # "cert")

\* The goroutine begins with a lease of ttl, of which rest is left when the
\* answer has arrived: that of the token parseToken has accepted, or of a
\* first certificate, whose rest NotAfter tells, put into the channel.
Begin(k, ttl, rest) ==
  /\ pc[k] = "off"
  /\ ~shutdown
  /\ k = "cert" => TokenLives
  /\ rest <= ttl
  /\ up => ttl <= rest + Delay
  /\ LET known == IF k = "cert" THEN rest ELSE ttl
     IN  Schedule(k, known \div 2) /\ Learn(k, known, rest)
  /\ UNCHANGED <<answer, strays, up, capped, gaveUp, unheard, stable, shutdown>>

\* The process ends, and with it the goroutines, their calls and timers.
Exit ==
  /\ pc' = [k \in Kinds |-> "stopped"]
  /\ due' = [k \in Kinds |-> 0]
  /\ span' = [k \in Kinds |-> 0]
  /\ elapsed' = [k \in Kinds |-> 0]
  /\ answer' = [k \in Kinds |-> 0]
  /\ UNCHANGED <<left, strays, up, capped, historyVars, delivered, shutdown>>

\* case <-timer.C.
Fire(k) ==
  /\ pc[k] = "wait"
  /\ due[k] = 0
  /\ pc' = [pc EXCEPT ![k] = "try"]
  /\ UNCHANGED <<due, span, elapsed, vaultVars, historyVars, delivered, shutdown>>

\* One call of op: the request is sent.
Call(k) ==
  /\ pc[k] = "try"
  /\ due[k] = 0
  /\ pc' = [pc EXCEPT ![k] = "call"]
  /\ due' = [due EXCEPT ![k] = Delay]
  /\ UNCHANGED <<span, elapsed, vaultVars, historyVars, delivered, shutdown>>

\* The lease that an answer leaves: a token has been extended before.
Rest(k) == IF k = "cert" THEN answer[k] ELSE left[k]

\* Faulty variant: the timer is set to the whole lease.
SucceedWholeLease(k) ==
  /\ pc[k] = "call"
  /\ answer[k] > 0
  /\ Schedule(k, answer[k])
  /\ Learn(k, answer[k], Rest(k))
  /\ answer' = [answer EXCEPT ![k] = 0]
  /\ gaveUp' = [gaveUp EXCEPT ![k] = FALSE]
  /\ UNCHANGED <<strays, up, capped, unheard, stable, shutdown>>

\* The answer arrives; a certificate goes into the channel.
Succeed(k) ==
  /\ pc[k] = "call"
  /\ answer[k] > 0
  /\ Schedule(k, answer[k] \div 2)
  /\ Learn(k, answer[k], Rest(k))
  /\ answer' = [answer EXCEPT ![k] = 0]
  /\ gaveUp' = [gaveUp EXCEPT ![k] = FALSE]
  /\ UNCHANGED <<strays, up, capped, unheard, stable, shutdown>>

\* The call returns an error: Vault is away, or it refuses.  A request that
\* has not been performed may be later; an answer on its way is lost.
Fail(k) ==
  /\ pc[k] = "call"
  /\ ~up \/ (answer[k] = 0 /\ (~TokenLives \/ (k = "token" /\ capped)))
  /\ answer' = [answer EXCEPT ![k] = 0]
  /\ unheard' = (unheard \/ (k = "token" /\ answer[k] > 0))
  /\ strays' = IF k = "token" /\ answer[k] = 0 /\ strays < MaxStrays THEN strays + 1 ELSE strays
  /\ UNCHANGED <<left, up, capped, tight, stable, delivered, shutdown>>

\* NextBackOff: a MaxElapsedTime of 0 is no limit.
TimeIsOver(k) == span[k] > 0 /\ elapsed[k] > span[k]

\* An error while there is time: the backoff sleeps.
Sleep(k, d) ==
  /\ Fail(k)
  /\ ~TimeIsOver(k)
  /\ pc' = [pc EXCEPT ![k] = "try"]
  /\ due' = [due EXCEPT ![k] = d]
  /\ UNCHANGED <<span, elapsed, gaveUp>>

\* Faulty variant: after a failure the renewal is tried again at once.
GiveUpRetrySoon(k) ==
  /\ Fail(k)
  /\ TimeIsOver(k)
  /\ Schedule(k, 0)
  /\ gaveUp' = [gaveUp EXCEPT ![k] = TRUE]

\* Faulty variant: a failure ends the goroutine.
GiveUpForGood(k) ==
  /\ Fail(k)
  /\ TimeIsOver(k)
  /\ pc' = [pc EXCEPT ![k] = "stopped"]
  /\ gaveUp' = [gaveUp EXCEPT ![k] = TRUE]
  /\ UNCHANGED <<due, span, elapsed>>

\* An error when the time is over: failure, and the next renewal in a minute.
GiveUp(k) ==
  /\ Fail(k)
  /\ TimeIsOver(k)
  /\ Schedule(k, Minute)
  /\ gaveUp' = [gaveUp EXCEPT ![k] = TRUE]

\* case <-v.shutdown, which is looked at between renewals only.
Stop(k) ==
  /\ pc[k] = "wait"
  /\ shutdown
  /\ pc' = [pc EXCEPT ![k] = "stopped"]
  /\ UNCHANGED <<due, span, elapsed, vaultVars, historyVars, delivered, shutdown>>

(***************************************************************************)
(* The metrics server.                                                     *)
(***************************************************************************)

\* watchForNewCertificates takes the certificate from the channel.  The
\* channel's capacity of 8 is out of reach: no time passes before this.
TakeCertificate ==
  /\ ~delivered
  /\ delivered' = TRUE
  /\ UNCHANGED <<timerVars, vaultVars, historyVars, shutdown>>

-----------------------------------------------------------------------------
Renew(k) ==
  \/ Fire(k)
  \/ Call(k)
  \/ \E ttl \in TTLs : Perform(k, ttl)
  \/ Succeed(k)
  \/ \E d \in 1..MaxSleep : Sleep(k, d)
  \/ GiveUp(k)

Vault ==
  \/ Switch
  \/ Cap
  \/ \E ttl \in TTLs : PerformStray(ttl)

Next ==
  \/ Tick
  \/ Vault
  \/ Shutdown
  \/ Exit
  \/ \E k \in Kinds :
       \/ \E ttl \in TTLs : \E rest \in 0..ttl : Begin(k, ttl, rest)
       \/ Renew(k)
       \/ Stop(k)
  \/ TakeCertificate

\* Time passes, also when a lease is so short that there is always something
\* to do; goroutines run; Vault answers as long as it is up.
Fairness ==
  /\ SF_renewVars(Tick)
  /\ \A k \in Kinds : WF_renewVars(Renew(k))
  /\ WF_renewVars(TakeCertificate)

Spec == Init /\ [][Next]_renewVars
FairSpec == Spec /\ Fairness

-----------------------------------------------------------------------------
(***************************************************************************)
(* Properties.                                                             *)
(***************************************************************************)

\* A lease that runs out has been given up, or was too short for half of it
\* and one answer, or Vault has been up, at its end, for no longer than one
\* sleep and one answer, or there was nothing to renew or to renew it with:
\* the token was capped, or the token of a certificate had expired.  A lease
\* is lost in no other way, in particular not to the backoff of a renewal
\* that still tries while Vault has been up for some time.
LostByGivingUp ==
  [][\A k \in Kinds :
       Renewing(k) /\ left[k] > 0 /\ left'[k] = 0 =>
         \/ gaveUp[k]
         \/ tight[k]
         \/ stable' <= MaxSleep + Delay
         \/ IF k = "token" THEN capped' ELSE ~TokenLives]_renewVars

\* The minute after a failure is longer than what is left of any lease: when
\* the renewal of the token has given up, and Vault has performed none of its
\* requests, no later call can save the token.  Only a request sent before
\* can, when Vault performs it late.
FailureIsFinal ==
  [][gaveUp["token"] /\ ~unheard /\ left'["token"] > left["token"]
       => strays' < strays]_renewVars

\* A certificate that has expired is replaced and served, as long as Vault
\* is up, the token lives and the process goes on.
CertificateReturns ==
  pc["cert"] # "off" /\ left["cert"] = 0 ~>
    \/ left["cert"] > 0 /\ delivered
    \/ ~up
    \/ ~TokenLives
    \/ shutdown
    \/ \A k \in Kinds : ~Renewing(k)
=============================================================================
