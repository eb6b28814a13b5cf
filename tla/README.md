# Kubernetes-Vault in TLA+

Kubernetes-Vault gives a pod its Vault credentials. A *controller* (several
processes, one of which leads through raft) watches for pods whose *init
container* is waiting, asks Vault for a wrapped `secret_id` for the pod's role and
POSTs it to the pod. The init container unwraps it, logs in, and leaves the
credentials on a volume for the application. This directory has the TLA+
modules of that system, the TLC configurations that check them on small
instances, and the TLAPS proofs of the main safety properties.

Paths of the form `store.go:246` are below `src/cmd/controller/` (`cluster/store.go`,
`cluster/gossip.go`, `client/kube.go`, `client/vault.go`, `metrics/server.go`, `root.go`);
`main.go` is `src/cmd/init/main.go`, `wrapped-secret.go` is `src/common/wrapped-secret.go`.

## Inventory

| Part | State | Operations | Hard behaviour |
|---|---|---|---|
| Push table (`store.go:187-312`) | `Store.pods`: names being served; one goroutine per push | list pods, take a watch event, start pushes under the mutex, push with retries, delete the key | several goroutines share the map; the list is read before the mutex is taken; early returns; a token that is POSTed for longer than it lives |
| Leadership (`store.go:134-235`, `root.go:309-322`) | the loop's place, `shutdownLeader`, `shutdown`, leader goroutines | react to raft, to membership events, to shutdown | raft's reports are not buffered; the channel field is replaced while goroutines wait on it, closed, and never set to nil |
| Pod watch (`kube.go:68-145`) | one watcher, one reader goroutine, `errCh`, `stop`, `events` | connect with backoff, read, reconnect, stop | hand-over between the loop and the reader; blocking sends; stop while connecting |
| Init container (`main.go`, `wrapped-secret.go`) | what main received; handlers blocked on a channel; two files on a volume | serve, receive or time out, validate, unwrap, log in, write, exit | many POSTs, one receive; killed at any point; the volume survives |
| Vault, Kubernetes, network (external) | wrapping tokens, pods, addresses | issue, unwrap once, expire; create, delete, restart, report late; deliver or lose | an address is used again; a token outlives its pod |
| Raft membership (`store.go:84-137, 314-381`, `gossip.go`) | raft's peers, the gossip members, a channel of events | set the peers at the start, add and remove peers on membership events | peers are read once and overwritten; leadership is verified once per event; other processes change the peers too |
| Vault client (`vault.go`) | token, certificate, renewal goroutines | parse the token, validate roles, renew with backoff | calls without a timeout, whose answer may be lost; a backoff that sleeps past the end of the lease; a renewal that fails is tried again after the lease is over |
| Metrics server (`metrics/server.go`) | the certificate it serves | serve, replace the certificate | written and read without the mutex |
| Configuration and start-up (`root.go`, `vault.go:157-317`) | the configuration, the token, how far `Run` has come | validate, check token and role, start the parts in order, stop on a signal | which combinations are refused; what a failure leaves running; a token that is checked once |
| Pod filter (`kube.go:40-66, 147-210`) | none | scan annotations and container statuses | which pods count as waiting |
| Expansion of the configuration, entry point, sample application, external address, counters, version | none or trivial | | |

How they interact: `startLeader` goroutines call the pod watch and the API server and
start pushes; a push calls Vault and POSTs over HTTPS to the address that was
listed; the HTTPS handler of the init container blocks on an unbuffered channel
that `main` reads once, and answers when `main` has read; `start` receives
from raft and from gossip and starts or stops leader goroutines through a channel
field of the Store; the signal handler closes `Store.shutdown`.

What makes each part correct:

- Push table: a Store serves one name at most once at a time, and a name is in the
  map exactly as long as it is served.
- Leadership: a process that leads has a leader goroutine, one that does not
  has told its goroutines to stop, and they do stop.
- Pod watch: events that arrive are passed on, and a watch that is told to stop
  leaves nothing behind.
- Init container: exit 0 means complete files, all of one push, whatever earlier
  runs left; a run ends.
- Together: no secret reaches two pods, a pod gets a token of its own role only,
  and each pod gets its credentials in the end.
- Renewal: a lease ends only when its renewal has given up, or so soon after an outage of Vault that a sleep of the
  backoff lasted longer, or when Vault would not extend the token any more; a certificate comes back.
- Membership: the peers of a leader follow the members, and no event keeps the loop.
- Start-up: as long as Vault is up no lease is lost before the shutdown, the metrics are
  served as the configuration asks, and a certificate that is renewed is the one served.

## Modules

```
PushTable ────┐
InitContainer ┼─ INSTANCE ── SecretDelivery     the way of a secret
OneTimeSecret ┘              (OneTimeSecret is what it implements)
LeaderLoop ──── EXTENDS ──── Membership         a process in its cluster
Renewal ─────── EXTENDS ──── Startup            the life of a process
PodWatch                                        one watch

XProofs: the theorems about X, for PushTable, InitContainer, OneTimeSecret,
         SecretDelivery, LeaderLoop, Membership, Startup (with Renewal), PodWatch
MCX:     the instance of X for TLC, where the .cfg cannot say it
```

**PushTable** is `Store.pods` and everything that touches it. `ListPods` is `GetPods`
returning, `TrackListed` the critical section that follows: they are two actions, because the
list is stale by the time the mutex is held. `Track` is the loop under the
mutex; the order of the list decides which of two pods of one name is served, so it is a choice.
`WatchEvent` is the same section for one pod. The other actions are the steps of
`pushSecretIdToPod`: Vault's answer, each POST, each retry, giving up,
and the deferred delete, through which every path goes. `MaxPosts` stands for
the number of POSTs that fit into `maxHTTPPostTime` (3 minutes).
Names and pods differ (`NameOf`): the map is keyed by the name alone. A Store can have
several leader goroutines, and there can be several Stores.

**InitContainer** is `main` and the handler, one `pc` value per statement that can block, fail
or write. `Deliver` is a handler that blocks on the channel, `Receive` the one
receive of `main`. `ioutil.WriteFile` is two steps for either file (`Create` and `CreateBundle` truncate, `Write` and `WriteBundle`
write). `ca.crt` is written for a request that brings root CAs only (`BringsCAs`): after one that does not, the volume keeps what an earlier run
has left of it, a truncated file included. `Exit` is `Fatalf` or a kill; `cred` and `ca` are the volume and survive it. The
three modes (`RETRIEVE_TOKEN`, `UNWRAP_SECRET`) are constants.

**LeaderLoop** is `start`, `startLeader` and `Shutdown`. `Report` is raft's send that does
not wait: it is lost unless the loop is in its `select`. `shutdownLeader` is the variable
`channel` (0 is nil, `k` the k-th channel made), `closed` the channels closed; a leader goroutine reads
the field when it enters its `select` (`EnterSelect`), whichever term that is. `CloseChannel`
panics on a second close, as Go does.

**Membership** is what the loop does with a membership event: the one step `GossipHandled` of LeaderLoop, taken apart.
`TakeEvent` reads the peers, `Verify` is the answer of `VerifyLeader`, and then the handler has raft commit the change (`ChangeAsLeader`),
overwrites the process's own peers with what it had read (`ChangeAsFollower`), or finds that leadership has changed meanwhile, which is an
error in the log and no more (`ChangeFails`). Every step maps to a step of LeaderLoop or to none, so what LeaderLoop promises holds here.
The rest of the cluster is there as far as it changes this process's peers: while another process leads, it handles the same
gossip events at its own pace (`Replicate`), and raft applies here what it has committed (`ApplyEntry`), in order, any time later. A process
is assumed to have applied what earlier leaders committed by the time it is elected. `fate` records what has become of
the last event of each other process in the current term. An event has one member; serf may put several into one, which the handler treats
one after the other with the same answer of `VerifyLeader` (a follower would then overwrite its first change with its second, as it does here with
two events that arrive while it reads). The join of the process itself changes nothing and is left out.

**PodWatch** is `WatchForPods`/`watch`: `loop` is the outer goroutine, `reader` the one it
starts for each event. `TakeError` goes back to `Spawn` and not to `Connect`, because the
`break` of the code leaves the `select` only.

**SecretDelivery** joins the push tables and the init containers with what is between
them: Vault's tokens, the pods' lives, the API server's late view (`api`), addresses,
the network. It takes over the actions of `PushTable` and `InitContainer` unchanged and adds
when each can happen: a POST reaches whichever pod has the address (`Targets`), the response exists only
once `main` has taken the secret (`PostOk`), Vault unwraps once and refuses a login with
another role's `secret_id`. `Fault` marks what need not happen (loss, kills, time-outs,
expiry, failed calls); it costs one of `MaxFaults` unless `Unlimited`. Leadership enters as the set of
leader goroutines that are active: `LeaderLoop` shows that two processes, and
two goroutines of one process, can lead at a time. `Watchers` are the leaders whose watch still
delivers. It is a constant because, as `PodWatch` shows (`OneEventPerWatch`), a watch delivers at most its first
event and then is silent; a model where it always worked would hide that polling carries the system.
A request brings root CAs when its controller is configured with them (`StoresWithCAs`).
The timer of `main` (`Timeout`) costs a fault as well, because without one it does not fire before a secret is there: a leader polls every 20 s, and
the timer is set to 5 minutes. That reasoning fails where the Store is serving another pod of the name (`Crowded`), so there the timer fires
whenever it likes. A container that is not running, because it has not been started or is in the kubelet's back-off, is "down" for any length of time; the
list of pods does not have it then (`kube.go:160`).
`Forget` gives the name of a token to a new one when nothing refers to it, so that behaviours
with any number of tokens fit into two names; it loses nothing but names.

**Renewal** is `renew` of the Vault client, once for the token and once for the certificate of the metrics
server, and the server's hand-over of a new certificate. Both go through the same Vault and the same token: with an expired
token Vault renews nothing and issues nothing (`TokenLives`). `Begin` starts a goroutine with a lease, `Fire` is the timer, `Call` sends a
request, and `Succeed`, `Sleep` and `GiveUp` are what `backoff.Retry` makes of its outcome; the backoff compares the elapsed time before it sleeps, not
after (`TimeIsOver`), and takes a limit of 0 as none.

A call is not one step, because nothing bounds its length: the client has no timeout (`vault.go:173`). Vault performs the request in a step of its own
(`Perform`), and the answer is then on its way (`answer`). While Vault is `up` the answer arrives within `Delay`. While it is not, a call hangs for any time,
or fails (`Fail`): before Vault has performed it, in which case Vault may still do so later (`PerformStray`), or after, in which case Vault
has extended the token and the goroutine does not know (`unheard`). `Switch` takes Vault away and brings it back at any time. `Cap` is Vault extending
the token no more, for whatever reason: a maximum of its role, an `explicit_max_ttl` of the token's own, which `parseToken` does not look at, a role that has
changed since the check, or a revocation, which also ends it at once.

Time passes in units, and only when no goroutine has something to do: `Tick` is the one action that counts down. What is not there: time between
the first certificate and the start of the metrics server.

**Startup** is a process from its configuration to its end. A configuration is the set of the settings that are not empty, a token the
set of its flaws; `Valid` and `Accepts` are `Validate` and `parseToken` with `validateRole`. `stage` is how far `Run` has come, one action per
call that can fail; `Fatal` can end every such stage, with whatever the process has started by then, and `Panic` is the two
places where a result is used before its error (`vault.go:297`, where the error is not there at all, and `store.go:125`). A stage that never returns is allowed: no fairness asks `Run`
to go on. What the checks have found does not bind Vault: `Cap` can happen to every token (`VaultStep`).

**OneTimeSecret** is the promise: Vault issues, one pod claims, only the claimant is
provisioned, and with a token only for its own role. `SecretDelivery` implements it with
`holder` computed from the credentials files (a truncated file is nobody's).

## Runs

| Run | Checks | Shows |
|---|---|---|
| `push_table` | `TypeOK`, `OnePushPerName`, `MapIsInFlight`, `PushShortens`, `NameFreed` | two leader goroutines of one Store with stale lists, three pods of two names |
| `init_container` | `TypeOK`, `Provisioned`, `FirstSecretWins`, `RunEnds` | two secrets, one with root CAs and one without, one POSTed twice; failure, kill and restart at every step |
| `membership` | `ChannelTracksLeadership`, `NoOrphan`, `FollowersDoNotLead`, `PanicNeedsLossOrShutdown`, `ClosedStopsLeaders`, `LeaderFollowsGossip`, `LeaderKeepsUp` | two other processes, up to two join events in the channel at the start and one event later, two terms, reports lost or not, shutdown at any time |
| `elected_takes_over` | `ElectedTakesOver` is violated | finding 1 |
| `pod_watch` | `RoomForError`, `OneEventPerWatch`, `WatchEnds` | stop at any time, connection lost at any time |
| `events_are_read` | `EventsAreRead` is violated | finding 2: an event that has arrived is neither read, nor is there a reader at work, although nobody has told the watch to stop |
| `address_reuse` | `TypeOK`, `ReadyPodOwnsItsSecret`, `ImplementsOneTimeSecret` | a pod is recreated with its name and address while a push to the old one retries; faults at any time; the composed system implements `OneTimeSecret`, and a container that exited 0 has left complete files of a secret of its own |
| `failover` | `EventuallyProvisioned` | two processes that both lead, one with root CAs and one without, push to one pod; one fault anywhere |
| `retries` | `EventuallyProvisioned` | a watch and a poll; each token POSTed twice, although it may be used or expired by then; three faults |
| `renewal` | `LostByGivingUp`, `FailureIsFinal`, `CertificateReturns` | token and certificate side by side; leases of 7.5 minutes, sleeps and answers of 90 s; Vault hangs, fails, performs what it has not answered, and comes back at any time |
| `startup` | `ServedAsConfigured`, `RenewedIsServed`, `ReachableVaultKeepsLeases` | every choice of the certificate's settings, five tokens, every failure of a stage; Vault comes and goes at any time, or is up throughout |
| `wrapped_sharing` | `NoSharing` is violated | finding 3 |

`OwnAddresses.cfg` is one more configuration of `MCSecretDelivery`, to be run by hand (2.9 million states): two pods of one name with an
address each, in the mode without unwrapping, with faults at any time. It checks `SecretStaysAtAddress`, which is proved for all constants, in the mode
in which `wrapped_sharing` finds `NoSharing` violated.

Why the bounds are enough for what the runs ask:

- *Pods.* Every property relates at most two pods: one name, one address, one secret. `push_table` has a third
  pod so that names and pods differ in both ways.
- *Leaders, Stores, Pushers.* Two of what can interfere. There are as many push slots per Store as names,
  so a push never waits for a slot; the code starts goroutines without a limit.
- *MaxPosts.* Two POSTs give a first one and a re-POST of the same token, which is what
  matters; `failover` needs one because each process has a POST of its own.
- *MaxTerms = 2* in `membership`: a goroutine of term 1 that is busy until term 2, an event that is taken in one term and
  handled in another. Its safety properties are proved for any number of terms, members and events.
- *Others, JoinOrders, MaxEvents = 1.* Two processes whose events must not be mixed up; with the joins from before the start, up to three events
  in the channel, two of which may be of the same process in opposite directions.
- *MaxEvents = 4* and *ErrCapacity = 1*, the capacity in the code: more events than readers the loop starts
  between two errors.
- *MaxFaults.* `EventuallyProvisioned` needs the faults to end. Three cover a lost answer, a kill and an expiry
  in one history; safety is checked with `Unlimited` faults.
- *Secrets.* Two names that are reused (`Forget`).
- *StoresWithCAs.* One Store of two in `failover`: a container gets requests of both kinds.
- *Configs, Tokens.* All 32 choices of the five settings of a certificate and a CA file, and one configuration for each other rule of `Validate`; a token
  without flaws, one for each way of being refused and one that passes unseen. The safety is proved for all configurations and tokens.
- *Leases.* `renewal` has units of 90 s: the lease is 5 of them, the backoff's longest sleep, which only long leases meet, is 1, and so is the longest answer of a Vault that is up. A renewal
  that begins at half of the lease then has time for a call that fails or hangs, a sleep, and a call that comes too late; the reserve of 10 s and the minute are rounded up
  to 1 and 2 units, so that a minute is longer than the reserve. `startup` has units of 5 s: a lease of 25 s, whose half leaves 2 units and so no limit to the backoff, a
  reserve of 2 and a minute of 12. What depends on the numbers is proved for all of them.
- *MaxStrays.* One request that Vault performs after its call has failed, in `renewal`; none in `startup`, where nothing fails in the behaviours its property is about.

`AddressReuse.cfg` uses two symmetries: the secrets are interchangeable, and so are the two pods
together with their roles (they share name and address). What it checks is safety only
(`OneTimeSecret!Spec` has no fairness). No liveness run uses symmetry. Deadlock checking is off where
the system may stop: a container that exited 0, a process that ended, a watch that was stopped.

### Fairness

- A push goroutine goes on (`PushTable`): POSTs have a timeout of 30 s and the mutex is held for a short loop. Vault is
  assumed to answer or to refuse. The clients of the Vault API set no timeout of their own; without the
  assumption a push could keep its name for ever.
- `main` of the init container is a straight line after the receive, and the timer fires. The same assumption on Vault.
- The loop and the leader goroutines are scheduled by Go. A `select` with several ready
  cases chooses at random, so a case that is ready again and again is taken: strong fairness for
  `Quit`, `StopLoop` and the watch's `Stop`, weak fairness elsewhere.
- The kubelet restarts a failed init container, the API server catches up, and a leader polls every
  20 s. No fairness makes a fault happen or not happen.
- Raft answers the membership handler (`HandlerStep`), and an event in the channel is taken in the end (strong fairness of `TakeEvent`, for
  the same reason as above).
- The watch's connection ends after 20 s (`Break`, `kube.go:95`). `EventsAreRead` does not count on it: an event is also settled by a reader's being at work.
- Time passes, renew goroutines run and the metrics server reads its channel (`Renewal`). The fairness of time is strong, because a certificate with nothing left of it
  on arrival keeps the timer firing; a Vault that is up performs what it is asked and answers. It may be away for ever. `Startup` has no fairness: `Run` may be stuck in a call.
- Raft is not assumed to elect anyone, clients are not assumed to create pods, and the API server is not
  assumed to send events.

## Findings

1. *A leader that never leads* (`elected_takes_over`, `store.go:169`). Raft reports leadership without waiting. A report
   that arrives while `start` handles a membership event, or before `start` runs, is lost, and the loop never
   asks for the state. The README (`:22`) promises that a follower takes over immediately.
2. *The watch reads one event* (`events_are_read`, `kube.go:135`). The reader returns after an event without a
   word, and the loop starts another only after an error. Pods after the first event are found by the poll.
   `OneEventPerWatch` is the same as a theorem: a watch reads one event in its life, however many there are and whatever the connection does.
3. *A wrapped token for the next pod* (`wrapped_sharing`, `store.go:301`). With `UNWRAP_SECRET=false` a re-POST after the pod
   took the token and was deleted hands the same token to the next pod at the address.
   An address that is used again is what it takes: in every mode a token comes only to pods with the address of the pod it was issued for
   (`SecretStaysAtAddress`), so pods that never share an address share no secret and have one of their own role (`OwnAddressesSuffice`).

Not findings, because no document says otherwise, but met on the way:

- `secret_pushes_total` is incremented for pushes that failed as well (`store.go:302`).
- Two pods of one name in different namespaces share one key of `Store.pods` (`store.go:246`). While one is served the other is passed over, and the API server
  lists pods in the order of their keys, namespace before name: one that is not served, because Vault refuses its role, is first on every poll. It loses its place when its container
  times out, 5 minutes later by default, and the kubelet's growing back-off keeps it from running; then a poll finds its namesake. So the namesake is late, but not lost.
- A token whose renewal gives up is lost unless Vault has performed, or will perform, one of the requests without an answer: the next try is a minute later, and less
  than the reserve of 10 s is left of the lease that the goroutine knows of (`FailureIsFinal`, `vault.go:357`). From then on the controller can neither push nor renew, and does not exit.
- In long renewals the backoff sleeps for up to 90 s, more than the reserve, and a call has no timeout. With the 6 h and 24 h leases of the quick start a lease can
  therefore end while its renewal still tries, with Vault back for up to a sleep and an answer: that is what `stable` measures in `LostByGivingUp`. Where Vault has been up for
  longer than that, a lease is lost only if the renewal has given up, as above, or if it was `tight`: an answer that took so long to arrive, or one of which the goroutine never heard,
  left less than half a lease and an answer.
- A lease of 20 or 21 s leaves no time for the backoff, and 0 means no limit to it: such a renewal never gives up.
- A follower's peers can stay wrong: `SetPeers` with a list that was read before a committed change was applied undoes that change here, and an
  event whose handler meets a change of leadership is dropped (`fate` = "lost"). `LeaderFollowsGossip` says what still holds: a leader that has settled the last event
  of a process has it right, whatever it had believed before.
- A role that no longer exists makes the start panic instead of fail (`vault.go:297`); an empty `wrappingTTL` makes the first push panic (`vault.go:149`).
- A token with a maximum TTL dies at that TTL however often it is renewed. `skipTokenRoleNameValidation` lets it pass, and so do an `explicit_max_ttl` of the token itself and a role
  that gets one later, neither of which the checks look at (`vault.go:199-317`).
- A push without root CAs leaves the `ca.crt` of an earlier run on the volume, also one that was killed half-way through writing it (`main.go:230`).
- Processes that start together may each find nobody listed after their sleep of 3 to 10 s and start clusters of their own
  (`root.go:216`); only a process that later starts and finds both joins them.

## Proofs

All are for every value of the constants that satisfies the named assumptions: any
number of pods, names, Stores, goroutines, secrets, terms and events.

- **PushTableProofs**: `OnePushPerName` and `MapIsInFlight`. Neither is inductive alone. The loop under the mutex looks
  at keys and never at goroutines, so uniqueness needs every goroutine to have its key; and the key a goroutine
  deletes must be its own, which is uniqueness. The invariant is their conjunction with the types and with
  `Serving` (a running push has a pod, and a token while it POSTs). One lemma treats the critical section,
  one all steps of a push that goes on, one the deferred delete. `PushShortens` counts what is left of a push: each step, with whatever answer, brings
  it nearer its end, so it takes at most `2 * MaxPosts + 2`. That is the half of `NameFreed` that is about the code; the other half is that its steps are
  taken. Assumed: each pod has a name, each goroutine a Store.
- **InitContainerProofs**: `Provisioned` and `FirstSecretWins`. The invariant says at each place of `main` what has been
  received and which file is already that of the current run; of the files of earlier runs it says no more than that one without content has no secret. Assumed: a request carries
  a secret; `RETRIEVE_TOKEN` without `UNWRAP_SECRET` is refused, as `main.go` does.
- **LeaderLoopProofs**: `ChannelTracksLeadership`, `NoOrphan`, `FollowersDoNotLead`, `PanicNeedsLossOrShutdown`. `Agreement` says how channel and
  leadership relate at each place of the loop, not only where it waits; `Made` says which channels
  exist and that those let go of are closed unless a report was lost. Together they give `FollowersDoNotLead`: the channel a goroutine waits on is an
  old one, closed when it was let go of, or the current one, which is closed where the loop does not lead or is stopping.
- **PodWatchProofs**: `RoomForError` and `OneEventPerWatch`. The first invariant is that a reader and an error in the channel exclude each other, because the loop
  starts a reader only after it has taken the error. The second (`Streamed`) accounts for the events: before the first is read there may be a reader or an error
  that leads to one; once it is read there is neither any more, nor can there be one again (`Silent`).
- **MembershipProofs**: Membership implements LeaderLoop (`ImplementsLeaderLoop`), so the theorems about the loop hold with the handler, and
  `LeaderFollowsGossip`. What a leader knows of gossip is in the event it works on and in the channel, so the invariant has `Truthful`: the last word of these
  about a process is the truth. Beside it stand `OneAtATime` (the loop takes no event while it works on one) and `NothingToApply` (no older peer set can reach a
  leader). The last is the one assumption on raft: a process has applied the entries of earlier leaders by the time it is elected. `MemberChannelTracksLeadership`,
  `MemberNoOrphan`, `MemberFollowersDoNotLead` and `MemberPanicNeedsLossOrShutdown` are the theorems that carry over.
- **StartupProofs**: `LostByGivingUp` and `FailureIsFinal` for Renewal, for leases, sleeps and answers of any length. What is left of the token is bounded from above (`Late`: the reserve
  is all that is left when the time for trying is over), which makes the minute after a failure too long; the bound is about what the goroutine knows, so it holds as long as Vault has performed nothing
  unheard. What is left of either lease is bounded from below (`Early`): there is time for the answer of the next call, or Vault has been up for so short a time that a sleep that began before can still
  last (`InTime`). A sleep begins only with a failure, and a failure without an excuse only while Vault is not up, where the second half holds. Assumed: a minute is longer than the reserve, and a lease is longer than
  an answer. Startup implements Renewal (`ImplementsRenewal`), so both hold for a process (`ProcessKeepsLeases`);
  `ServedAsConfigured` and `RenewedIsServed` follow from what each stage has checked (`Checked`).
  `ReachableVaultKeepsLeases` is about behaviours in which Vault is up throughout and extends the token, so its invariant (`WhileUp`) is shown under that hypothesis: a call
  fails only without a token, and the token ends only when its renewal has failed or comes late. It does not come late: an answer tells of a lease that has run for no longer than the answer took
  (`Fresh`), so after half of it there is time for another answer, which is where half a lease has to be longer than two answers. The circle is closed
  because the certificate is renewed only while the token is: the stages of `Run` start the token first, and a shutdown ends both.
- **SecretDeliveryProofs**: a step of the composition is a step of PushTable or none, and a step of InitContainer, the end of a container, or none; so the
  invariants of both, proved in their modules, hold of the composition (its types are the theorem `TypeCorrect`). What the composition adds is
  `Claimed`: a run that has got past Vault works on a token that Vault unwrapped for its own pod, and after the login one of its own role. That is what
  `OneTimeSecret!Provision` asks for, so each step implements one of OneTimeSecret or changes nothing of it, and `NoSharing` and `OwnRole` carry over.
  Assumed: the containers unwrap (finding 3 is what happens otherwise), Vault unwraps a token once. `ReadyPodOwnsItsSecret` joins what the container
  guarantees (`Provisioned`) with what Vault does (a pod holds only what it has claimed): the files an application starts with are complete, of one secret, and its own.
  For every mode there is `Addressed`: a token is known at a pod (`Known`) when a request, `main` or a file there has it, or when a push for that pod holds it, and
  all pods at which it is known have one address, that of a pod of its role. The pushes have to be part of it, because a POST carries the token from
  the pod of the push to whichever pod has the address. `SecretStaysAtAddress` and `OwnAddressesSuffice` follow, the latter for pods with an address each.
  The controllers of the composition implement PushTable literally (`ImplementsPushTable`), so `DeliveryServesNamesOnce` is its theorems, cited. The
  containers do not implement InitContainer literally, because a pod can be deleted after its container has exited 0; its invariant survives that, and gives
  `DeliveryProvisioned`.
- **OneTimeSecretProofs**: `NoSharing` and `OwnRole`, without assumptions, from the invariant that what a pod holds is claimed by that pod.

Model-checked only: the liveness properties (`NameFreed`, `RunEnds`, `ClosedStopsLeaders`, `LeaderKeepsUp`, `WatchEnds`,
`EventuallyProvisioned`, `CertificateReturns`), which are out of the prover's reach.

## Not modelled

- The pod filter (`kube.go:147-178`) is its outcome: whether the pod's init container runs. The scan is a conjunction over annotations and statuses with
  nothing to go wrong between its parts; the filter of namespaces is a regular expression.
- `VerifyLeader`, `AddPeer`, `RemovePeer` and `SetPeers` always answer; a membership event has one member.
- TLS, JSON, the text of messages and logs, the counters: no property is about them. Of
  a setting, `Validate` is modelled as far as it is empty or not.
- `errors` the code cannot meet in a working process, such as failing to encode a struct of strings, are the same step as
  a refusal of Vault.
- The configuration's expansion by reflection, the entry point script, the sample application, the lookup of an address,
  version output, deployments and build scripts: no state of their own, or I/O only.

## Plan

Done, in that order: PushTable, InitContainer, LeaderLoop, PodWatch, OneTimeSecret, SecretDelivery, Renewal, Membership, Startup, and the
proofs of all of them.

What could follow, by weight:

1. An abstract specification of the map of names, a lock that is taken once and given back, with PushTable shown to implement it.
2. The leader in the composition: SecretDelivery takes the leaders as a constant; Membership would supply them, one instance per process, so that
   `EventuallyProvisioned` covers a real change of leaders.
3. Time in the composition: the TTL of the wrapping token against `maxHTTPPostTime`, with the units of Renewal.
4. The pod filter against the versions of Kubernetes whose statuses it reads.
