------------------------------ MODULE PodWatch ------------------------------
(***************************************************************************)
(* The watch of a leader goroutine: WatchForPods and watch of              *)
(* cmd/controller/client/kube.go.                                          *)
(*                                                                         *)
(* The outer loop opens a watcher, with backoff.  The inner loop starts a  *)
(* reader goroutine that takes one event off the watcher, and waits for an *)
(* error or for stop.  A reader that gets its event returns without a word *)
(* to the loop.  After an error "break" leaves the select only, so the     *)
(* inner loop starts the next reader on the same watcher.                  *)
(***************************************************************************)
EXTENDS Naturals, Sequences

CONSTANTS
  MaxEvents,   \* bound on the events the API server sends
  ErrCapacity  \* the capacity of errCh: 1

ASSUME PodWatchAssumption == MaxEvents \in Nat /\ ErrCapacity \in Nat \ {0}

VARIABLES
  loop,     \* watch: "connect", "spawn", "select", "stopped"
  watcher,  \* "none", "open", "broken" (closed, timed out, connection lost)
  reader,   \* the reader goroutine: "none", "next" (in Next), "fail" (about to send on errCh)
  errs,     \* errors in errCh
  stop,     \* the leader has closed stop
  stream,   \* events the API server has sent: "ready" (a pod that waits), "other"
  sent,     \* how many it has sent (bounded)
  events    \* pods put into the events channel, whose capacity of 1024 is out of reach

watchVars == <<loop, watcher, reader, errs, stop, stream, sent, events>>

TypeOK ==
  /\ loop \in {"connect", "spawn", "select", "stopped"}
  /\ watcher \in {"none", "open", "broken"}
  /\ reader \in {"none", "next", "fail"}
  /\ errs \in 0..ErrCapacity
  /\ stop \in BOOLEAN
  /\ stream \in Seq({"ready", "other"})
  /\ sent \in 0..MaxEvents
  /\ events \in 0..MaxEvents

Init ==
  /\ loop = "connect"
  /\ watcher = "none"
  /\ reader = "none"
  /\ errs = 0
  /\ stop = FALSE
  /\ stream = <<>>
  /\ sent = 0
  /\ events = 0

-----------------------------------------------------------------------------
\* The API server sends an event of a pod (external).
Send(kind) ==
  /\ watcher = "open"
  /\ sent < MaxEvents
  /\ stream' = Append(stream, kind)
  /\ sent' = sent + 1
  /\ UNCHANGED <<loop, watcher, reader, errs, stop, events>>

\* The connection breaks, at the latest when the 20s of its context are over
\* (external).
Break ==
  /\ watcher = "open"
  /\ watcher' = "broken"
  /\ UNCHANGED <<loop, reader, errs, stop, stream, sent, events>>

\* The leader closes stop, whatever the watch is doing.
CloseStop ==
  /\ ~stop
  /\ stop' = TRUE
  /\ UNCHANGED <<loop, watcher, reader, errs, stream, sent, events>>

-----------------------------------------------------------------------------
\* backoff.Retry succeeds; a failure only means trying again.
Connect ==
  /\ loop = "connect"
  /\ loop' = "spawn"
  /\ watcher' = "open"
  /\ UNCHANGED <<reader, errs, stop, stream, sent, events>>

Spawn ==
  /\ loop = "spawn"
  /\ loop' = "select"
  /\ reader' = "next"
  /\ UNCHANGED <<watcher, errs, stop, stream, sent, events>>

\* Faulty variant: the error is looked at and left in errCh.
TakeErrorPeeks ==
  /\ loop = "select"
  /\ errs > 0
  /\ loop' = "spawn"
  /\ UNCHANGED <<watcher, reader, errs, stop, stream, sent, events>>

\* case err := <-errCh: break leaves the select.
TakeError ==
  /\ loop = "select"
  /\ errs > 0
  /\ errs' = errs - 1
  /\ loop' = "spawn"
  /\ UNCHANGED <<watcher, reader, stop, stream, sent, events>>

\* Faulty variant: stop is only seen when the reader has failed.
StopAfterError ==
  /\ loop = "select"
  /\ stop
  /\ errs > 0
  /\ watcher' = "broken"
  /\ loop' = "stopped"
  /\ UNCHANGED <<reader, errs, stop, stream, sent, events>>

\* case <-stop: the watcher is closed.
Stop ==
  /\ loop = "select"
  /\ stop
  /\ watcher' = "broken"
  /\ loop' = "stopped"
  /\ UNCHANGED <<reader, errs, stop, stream, sent, events>>

\* Next returns an event; only a pod that waits for its secret is passed on.
ReadEvent ==
  /\ reader = "next"
  /\ stream # <<>>
  /\ stream' = Tail(stream)
  /\ events' = IF Head(stream) = "ready" THEN events + 1 ELSE events
  /\ reader' = "none"
  /\ UNCHANGED <<loop, watcher, errs, stop, sent>>

\* Next returns an error.
ReadFails ==
  /\ reader = "next"
  /\ watcher = "broken"
  /\ reader' = "fail"
  /\ UNCHANGED <<loop, watcher, errs, stop, stream, sent, events>>

\* errCh <- err.
SendError ==
  /\ reader = "fail"
  /\ errs < ErrCapacity
  /\ errs' = errs + 1
  /\ reader' = "none"
  /\ UNCHANGED <<loop, watcher, stop, stream, sent, events>>

-----------------------------------------------------------------------------
LoopStep == Connect \/ Spawn \/ TakeError \/ Stop
ReaderStep == ReadEvent \/ ReadFails \/ SendError

Next ==
  \/ \E kind \in {"ready", "other"} : Send(kind)
  \/ Break
  \/ CloseStop
  \/ LoopStep
  \/ ReaderStep

\* Both goroutines are scheduled, the API server accepts a watch in the
\* end, its 20s are over in the end, and a select with two ready cases picks
\* each of them in the end.
Fairness ==
  /\ WF_watchVars(Break)
  /\ WF_watchVars(Connect \/ Spawn \/ TakeError)
  /\ SF_watchVars(Stop)
  /\ WF_watchVars(ReaderStep)

Spec == Init /\ [][Next]_watchVars
FairSpec == Spec /\ Fairness

-----------------------------------------------------------------------------
(***************************************************************************)
(* Properties.                                                             *)
(***************************************************************************)

\* A reader that has to report an error never finds errCh full, so that it
\* can end even when the loop has returned.
RoomForError == reader # "none" => errs < ErrCapacity

\* The watch of a leader reads one event in its life, however many there are
\* and whatever happens to the connection: the reader that gets one says
\* nothing, and the loop starts another only after an error.  This is why
\* polling carries the system.
OneEventPerWatch == sent - Len(stream) <= 1

\* A watch that is told to stop ends, and leaves no reader behind.
WatchEnds == stop ~> loop = "stopped" /\ reader = "none"

\* root.go: the controller "watches new pods".  An event that the API server
\* has sent is read, or finds a reader that waits for it, unless the watch is
\* told to stop: also when the connection has been lost meanwhile.
EventsAreRead == stream # <<>> ~> stream = <<>> \/ reader = "next" \/ stop
=============================================================================
