--------------------------- MODULE PodWatchProofs ---------------------------
(***************************************************************************)
(* Proofs about PodWatch, for any number of events.                        *)
(*                                                                         *)
(* errCh has room for one error.  That is enough because the loop starts   *)
(* a reader only after it has taken the error of the former one: OneReader *)
(* relates the two at every point of the loop.                             *)
(***************************************************************************)
EXTENDS PodWatch, TLAPS

OneReader ==
  /\ loop \in {"connect", "spawn"} => reader = "none" /\ errs = 0
  /\ reader # "none" => errs = 0

Typed ==
  /\ loop \in {"connect", "spawn", "select", "stopped"}
  /\ watcher \in {"none", "open", "broken"}
  /\ stop \in BOOLEAN
  /\ reader \in {"none", "next", "fail"}
  /\ errs \in {0, 1}

IInv == Typed /\ OneReader

-----------------------------------------------------------------------------
\* Every step keeps the invariant.
LEMMA StepIInv == IInv /\ [Next]_watchVars => IInv'
<1> SUFFICES ASSUME IInv, [Next]_watchVars PROVE IInv'
  OBVIOUS
<1> USE DEF IInv, Typed, OneReader
<1>1. CASE UNCHANGED watchVars
  BY <1>1 DEF watchVars
<1>2. ASSUME (\E kind \in {"ready", "other"} : Send(kind)) \/ Break \/ CloseStop
      PROVE  IInv'
  BY <1>2 DEF Send, Break, CloseStop
<1>3. CASE LoopStep
  <2>1. CASE Connect \/ Spawn \/ Stop
    BY <2>1 DEF Connect, Spawn, Stop
  <2>2. CASE TakeError
    <3>1. errs = 1 /\ errs' = 0 /\ reader = "none"
      BY <2>2 DEF TakeError
    <3> QED BY <2>2, <3>1 DEF TakeError
  <2> QED BY <1>3, <2>1, <2>2 DEF LoopStep
<1>4. CASE ReaderStep
  <2>1. CASE ReadEvent \/ ReadFails
    BY <2>1 DEF ReadEvent, ReadFails
  <2>2. CASE SendError
    <3>1. errs = 0 /\ errs' = 1 /\ reader' = "none" /\ loop' = loop
      BY <2>2 DEF SendError
    <3> QED BY <2>2, <3>1 DEF SendError
  <2> QED BY <1>4, <2>1, <2>2 DEF ReaderStep
<1> QED BY <1>1, <1>2, <1>3, <1>4 DEF Next

\* The relation of the loop and its reader holds in every behaviour.
THEOREM Invariance == Spec => []IInv
<1>1. Init => IInv
  BY DEF Init, IInv, Typed, OneReader
<1>2. IInv /\ [Next]_watchVars => IInv'
  BY StepIInv
<1> QED BY <1>1, <1>2, PTL DEF Spec

\* A reader never finds errCh full, so it can end whether or not the loop
\* still listens.
THEOREM RoomForErrorHolds == Spec => []RoomForError
<1>1. IInv => RoomForError
  BY PodWatchAssumption DEF IInv, OneReader, RoomForError
<1> QED BY <1>1, Invariance, PTL

-----------------------------------------------------------------------------
(***************************************************************************)
(* The watch reads one event.  A reader that gets its event ends without   *)
(* an error, and the loop has already looked at the select: once an event  *)
(* has been read, the loop waits in it for an error nobody will send.      *)
(***************************************************************************)

Silent ==
  /\ loop \in {"select", "stopped"}
  /\ reader = "none"
  /\ errs = 0

Streamed ==
  /\ stream \in Seq({"ready", "other"})
  /\ sent \in 0..MaxEvents
  /\ events \in Nat /\ events + Len(stream) <= sent
  /\ \/ sent = Len(stream)
     \/ sent = Len(stream) + 1 /\ Silent

\* What is left in the stream is counted by a number.
LEMMA StreamHasLength == Streamed => Len(stream) \in Nat
<1> SUFFICES ASSUME Streamed PROVE Len(stream) \in Nat
  OBVIOUS
<1>1. stream \in Seq({"ready", "other"})
  BY DEF Streamed
<1> QED BY <1>1

\* The reader that gets the event was the only one, with errCh empty, and
\* the loop was past the start of a reader.
LEMMA ReadIsTheFirst ==
  ASSUME IInv, Streamed, ReadEvent
  PROVE  Streamed'
<1>1. /\ reader = "next" /\ stream # <<>> /\ stream' = Tail(stream)
      /\ reader' = "none" /\ errs' = errs /\ loop' = loop /\ sent' = sent
  BY DEF ReadEvent
<1>2. stream' \in Seq({"ready", "other"}) /\ Len(stream) = Len(stream') + 1
  <2>1. stream \in Seq({"ready", "other"})
    BY PodWatchAssumption DEF Streamed
  <2> QED BY <1>1, <2>1
<1>3. sent = Len(stream)
  BY <1>1 DEF Streamed, Silent
<1>4. Silent'
  BY <1>1 DEF IInv, Typed, OneReader, Silent
<1>5. events' \in {events, events + 1} /\ Len(stream') \in Nat
  <2>1. events' \in {events, events + 1}
    BY DEF ReadEvent
  <2> QED BY <1>2, <2>1
<1>6. events' \in Nat /\ events' + Len(stream') <= sent'
  <2>1. events \in Nat /\ events + Len(stream) <= sent /\ sent \in Nat
    BY PodWatchAssumption DEF Streamed
  <2> QED BY <1>1, <1>2, <1>5, <2>1
<1> QED BY <1>1, <1>2, <1>3, <1>4, <1>6 DEF Streamed

\* Every step keeps the account of the events read.
LEMMA StepStreamed == IInv /\ Streamed /\ [Next]_watchVars => Streamed'
<1> SUFFICES ASSUME IInv, Streamed, [Next]_watchVars PROVE Streamed'
  OBVIOUS
<1>1. CASE UNCHANGED watchVars
  BY <1>1 DEF watchVars, Streamed, Silent
<1>2. ASSUME NEW kind \in {"ready", "other"}, Send(kind)
      PROVE  Streamed'
  <2>1. /\ stream' = Append(stream, kind) /\ sent' = sent + 1 /\ sent < MaxEvents
        /\ loop' = loop /\ reader' = reader /\ errs' = errs /\ events' = events
    BY <1>2 DEF Send
  <2>2. stream' \in Seq({"ready", "other"}) /\ Len(stream') = Len(stream) + 1
    <3>1. stream \in Seq({"ready", "other"})
      BY DEF Streamed
    <3> QED BY <2>1, <3>1
  <2>3. Silent => Silent'
    BY <2>1 DEF Silent
  <2>4. sent' \in 0..MaxEvents
    BY <2>1, PodWatchAssumption DEF Streamed
  <2>5. events' + Len(stream') <= sent'
    <3>1. events \in Nat /\ events + Len(stream) <= sent /\ sent \in Nat
      BY PodWatchAssumption DEF Streamed
    <3> QED BY <2>1, <2>2, <3>1, StreamHasLength
  <2> QED BY <2>1, <2>2, <2>3, <2>4, <2>5 DEF Streamed
<1>3. CASE Break \/ CloseStop \/ Connect \/ Spawn \/ TakeError \/ Stop \/ ReadFails \/ SendError
  <2>1. stream' = stream /\ sent' = sent /\ events' = events
    BY <1>3 DEF Break, CloseStop, Connect, Spawn, TakeError, Stop, ReadFails, SendError
  <2>2. Silent => Silent'
    BY <1>3 DEF Break, CloseStop, Connect, Spawn, TakeError, Stop, ReadFails, SendError, Silent
  <2> QED BY <2>1, <2>2 DEF Streamed
<1>4. CASE ReadEvent
  BY <1>4, ReadIsTheFirst
<1> QED BY <1>1, <1>2, <1>3, <1>4 DEF Next, LoopStep, ReaderStep

\* The account of the events holds in every behaviour.
LEMMA StreamedInvariance == Spec => []Streamed
<1>1. Init => Streamed
  BY PodWatchAssumption DEF Init, Streamed
<1>2. IInv /\ Streamed /\ [Next]_watchVars => Streamed'
  BY StepStreamed
<1> QED BY <1>1, <1>2, Invariance, PTL DEF Spec

\* A watch reads one event in its life, however many the API server sends
\* and however often the connection breaks: the rest of them is left to the
\* polling of the leader.
THEOREM OneEventPerWatchHolds == Spec => []OneEventPerWatch
<1>1. Streamed => OneEventPerWatch
  <2> SUFFICES ASSUME Streamed PROVE sent - Len(stream) <= 1
    BY DEF OneEventPerWatch
  <2>1. stream \in Seq({"ready", "other"}) /\ sent \in Nat
    BY PodWatchAssumption DEF Streamed
  <2>2. Len(stream) \in Nat
    BY <2>1
  <2> QED BY <2>1, <2>2 DEF Streamed
<1> QED BY <1>1, StreamedInvariance, PTL

\* Type correctness of the watch.
THEOREM TypeCorrect == Spec => []TypeOK
<1>1. IInv /\ Streamed => TypeOK
  <2> SUFFICES ASSUME IInv, Streamed PROVE TypeOK
    OBVIOUS
  <2>1. errs \in 0..ErrCapacity
    BY PodWatchAssumption DEF IInv, Typed
  <2>2. events \in 0..MaxEvents
    BY StreamHasLength, PodWatchAssumption DEF Streamed
  <2> QED BY <2>1, <2>2 DEF TypeOK, IInv, Typed, Streamed
<1> QED BY <1>1, Invariance, StreamedInvariance, PTL
=============================================================================
