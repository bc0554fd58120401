-------------------------- MODULE AsyncAudioProofs --------------------------
(***************************************************************************)
(* Proofs about AsyncAudio, for every length of the queue and every number *)
(* of frames.  None of its properties is inductive by itself: that the     *)
(* callback is heard in order needs to know that whatever waits in the     *)
(* queue, and whatever the audio thread took and has not delivered, is     *)
(* newer than all that was heard; that the frontend's last word holds      *)
(* needs to be known while the core is still waiting for its answer.       *)
(***************************************************************************)
EXTENDS AsyncAudio, TLAPS

\* What is registered while the emulation thread is inside a retro_ call.
Asking ==
  /\ core # "idle" => ~async_registered
  /\ core \in {"ask", "accepted"} => registered /\ enabled = wanted

\* The frames waiting or taken are later than those heard, and the one taken
\* is older than those waiting.
Newer ==
  /\ heard + Len(samples) <= frame
  /\ output + Len(samples) <= frame
  /\ output # Silence => heard < output
  /\ audio # "deliver" => output = Silence

IInv == TypeOK /\ OffMeansEmpty /\ QueueIsLatest /\ FrontendDecides /\ Asking /\ Newer

-----------------------------------------------------------------------------
(* The queue.                                                              *)

\* What Append leaves where.
LEMMA AppendAt ==
  ASSUME NEW S, NEW q \in Seq(S), NEW x \in S
  PROVE  /\ Append(q, x) \in Seq(S) /\ Len(Append(q, x)) = Len(q) + 1
         /\ DOMAIN Append(q, x) = 1..(Len(q) + 1)
         /\ \A i \in 1..Len(q) : Append(q, x)[i] = q[i]
         /\ Append(q, x)[Len(q) + 1] = x
OBVIOUS

\* Enqueueing keeps the queue bounded and ending with the newest frame: of
\* AudioOutputState::enqueue.
LEMMA EnqueuedIsLatest ==
  ASSUME TypeOK, QueueIsLatest, frame < MaxFrames
  PROVE  /\ Enqueued \in Seq(1..MaxFrames)
         /\ Len(Enqueued) <= MaxQueued /\ Len(Enqueued) <= Len(samples) + 1
         /\ \A i \in DOMAIN Enqueued : Enqueued[i] = frame + 1 - (Len(Enqueued) - i)
<1>1. samples \in Seq(1..MaxFrames) /\ Len(samples) <= MaxQueued /\ frame \in 0..MaxFrames
      /\ Len(samples) \in Nat /\ MaxQueued \in Nat \ {0} /\ MaxFrames \in Nat
  BY AsyncAudioAssumption DEF TypeOK
<1>2. frame + 1 \in 1..MaxFrames
  BY <1>1
<1>3. \A i \in 1..Len(samples) : samples[i] = frame - (Len(samples) - i)
  BY <1>1 DEF QueueIsLatest
<1>4. CASE Len(samples) < MaxQueued
  <2>1. Enqueued = Append(samples, frame + 1)
    BY <1>4 DEF Enqueued
  <2>2. Append(samples, frame + 1) \in Seq(1..MaxFrames)
        /\ Len(Append(samples, frame + 1)) = Len(samples) + 1
        /\ DOMAIN Append(samples, frame + 1) = 1..(Len(samples) + 1)
    BY <1>1, <1>2
  <2>3. ASSUME NEW i \in 1..(Len(samples) + 1)
        PROVE  Append(samples, frame + 1)[i] = frame + 1 - (Len(samples) + 1 - i)
    <3>1. CASE i = Len(samples) + 1
      BY <1>1, <3>1
    <3>2. CASE i \in 1..Len(samples)
      <4>1. Append(samples, frame + 1)[i] = samples[i]
        BY <1>1, <1>2, <3>2
      <4> QED
        BY <1>1, <1>3, <3>2, <4>1
    <3> QED
      BY <1>1, <3>1, <3>2
  <2> QED
    BY <1>1, <1>4, <2>1, <2>2, <2>3
<1>5. CASE ~(Len(samples) < MaxQueued)
  <2>0. Len(samples) = MaxQueued /\ samples # << >>
    BY <1>1, <1>5
  <2>1. Enqueued = Append(Tail(samples), frame + 1)
    BY <1>5 DEF Enqueued
  <2>2. Tail(samples) \in Seq(1..MaxFrames) /\ Len(Tail(samples)) = Len(samples) - 1
    BY <1>1, <2>0
  <2>3. \A i \in 1..(Len(samples) - 1) : Tail(samples)[i] = samples[i + 1]
    BY <1>1, <2>0
  <2> DEFINE tail == Tail(samples)
             queue == Append(tail, frame + 1)
  <2> HIDE DEF tail
  <2>4. tail \in Seq(1..MaxFrames) /\ Len(tail) = Len(samples) - 1
        /\ \A i \in 1..(Len(samples) - 1) : tail[i] = samples[i + 1]
    BY <2>2, <2>3 DEF tail
  <2>5. /\ queue \in Seq(1..MaxFrames) /\ Len(queue) = Len(tail) + 1
        /\ DOMAIN queue = 1..(Len(tail) + 1)
        /\ \A i \in 1..Len(tail) : queue[i] = tail[i]
        /\ queue[Len(tail) + 1] = frame + 1
    BY <1>2, <2>4, AppendAt
  <2> HIDE DEF queue
  <2>6. ASSUME NEW i \in 1..Len(samples)
        PROVE  queue[i] = frame + 1 - (Len(samples) - i)
    <3>1. CASE i = Len(samples)
      <4>1. queue[i] = frame + 1
        BY <1>1, <2>4, <2>5, <3>1
      <4> QED
        BY <1>1, <3>1, <4>1
    <3>2. CASE i \in 1..(Len(samples) - 1)
      <4>0. i \in 1..Len(tail) /\ i + 1 \in 1..Len(samples)
        BY <1>1, <2>4, <3>2
      <4>1. queue[i] = tail[i] /\ tail[i] = samples[i + 1] /\ i + 1 \in 1..Len(samples)
        BY <2>4, <2>5, <3>2, <4>0
      <4>2. samples[i + 1] = frame - (Len(samples) - (i + 1))
        BY <1>3, <4>1
      <4> QED
        BY <1>1, <3>2, <4>1, <4>2
    <3> QED
      BY <1>1, <3>1, <3>2
  <2>7. Enqueued = queue
    BY <2>1 DEF queue, tail
  <2> QED
    BY <1>1, <2>0, <2>4, <2>5, <2>6, <2>7
<1> QED
  BY <1>4, <1>5

\* The callback takes the oldest frame, and what it leaves still ends with
\* the newest one: of callback's pop_front.
LEMMA TakenIsOldest ==
  ASSUME TypeOK, QueueIsLatest, samples # << >>
  PROVE  /\ Taken.taken \in 1..MaxFrames /\ Taken.taken = frame - Len(samples) + 1
         /\ Taken.left \in Seq(1..MaxFrames) /\ Len(Taken.left) = Len(samples) - 1
         /\ \A i \in DOMAIN Taken.left : Taken.left[i] = frame - (Len(Taken.left) - i)
<1>1. samples \in Seq(1..MaxFrames) /\ Len(samples) \in Nat /\ frame \in 0..MaxFrames
      /\ MaxFrames \in Nat
  BY AsyncAudioAssumption DEF TypeOK
<1>2. \A i \in 1..Len(samples) : samples[i] = frame - (Len(samples) - i)
  BY <1>1 DEF QueueIsLatest
<1>3. Len(samples) >= 1 /\ Head(samples) = samples[1] /\ samples[1] \in 1..MaxFrames
  BY <1>1
<1>4. Head(samples) = frame - Len(samples) + 1
  BY <1>1, <1>2, <1>3
<1>5. Tail(samples) \in Seq(1..MaxFrames) /\ Len(Tail(samples)) = Len(samples) - 1
      /\ DOMAIN Tail(samples) = 1..(Len(samples) - 1)
  BY <1>1, <1>3
<1>6. \A i \in 1..(Len(samples) - 1) : Tail(samples)[i] = samples[i + 1]
  BY <1>1, <1>3
<1>7. \A i \in 1..(Len(samples) - 1) :
         Tail(samples)[i] = frame - (Len(samples) - 1 - i)
  BY <1>1, <1>2, <1>6
<1>8. Taken.taken = Head(samples) /\ Taken.left = Tail(samples)
  BY DEF Taken
<1> QED
  BY <1>3, <1>4, <1>5, <1>7, <1>8

-----------------------------------------------------------------------------
(* The invariant.                                                          *)

\* The program starts with an empty queue and nothing registered.
LEMMA InitIInv == Init => IInv
<1> /\ << >> \in Seq(1..MaxFrames) /\ Len(<< >>) = 0 /\ DOMAIN << >> = {}
    /\ MaxFrames \in Nat /\ MaxQueued \in Nat /\ 0 \in 0..MaxFrames /\ 0 <= MaxQueued
  BY AsyncAudioAssumption
<1>1. Init => TypeOK
  BY DEF Init, TypeOK, Silence
<1>2. Init => OffMeansEmpty /\ QueueIsLatest /\ FrontendDecides /\ Asking /\ Newer
  BY DEF Init, OffMeansEmpty, QueueIsLatest, FrontendDecides, Asking, Newer, Silence
<1> QED
  BY <1>1, <1>2 DEF IInv

\* A reset of the queue, by whichever of the retro_ calls.
LEMMA ResetQueue ==
  ASSUME IInv, NEW r \in BOOLEAN, Reset(r), UNCHANGED <<threads, frame>>
  PROVE  /\ samples' \in Seq(1..MaxFrames) /\ Len(samples') <= MaxQueued
         /\ registered' = r /\ enabled' = FALSE /\ samples' = << >>
         /\ QueueIsLatest' /\ Newer'
<1>1. samples' = << >> /\ Len(samples') = 0 /\ samples' \in Seq(1..MaxFrames)
      /\ DOMAIN samples' = {}
  BY DEF Reset
<1>2. heard' = heard /\ output' = output /\ audio' = audio /\ frame' = frame
  BY DEF threads
<1>3. heard \in Nat /\ output \in Nat /\ frame \in Nat /\ Len(samples) \in Nat
      /\ MaxQueued \in Nat \ {0}
  BY AsyncAudioAssumption DEF IInv, TypeOK
<1>4. heard <= frame /\ output <= frame
  BY <1>3 DEF IInv, Newer
<1>5. Newer'
  BY <1>1, <1>2, <1>3, <1>4 DEF IInv, Newer
<1> QED
  BY <1>1, <1>3, <1>5 DEF Reset, QueueIsLatest

\* Every step of the three threads keeps it.
LEMMA NextIInv == ASSUME IInv, [Next]_vars PROVE IInv'
<1> USE AsyncAudioAssumption
<1>1. CASE Unregister
  BY <1>1 DEF Unregister, IInv, TypeOK, OffMeansEmpty, QueueIsLatest, FrontendDecides,
              Asking, Newer, state, threads
<1>2. CASE Unload
  BY <1>2, ResetQueue DEF Unload, IInv, TypeOK, OffMeansEmpty, FrontendDecides, Asking, threads
<1>3. CASE Load
  BY <1>3, ResetQueue DEF Load, IInv, TypeOK, OffMeansEmpty, FrontendDecides, Asking, threads
<1>4. CASE Register
  BY <1>4, ResetQueue DEF Register, IInv, TypeOK, OffMeansEmpty, FrontendDecides, Asking, threads
<1>5. CASE Ask
  BY <1>5 DEF Ask, IInv, TypeOK, OffMeansEmpty, QueueIsLatest, FrontendDecides,
              Asking, Newer, state, threads
<1>6. CASE Answered
  <2>1. CASE core = "refused"
    BY <1>6, <2>1, ResetQueue
       DEF Answered, IInv, TypeOK, OffMeansEmpty, FrontendDecides, Asking, threads
  <2>2. CASE core = "accepted"
    BY <1>6, <2>2 DEF Answered, IInv, TypeOK, OffMeansEmpty, QueueIsLatest,
                      FrontendDecides, Asking, Newer, state, threads
  <2> QED
    BY <1>6, <2>1, <2>2 DEF Answered
<1>7. CASE RetroRun
  <2>0. /\ frame < MaxFrames /\ frame' = frame + 1
        /\ samples' = IF registered /\ enabled THEN Enqueued ELSE samples
        /\ UNCHANGED <<registered, enabled, async_registered, loaded, core, has_callback,
                       threads, wanted>>
    BY <1>7 DEF RetroRun
  <2>1. frame \in 0..MaxFrames /\ frame' \in 0..MaxFrames /\ heard \in Nat /\ output \in Nat
        /\ samples \in Seq(1..MaxFrames) /\ Len(samples) \in Nat /\ MaxFrames \in Nat
    BY <2>0 DEF IInv, TypeOK
  <2>2. heard' = heard /\ output' = output /\ audio' = audio
    BY <2>0 DEF threads
  <2>3. CASE registered /\ enabled
    <3>1. samples' = Enqueued
      BY <2>0, <2>3
    <3>2. samples' \in Seq(1..MaxFrames) /\ Len(samples') <= MaxQueued
          /\ Len(samples') <= Len(samples) + 1
          /\ \A i \in DOMAIN samples' : samples'[i] = frame + 1 - (Len(samples') - i)
      BY <2>0, <3>1, EnqueuedIsLatest DEF IInv
    <3>3. QueueIsLatest'
      <4>1. ASSUME NEW i \in DOMAIN samples'
            PROVE  samples'[i] = frame' - (Len(samples') - i)
        <5>1. samples'[i] = frame + 1 - (Len(samples') - i)
          BY <3>2
        <5>2. frame' = frame + 1
          BY <2>0
        <5>3. Len(samples') \in Nat /\ i \in Nat
          BY <3>2
        <5> QED
          BY <2>1, <5>1, <5>2, <5>3
      <4> QED
        BY <4>1 DEF QueueIsLatest
    <3>4. Len(samples') \in Nat
      BY <3>2
    <3>5. heard' + Len(samples') <= frame' /\ output' + Len(samples') <= frame'
      BY <2>0, <2>1, <2>2, <3>2, <3>4 DEF IInv, Newer
    <3>6. Newer'
      BY <2>2, <3>5 DEF IInv, Newer, Silence
    <3>7. TypeOK'
      BY <2>0, <2>1, <3>2 DEF IInv, TypeOK, threads
    <3>8. OffMeansEmpty' /\ FrontendDecides' /\ Asking'
      BY <2>0, <2>3 DEF IInv, OffMeansEmpty, FrontendDecides, Asking
    <3> QED
      BY <3>3, <3>6, <3>7, <3>8 DEF IInv
  <2>4. CASE ~(registered /\ enabled)
    <3>1. samples' = << >> /\ samples = << >>
      BY <2>0, <2>4 DEF IInv, OffMeansEmpty
    <3>2. DOMAIN samples' = {} /\ Len(samples') = 0 /\ samples' \in Seq(1..MaxFrames)
          /\ Len(samples) = 0
      BY <3>1
    <3>3. heard' + Len(samples') <= frame' /\ output' + Len(samples') <= frame'
      BY <2>0, <2>1, <2>2, <3>2 DEF IInv, Newer
    <3>4. Newer'
      BY <2>2, <3>3 DEF IInv, Newer, Silence
    <3>5. TypeOK'
      BY <2>0, <2>1, <3>2 DEF IInv, TypeOK, threads
    <3>6. QueueIsLatest'
      BY <3>2 DEF QueueIsLatest
    <3>7. OffMeansEmpty' /\ FrontendDecides' /\ Asking'
      BY <2>0, <2>4, <3>1 DEF IInv, OffMeansEmpty, FrontendDecides, Asking
    <3> QED
      BY <3>4, <3>5, <3>6, <3>7 DEF IInv
  <2> QED
    BY <2>3, <2>4
<1>8. CASE CallbackBegin
  BY <1>8 DEF CallbackBegin, IInv, TypeOK, OffMeansEmpty, QueueIsLatest, FrontendDecides,
              Asking, Newer, state
<1>9. CASE CallbackTake
  <2>0. UNCHANGED <<registered, enabled, async_registered, loaded, core, has_callback,
                    control, heard, frame, wanted>>
        /\ audio = "calling" /\ audio' = IF enabled THEN "deliver" ELSE "idle"
    BY <1>9 DEF CallbackTake
  <2>1. frame \in 0..MaxFrames /\ heard \in 0..MaxFrames /\ MaxFrames \in Nat
        /\ samples \in Seq(1..MaxFrames) /\ Len(samples) \in Nat /\ Len(samples) <= MaxQueued
    BY DEF IInv, TypeOK
  <2>2. CASE enabled /\ samples # << >>
    <3>1. output' = Taken.taken /\ samples' = Taken.left
      BY <1>9, <2>2 DEF CallbackTake
    <3>2. /\ output' \in 1..MaxFrames /\ output' = frame - Len(samples) + 1
          /\ samples' \in Seq(1..MaxFrames) /\ Len(samples') = Len(samples) - 1
          /\ \A i \in DOMAIN samples' : samples'[i] = frame - (Len(samples') - i)
      BY <2>2, <3>1, TakenIsOldest DEF IInv
    <3>3. heard + Len(samples) <= frame
      BY DEF IInv, Newer
    <3>4. heard' + Len(samples') <= frame' /\ output' + Len(samples') <= frame'
          /\ heard' < output' /\ Len(samples') <= MaxQueued
      BY <2>0, <2>1, <3>2, <3>3
    <3>5. Newer'
      BY <2>0, <2>2, <3>4 DEF Newer
    <3>6. TypeOK'
      BY <2>0, <2>1, <3>2, <3>4 DEF IInv, TypeOK
    <3>7. QueueIsLatest'
      BY <2>0, <3>2 DEF QueueIsLatest
    <3>8. OffMeansEmpty' /\ FrontendDecides' /\ Asking'
      BY <2>0, <2>2 DEF IInv, OffMeansEmpty, FrontendDecides, Asking
    <3> QED
      BY <3>5, <3>6, <3>7, <3>8 DEF IInv
  <2>3. CASE ~(enabled /\ samples # << >>)
    <3>1. output' = Silence /\ samples' = samples
      BY <1>9, <2>3 DEF CallbackTake
    <3> QED
      BY <2>0, <2>1, <3>1 DEF IInv, TypeOK, OffMeansEmpty, QueueIsLatest, FrontendDecides,
                              Asking, Newer, Silence
  <2> QED
    BY <2>2, <2>3
<1>10. CASE CallbackDeliver
  BY <1>10 DEF CallbackDeliver, IInv, TypeOK, OffMeansEmpty, QueueIsLatest, FrontendDecides,
               Asking, Newer, state, Silence
<1>11. CASE SetStateBegin
  BY <1>11 DEF SetStateBegin, IInv, TypeOK, OffMeansEmpty, QueueIsLatest, FrontendDecides,
               Asking, Newer, state
<1>12. CASE SetEnabled
  <2>0. UNCHANGED <<registered, async_registered, loaded, core, has_callback, audio,
                    output, heard, frame>>
        /\ enabled' = (registered /\ control = "on") /\ wanted' = (control = "on")
        /\ control' = "idle"
        /\ samples' = IF enabled' # enabled THEN << >> ELSE samples
    BY <1>12 DEF SetEnabled, Allowed
  <2>1. heard \in Nat /\ output \in Nat /\ frame \in Nat /\ Len(samples) \in Nat
        /\ MaxQueued \in Nat /\ samples \in Seq(1..MaxFrames) /\ Len(samples) <= MaxQueued
    BY DEF IInv, TypeOK
  <2>2. /\ samples' \in Seq(1..MaxFrames) /\ Len(samples') <= Len(samples)
        /\ Len(samples') <= MaxQueued /\ Len(samples') \in Nat
    <3>1. CASE samples' = samples
      BY <2>1, <3>1
    <3>2. CASE samples' = << >>
      <4>1. Len(samples') = 0 /\ samples' \in Seq(1..MaxFrames)
        BY <3>2
      <4> QED
        BY <2>1, <4>1
    <3> QED
      BY <2>0, <3>1, <3>2
  <2>3. TypeOK'
    BY <2>0, <2>2 DEF IInv, TypeOK
  <2>4. QueueIsLatest'
    BY <2>0, <2>1 DEF IInv, QueueIsLatest
  <2>5. OffMeansEmpty' /\ FrontendDecides' /\ Asking'
    BY <2>0 DEF IInv, TypeOK, OffMeansEmpty, FrontendDecides, Asking
  <2>6. Newer'
    BY <2>0, <2>1, <2>2 DEF IInv, Newer
  <2> QED
    BY <2>3, <2>4, <2>5, <2>6 DEF IInv
<1>13. CASE UNCHANGED vars
  BY <1>13 DEF vars, state, threads, IInv, TypeOK, OffMeansEmpty, QueueIsLatest,
               FrontendDecides, Asking, Newer
<1> QED
  BY <1>1, <1>2, <1>3, <1>4, <1>5, <1>6, <1>7, <1>8, <1>9, <1>10, <1>11, <1>12, <1>13
     DEF Next

\* The inductive invariant holds throughout.
LEMMA Invariant == Spec => []IInv
BY InitIInv, NextIInv, PTL DEF Spec

-----------------------------------------------------------------------------
(* The theorems.                                                           *)

\* Every value keeps its type, and the queue its bound.
THEOREM TypeCorrect == Spec => []TypeOK
BY Invariant, PTL DEF IInv

\* Nothing waits in the queue of a callback that is off, and one that was
\* taken back cannot be turned on.
THEOREM OffMeansEmptyHolds == Spec => []OffMeansEmpty
BY Invariant, PTL DEF IInv

\* The queue holds the frames produced last, without a gap.
THEOREM QueueIsLatestHolds == Spec => []QueueIsLatest
BY Invariant, PTL DEF IInv

\* The last set_state of the frontend is what holds.
THEOREM FrontendDecidesHolds == Spec => []FrontendDecides
BY Invariant, PTL DEF IInv

\* Each delivery is newer than all before it: no frame is delivered twice, also
\* not twice in a row, and none after a later one.
THEOREM HeardInOrderHolds == Spec => HeardInOrder
<1>1. ASSUME IInv PROVE [CallbackDeliver /\ output # Silence => output > heard]_vars
  <2>1. output # Silence => heard < output
    BY <1>1 DEF IInv, Newer
  <2>2. heard \in Nat /\ output \in Nat
    BY <1>1 DEF IInv, TypeOK
  <2> QED
    BY <2>1, <2>2
<1> QED
  BY <1>1, Invariant, PTL DEF Spec, HeardInOrder
=============================================================================
