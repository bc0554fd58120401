----------------------------- MODULE AsyncAudio -----------------------------
(***************************************************************************)
(* Asynchronous audio of the libretro core                                 *)
(* (crates/dingooemu-libretro/src/audio_output.rs and the parts of api.rs  *)
(* that register it, take it back and feed it).                            *)
(*                                                                         *)
(* Three threads share the Mutex of audio_output: the emulation thread     *)
(* (every retro_ call), the frontend's audio thread (callback) and the     *)
(* thread on which the frontend calls set_state.  Each section under the   *)
(* lock is one step.  The unit of audio is one frame of video: what        *)
(* retro_run produces and what one callback takes (CALLBACK_FRAMES); it    *)
(* is identified by its number.  The frontend is external: it accepts or   *)
(* refuses the callbacks, and calls the ones it holds at any time.  A call *)
(* it has begun may reach the lock after the core took the callbacks back. *)
(***************************************************************************)
EXTENDS Integers, Sequences

CONSTANTS
  MaxQueued,  \* MAX_QUEUED_FRAMES, in callback periods
  MaxFrames   \* bound: frames produced in one behaviour

ASSUME AsyncAudioAssumption == MaxQueued \in Nat \ {0} /\ MaxFrames \in Nat

VARIABLES
  registered, enabled, samples,  \* STATE, under its Mutex
  async_registered,              \* ASYNC_AUDIO_REGISTERED
  loaded,                        \* EMULATOR is Some
  core,                          \* where the emulation thread is
  has_callback,                  \* the frontend holds the core's callbacks
  audio, output,                 \* where the audio thread is, and the frame
                                 \*   it delivers
  control,                       \* the set_state thread: "idle", "on", "off"
  frame,                         \* the last frame produced
  heard,                         \* the last frame the audio thread delivered
  wanted                         \* what set_state last said since registering

state == <<registered, enabled, samples>>
threads == <<audio, output, control, heard>>
vars == <<state, async_registered, loaded, core, has_callback, threads, frame, wanted>>

Silence == 0

Init ==
  /\ registered = FALSE /\ enabled = FALSE /\ samples = << >>
  /\ async_registered = FALSE /\ loaded = FALSE
  /\ core = "idle"
  /\ has_callback = FALSE
  /\ audio = "idle" /\ output = Silence /\ control = "idle"
  /\ frame = 0 /\ heard = 0 /\ wanted = FALSE

\* AudioOutputState::reset
Reset(r) == registered' = r /\ enabled' = FALSE /\ samples' = << >>

-----------------------------------------------------------------------------
(* The emulation thread.                                                   *)

\* retro_load_game, retro_unload_game and retro_deinit begin alike: the
\* callbacks are taken back if the frontend had accepted them.
Unregister ==
  /\ core = "idle"
  /\ core' \in {"load", "unload"}
  /\ async_registered' = FALSE
  /\ has_callback' = (has_callback /\ ~async_registered)
  /\ UNCHANGED <<state, loaded, threads, frame, wanted>>

\* Then the queue is reset and the content goes.
Unload ==
  /\ core = "unload"
  /\ Reset(FALSE)
  /\ loaded' = FALSE
  /\ core' = "idle"
  /\ UNCHANGED <<async_registered, has_callback, threads, frame, wanted>>

\* A load goes on to register, unless the content cannot be loaded.
Load ==
  /\ core = "load"
  /\ Reset(FALSE)
  /\ \E ok \in BOOLEAN : loaded' = ok /\ core' = IF ok THEN "register" ELSE "idle"
  /\ UNCHANGED <<async_registered, has_callback, threads, frame, wanted>>

\* register_async_audio: reset(true), then SET_AUDIO_CALLBACK, then what
\* depends on the answer.  The frontend may call set_state before it answers.
Register ==
  /\ core = "register"
  /\ Reset(TRUE)
  /\ wanted' = FALSE
  /\ core' = "ask"
  /\ UNCHANGED <<async_registered, loaded, has_callback, threads, frame>>

Ask ==
  /\ core = "ask"
  /\ has_callback' \in BOOLEAN
  /\ core' = IF has_callback' THEN "accepted" ELSE "refused"
  /\ UNCHANGED <<state, async_registered, loaded, threads, frame, wanted>>

MutAnswered ==
  /\ core \in {"accepted", "refused"}
  /\ async_registered' = (core = "accepted")
  /\ Reset(core = "accepted")
  /\ core' = "idle"
  /\ UNCHANGED <<loaded, has_callback, threads, frame, wanted>>
Answered ==
  /\ core \in {"accepted", "refused"}
  /\ async_registered' = (core = "accepted")
  /\ IF core = "refused" THEN Reset(FALSE) ELSE UNCHANGED state
  /\ core' = "idle"
  /\ UNCHANGED <<loaded, has_callback, threads, frame, wanted>>

\* enqueue: the oldest frame makes room for the new one.
MutEnqueued == IF Len(samples) < MaxQueued THEN Append(samples, frame + 1) ELSE samples
MutUnbounded == Append(samples, frame + 1)
Enqueued ==
  IF Len(samples) < MaxQueued THEN Append(samples, frame + 1)
  ELSE Append(Tail(samples), frame + 1)

\* retro_run: without asynchronous audio the frame goes to the frontend at once.
RetroRun ==
  /\ core = "idle" /\ loaded
  /\ frame < MaxFrames
  /\ frame' = frame + 1
  /\ samples' = IF registered /\ enabled THEN Enqueued ELSE samples
  /\ UNCHANGED <<registered, enabled, async_registered, loaded, core, has_callback,
                 threads, wanted>>

-----------------------------------------------------------------------------
(* The frontend's audio thread, inside callback.                           *)

CallbackBegin ==
  /\ audio = "idle" /\ has_callback
  /\ audio' = "calling"
  /\ UNCHANGED <<state, async_registered, loaded, core, has_callback, output, control,
                 heard, frame, wanted>>

\* The section under the lock: one period is taken, and silence fills up.
MutTaken == [taken |-> Head(samples), left |-> samples]
Taken == [taken |-> Head(samples), left |-> Tail(samples)]
CallbackTake ==
  /\ audio = "calling"
  /\ audio' = IF enabled THEN "deliver" ELSE "idle"
  /\ IF enabled /\ samples # << >>
     THEN output' = Taken.taken /\ samples' = Taken.left
     ELSE output' = Silence /\ UNCHANGED samples
  /\ UNCHANGED <<registered, enabled, async_registered, loaded, core, has_callback,
                 control, heard, frame, wanted>>

\* audio_sample_batch, after the lock is released.
CallbackDeliver ==
  /\ audio = "deliver"
  /\ heard' = IF output = Silence THEN heard ELSE output
  /\ audio' = "idle" /\ output' = Silence
  /\ UNCHANGED <<state, async_registered, loaded, core, has_callback, control,
                 frame, wanted>>

-----------------------------------------------------------------------------
(* The frontend's calls of set_state.                                      *)

SetStateBegin ==
  /\ control = "idle" /\ has_callback
  /\ control' \in {"on", "off"}
  /\ UNCHANGED <<state, async_registered, loaded, core, has_callback, audio, output,
                 heard, frame, wanted>>

\* AudioOutputState::set_enabled
MutAllowed(on) == on
Allowed(on) == registered /\ on
SetEnabled ==
  /\ control # "idle"
  /\ enabled' = Allowed(control = "on")
  /\ samples' = IF enabled' # enabled THEN << >> ELSE samples
  /\ wanted' = (control = "on")
  /\ control' = "idle"
  /\ UNCHANGED <<registered, async_registered, loaded, core, has_callback, audio,
                 output, heard, frame>>

Next ==
  \/ Unregister \/ Unload \/ Load \/ Register \/ Ask \/ Answered \/ RetroRun
  \/ CallbackBegin \/ CallbackTake \/ CallbackDeliver
  \/ SetStateBegin \/ SetEnabled

Spec == Init /\ [][Next]_vars

-----------------------------------------------------------------------------
(* Properties.                                                             *)

\* The type invariant: "uses only a short bounded queue"
\* (docs/RetroArch-Core.md).
TypeOK ==
  /\ registered \in BOOLEAN /\ enabled \in BOOLEAN
  /\ samples \in Seq(1..MaxFrames) /\ Len(samples) <= MaxQueued
  /\ async_registered \in BOOLEAN /\ loaded \in BOOLEAN
  /\ core \in {"idle", "load", "unload", "register", "ask", "accepted", "refused"}
  /\ has_callback \in BOOLEAN
  /\ audio \in {"idle", "calling", "deliver"} /\ output \in 0..MaxFrames
  /\ control \in {"idle", "on", "off"}
  /\ frame \in 0..MaxFrames /\ heard \in 0..MaxFrames
  /\ wanted \in BOOLEAN

\* "discards audio while the frontend callback is disabled": nothing waits in
\* the queue of a callback that is off, and a set_state that comes after the
\* callbacks were taken back does not turn it on for the next content.
OffMeansEmpty ==
  /\ ~enabled => samples = << >>
  /\ enabled => registered
  /\ core = "idle" /\ ~async_registered => ~registered

\* "so stale audio cannot build up across pauses": the queue holds the frames
\* produced last, without a gap, so what the callback takes is at most
\* MaxQueued frames old however often the frontend paused.
QueueIsLatest ==
  \A i \in DOMAIN samples : samples[i] = frame - (Len(samples) - i)

\* What the frontend said last is what holds, also when it said it while the
\* core was still registering.
FrontendDecides ==
  core = "idle" /\ async_registered => registered /\ enabled = wanted

\* Each delivery of the audio thread is newer than all it delivered before: no
\* frame is heard twice, not even twice in a row, and none after a later one,
\* through any number of pauses and changes of content.
HeardInOrder == [][CallbackDeliver /\ output # Silence => output > heard]_vars

=============================================================================
