------------------------------- MODULE Frontend -------------------------------
(***************************************************************************)
(* The libretro session: content loaded and unloaded, core options, reset, *)
(* save states, the memory map the frontend was given, the performance     *)
(* diagnostics (api.rs, diagnostics.rs), and below them the parts of the   *)
(* emulator they replace or restore: input and the key messages of the     *)
(* guest's windows (input.rs, gui.rs).  The guest's own steps stand        *)
(* between two calls of the frontend; in the program they are inside       *)
(* retro_run.                                                              *)
(***************************************************************************)
EXTENDS Integers, Sequences

CONSTANTS
    Buttons,        \* among them A and B, which an option exchanges
    A, B,
    Priority,       \* the buttons that have a GUI key, the first one held counts
    MaxWindows,     \* bound on the guest's windows
    None

ASSUME FrontendAssumption ==
    /\ {A, B} \subseteq Buttons
    /\ Priority \in Seq(Buttons)
    /\ MaxWindows \in Nat
    /\ None \notin Buttons \cup [path : BOOLEAN, enabled : BOOLEAN]

\* One option of each class: swap_ab, like volume, key repeat and instruction
\* policy, is part of a save state; diagnostics, like the CPU engine, is not.
Options == [swap_ab : BOOLEAN, diagnostics : BOOLEAN]
DefaultOptions == [swap_ab |-> FALSE, diagnostics |-> FALSE]

VARIABLES
    wanted, updated,    \* the frontend's option values, and its update flag
    loaded,             \* EMULATOR is there
    input,              \* buttons held and swap_ab
    gui,
    memory,             \* where RAM is, and the keys the guest holds for pressed
    counters,           \* the JIT counts for diagnostics
    session,            \* the diagnostics' session: whether it has a path, enabled
    reporting,          \* diagnostics: ENABLED
    registered,         \* DIAGNOSTIC_AUDIO_BUFFER_REGISTERED
    mapped,             \* the RAM pointer in the memory map the frontend accepted
    saved               \* a save state

emulator == <<input, gui, memory, counters>>
diagnostics == <<session, reporting, registered>>
options == <<wanted, updated>>
vars == <<options, loaded, emulator, diagnostics, mapped, saved>>

(***************************************************************************)
(* The emulator: what a new one is, and what replaces it.                  *)
(***************************************************************************)
NewInput == [buttons |-> {}, swap_ab |-> FALSE]
NewGui == [messages |-> FALSE, windows |-> 0, focused |-> 0, reported |-> None,
           message_buffer |-> FALSE, key_info_buffer |-> FALSE]

\* Boxes of RAM: a replacement has one of its own while it is built.
Boxes == {0, 1}
NewMemory == [box |-> 1, pressed |-> {}]
CopyStateFrom(kept, source) == [kept EXCEPT !.pressed = source.pressed]

EmulatorAt(newMemory, newInput, newGui) ==
    /\ memory' = newMemory
    /\ input' = newInput
    /\ gui' = newGui

MutReplaceMovesMemory(state, swap_ab) ==
    EmulatorAt(state.memory, [state.input EXCEPT !.swap_ab = swap_ab], state.gui)

\* The RAM stays where the frontend saw it: the new state is copied into it.
Replace(state, swap_ab) ==
    EmulatorAt(CopyStateFrom(memory, state.memory), [state.input EXCEPT !.swap_ab = swap_ab],
               state.gui)

\* set_buttons: the option exchanges A and B before anything is compared.
Exchanged(button) == CASE button = A -> B [] button = B -> A [] OTHER -> button
SetButtons(pressed, swap_ab) ==
    [buttons |-> IF swap_ab THEN {Exchanged(b) : b \in pressed} ELSE pressed,
     swap_ab |-> swap_ab]

(***************************************************************************)
(* Core options and diagnostics.                                           *)
(***************************************************************************)
\* set_enabled, then the audio buffer status callback follows; the frontend
\* may refuse it.
ApplyDiagnostics(current, enabled) ==
    LET on == enabled /\ current.path
    IN  /\ session' = [current EXCEPT !.enabled = on]
        /\ reporting' = on
        /\ registered' \in IF on /\ ~registered THEN BOOLEAN ELSE {on}

MutFinishKeepsSession ==
    /\ session' = session
    /\ reporting' = FALSE
    /\ registered' = FALSE

FinishDiagnostics ==
    /\ session' = None
    /\ reporting' = FALSE
    /\ registered' = FALSE

ApplyCoreOptions(current) ==
    /\ counters' = wanted.diagnostics
    /\ ApplyDiagnostics(current, wanted.diagnostics)

(***************************************************************************)
(* The frontend's calls.                                                   *)
(***************************************************************************)
Init ==
    /\ wanted = DefaultOptions /\ updated = FALSE
    /\ loaded = FALSE
    /\ input = NewInput /\ gui = NewGui /\ memory = NewMemory
    /\ counters = FALSE
    /\ session = None /\ reporting = FALSE /\ registered = FALSE
    /\ mapped = None
    /\ saved = None

ChangeOption ==
    /\ wanted' \in Options
    /\ updated' = TRUE
    /\ UNCHANGED <<loaded, emulator, diagnostics, mapped, saved>>

\* What was loaded goes first, so a failure leaves nothing loaded.
LoadGame ==
    /\ \E path \in BOOLEAN :
          /\ EmulatorAt(NewMemory, [NewInput EXCEPT !.swap_ab = wanted.swap_ab], NewGui)
          /\ counters' = wanted.diagnostics
          /\ session' = [path |-> path, enabled |-> path /\ wanted.diagnostics]
          /\ reporting' = (path /\ wanted.diagnostics)
          /\ registered' \in IF reporting' THEN BOOLEAN ELSE {FALSE}
    /\ mapped' \in {memory'.box, None}
    /\ loaded' = TRUE
    /\ UNCHANGED <<options, saved>>

NothingLoaded ==
    /\ EmulatorAt(NewMemory, NewInput, NewGui)
    /\ counters' = FALSE
    /\ FinishDiagnostics
    /\ mapped' = None
    /\ loaded' = FALSE
    /\ UNCHANGED <<options, saved>>

LoadGameFails == NothingLoaded
UnloadGame == loaded /\ NothingLoaded

\* The flag is taken also when nothing is loaded: loading reads the options.
Run ==
    /\ updated' = FALSE
    /\ \E pressed \in SUBSET Buttons :
          IF ~loaded THEN UNCHANGED <<emulator, diagnostics>>
          ELSE /\ input' = SetButtons(pressed, IF updated THEN wanted.swap_ab ELSE input.swap_ab)
               /\ IF updated THEN ApplyCoreOptions(session)
                  ELSE UNCHANGED <<counters, diagnostics>>
               /\ UNCHANGED <<gui, memory>>
    /\ UNCHANGED <<wanted, loaded, mapped, saved>>

\* A new emulator takes the place of this one, then gets the options.  A reset
\* that fails changes nothing.
NewState == [memory |-> [NewMemory EXCEPT !.box = 1 - memory.box], input |-> NewInput,
             gui |-> NewGui]

MutRestartWithoutOptions(state) ==
    /\ Replace(state, state.input.swap_ab)
    /\ counters' = FALSE
    /\ UNCHANGED diagnostics

Restart(state) ==
    /\ Replace(state, wanted.swap_ab)
    /\ ApplyCoreOptions(session)

Reset ==
    /\ loaded
    /\ Restart(NewState)
    /\ UNCHANGED <<options, loaded, mapped, saved>>

Serialize ==
    /\ loaded
    /\ saved' = [memory |-> [memory EXCEPT !.box = 0], input |-> input, gui |-> gui]
    /\ UNCHANGED <<options, loaded, emulator, diagnostics, mapped>>

\* A state that is damaged or of other content is rejected before this.
Unserialize ==
    /\ loaded
    /\ saved # None
    /\ Restart(saved)
    /\ UNCHANGED <<options, loaded, mapped, saved>>

(***************************************************************************)
(* The guest's calls.                                                      *)
(***************************************************************************)
Guest(next) ==
    /\ loaded
    /\ gui' = next
    /\ UNCHANGED <<options, loaded, input, counters, diagnostics, mapped, saved>>

OpenGuiKeyMsg == Guest([gui EXCEPT !.messages = TRUE]) /\ UNCHANGED memory

\* A call without a callback creates no window.
CreateWindow ==
    /\ gui.windows < MaxWindows
    /\ Guest([gui EXCEPT !.windows = @ + 1])
    /\ UNCHANGED memory

SetFocus ==
    /\ \E window \in 1 .. gui.windows : Guest([gui EXCEPT !.focused = window])
    /\ UNCHANGED memory

GuiKeyCode(buttons) ==
    LET held == {k \in 1 .. Len(Priority) : Priority[k] \in buttons}
    IN  IF held = {} THEN None
        ELSE Priority[CHOOSE k \in held : \A j \in held : k <= j]

Current == GuiKeyCode(input.buttons)
Releases == gui.reported # None /\ gui.reported # Current
Presses == gui.reported = None /\ Current # None
Deliverable == gui.messages /\ (Releases \/ Presses) /\ gui.focused # 0

\* The callback gets one message: the release of the key reported, or a press.
GuiExec ==
    /\ Deliverable
    /\ IF Releases
       THEN /\ Guest([gui EXCEPT !.message_buffer = TRUE, !.key_info_buffer = TRUE,
                                 !.reported = None])
            /\ memory' = [memory EXCEPT !.pressed = @ \ {gui.reported}]
       ELSE /\ Guest([gui EXCEPT !.message_buffer = TRUE, !.key_info_buffer = TRUE,
                                 !.reported = Current])
            /\ memory' = [memory EXCEPT !.pressed = @ \cup {Current}]

MutGuiExecReportsFirst ==
    /\ Deliverable
    /\ ~gui.message_buffer \/ ~gui.key_info_buffer
    /\ Guest([gui EXCEPT !.reported = IF Releases THEN None ELSE Current])
    /\ UNCHANGED memory

\* The guest's heap has no room for one of the two buffers: no message, and
\* the first buffer is kept.
GuiExecWithoutMemory ==
    /\ Deliverable
    /\ ~gui.message_buffer \/ ~gui.key_info_buffer
    /\ \E first \in BOOLEAN :
          /\ gui.message_buffer => first
          /\ first => ~gui.key_info_buffer
          /\ Guest([gui EXCEPT !.message_buffer = first])
    /\ UNCHANGED memory

Next ==
    \/ ChangeOption \/ LoadGame \/ LoadGameFails \/ UnloadGame
    \/ Run \/ Reset \/ Serialize \/ Unserialize
    \/ OpenGuiKeyMsg \/ CreateWindow \/ SetFocus \/ GuiExec \/ GuiExecWithoutMemory

Spec == Init /\ [][Next]_vars

(***************************************************************************)
(* Properties                                                              *)
(***************************************************************************)
Keys == {Priority[k] : k \in 1 .. Len(Priority)}
Inputs == [buttons : SUBSET Buttons, swap_ab : BOOLEAN]
Guis == [messages : BOOLEAN, windows : 0 .. MaxWindows, focused : 0 .. MaxWindows,
         reported : Keys \cup {None},
         message_buffer : BOOLEAN, key_info_buffer : BOOLEAN]
Memories == [box : Boxes, pressed : SUBSET Keys]

\* A session of the diagnostics lives as long as the content, and the key
\* information buffer is only there with the message buffer.
TypeOK ==
    /\ wanted \in Options /\ updated \in BOOLEAN
    /\ loaded \in BOOLEAN
    /\ input \in Inputs /\ gui \in Guis /\ memory \in Memories /\ counters \in BOOLEAN
    /\ gui.key_info_buffer => gui.message_buffer
    /\ loaded = (session # None)
    /\ session \in [path : BOOLEAN, enabled : BOOLEAN] \cup {None}
    /\ reporting \in BOOLEAN /\ registered \in BOOLEAN
    /\ mapped \in Boxes \cup {None}
    /\ saved \in [memory : Memories, input : Inputs, gui : Guis] \cup {None}

\* Unless the frontend has announced a change, the emulator runs with the
\* frontend's options: a reset makes a new emulator with its defaults, and a
\* save state brings back those it was saved with, but neither is left so.
\* The audio buffer callback is with the frontend only while a report is made.
OptionsInForce ==
    /\ loaded /\ ~updated =>
          /\ input.swap_ab = wanted.swap_ab
          /\ counters = wanted.diagnostics
          /\ reporting = (wanted.diagnostics /\ session.path)
    /\ reporting = (IF loaded THEN session.enabled ELSE FALSE)
    /\ registered => reporting

\* The guest holds exactly the key for pressed that the emulator takes for
\* reported, so a key is released before the next one is pressed and none is
\* left down: through failed allocations, resets and save states as well.
KeyMessagesAlternate ==
    loaded => memory.pressed = IF gui.reported = None THEN {} ELSE {gui.reported}

\* While content is loaded, RAM stays where the frontend was told it is.
PointersStable == loaded /\ mapped # None => mapped = memory.box
=============================================================================
