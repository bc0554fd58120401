--------------------------- MODULE FrontendProofs ---------------------------
(***************************************************************************)
(* Proofs about Frontend, for any buttons, any priority among them and any *)
(* number of windows.  A save state outlives the emulator it was made of:  *)
(* the invariant has to say of it what it says of the emulator.            *)
(***************************************************************************)
EXTENDS Frontend, NaturalFacts, TLAPS

\* What holds between the GUI and the guest's memory, of the emulator, a new
\* one and one in a save state.
Held(g, m) == m.pressed = IF g.reported = None THEN {} ELSE {g.reported}
WellFormed(g) == g.key_info_buffer => g.message_buffer

\* The parts of TypeOK that are used below.
States == [memory : Memories, input : Inputs, gui : Guis]

SavedInv ==
  saved # None => /\ saved \in States
                  /\ Held(saved.gui, saved.memory)
                  /\ WellFormed(saved.gui)

HeldInv == Held(gui, memory)

IInv == TypeOK /\ OptionsInForce /\ PointersStable /\ HeldInv /\ SavedInv

-----------------------------------------------------------------------------
(* The key that counts.                                                    *)

\* gui_key_code returns no key or one that has a GUI key, whatever is held.
LEMMA KeyCode ==
  ASSUME NEW buttons
  PROVE  GuiKeyCode(buttons) \in Keys \cup {None}
<1> DEFINE held == {k \in 1 .. Len(Priority) : Priority[k] \in buttons}
<1>1. CASE held = {}
  BY <1>1 DEF GuiKeyCode
<1>2. CASE held # {}
  <2>1. Len(Priority) \in Nat
    BY FrontendAssumption
  <2>2. held \subseteq Nat /\ held \subseteq 1 .. Len(Priority)
    BY <2>1
  <2>3. PICK x \in held : \A y \in held : x <= y
    <3> HIDE DEF held
    <3> QED
      BY <1>2, <2>2, LeastNatural
  <2>4. (CHOOSE k \in held : \A j \in held : k <= j) \in held
    BY <2>3
  <2> QED
    BY <1>2, <2>2, <2>4 DEF GuiKeyCode, Keys
<1> QED
  BY <1>1, <1>2

\* No GUI key is None.
LEMMA KeyNotNone == None \notin Keys
<1>1. Len(Priority) \in Nat /\ \A k \in 1 .. Len(Priority) : Priority[k] \in Buttons
  BY FrontendAssumption
<1> QED
  BY <1>1, FrontendAssumption DEF Keys

\* The option keeps buttons among the buttons.
LEMMA ButtonsType ==
  ASSUME NEW pressed \in SUBSET Buttons, NEW swap_ab \in BOOLEAN
  PROVE  SetButtons(pressed, swap_ab) \in Inputs /\ SetButtons(pressed, swap_ab).swap_ab = swap_ab
<1>1. \A b \in Buttons : Exchanged(b) \in Buttons
  BY FrontendAssumption DEF Exchanged
<1>2. {Exchanged(b) : b \in pressed} \in SUBSET Buttons
  BY <1>1
<1> QED
  BY <1>2 DEF SetButtons, Inputs

\* A new emulator is well-formed and holds no key.
LEMMA NewTypes ==
  /\ NewMemory \in Memories /\ NewInput \in Inputs /\ NewGui \in Guis
  /\ Held(NewGui, NewMemory) /\ WellFormed(NewGui)
<1>1. MaxWindows \in Nat
  BY FrontendAssumption
<1> QED
  BY <1>1 DEF NewMemory, NewInput, NewGui, Memories, Inputs, Guis, Boxes, Held, WellFormed

-----------------------------------------------------------------------------
(* The initial states.                                                     *)

LEMMA InitIInv == Init => IInv
<1> SUFFICES ASSUME Init PROVE IInv
  OBVIOUS
<1>1. TypeOK
  BY NewTypes DEF Init, TypeOK, Options, DefaultOptions, WellFormed
<1>2. OptionsInForce /\ PointersStable
  BY DEF Init, OptionsInForce, PointersStable
<1>3. HeldInv /\ SavedInv
  BY NewTypes DEF Init, HeldInv, SavedInv
<1> QED
  BY <1>1, <1>2, <1>3 DEF IInv

-----------------------------------------------------------------------------
(* The steps of the frontend.                                              *)

Sessions == [path : BOOLEAN, enabled : BOOLEAN]

\* What the options of the diagnostics leave, with content loaded.
LEMMA DiagnosticsEffect ==
  ASSUME session \in Sessions, NEW enabled \in BOOLEAN, ApplyDiagnostics(session, enabled)
  PROVE  /\ session' \in Sessions /\ session'.path = session.path
         /\ reporting' \in BOOLEAN /\ registered' \in BOOLEAN
         /\ session'.enabled = reporting'
         /\ reporting' = (enabled /\ session'.path)
         /\ registered' => reporting'
<1> DEFINE on == enabled /\ session.path
<1>1. on \in BOOLEAN /\ session.path \in BOOLEAN
  BY DEF Sessions
<1>2. session' = [session EXCEPT !.enabled = on] /\ reporting' = on
      /\ registered' \in IF on /\ ~registered THEN BOOLEAN ELSE {on}
  BY DEF ApplyDiagnostics
<1>3. session' \in Sessions /\ session'.path = session.path /\ session'.enabled = on
  BY <1>1, <1>2 DEF Sessions
<1>4. registered' \in BOOLEAN /\ (registered' => on)
  BY <1>1, <1>2
<1> QED
  BY <1>1, <1>2, <1>3, <1>4

\* A session that is there is one of Sessions.
LEMMA LoadedSession ==
  ASSUME TypeOK, loaded
  PROVE  session \in Sessions
BY DEF TypeOK, Sessions

\* A reset and a loaded state: the new emulator takes the box of the old one,
\* and has the frontend's options.
LEMMA RestartEffect ==
  ASSUME IInv, loaded, NEW state \in States, Held(state.gui, state.memory),
         WellFormed(state.gui), Restart(state),
         UNCHANGED <<options, loaded, mapped, saved>>
  PROVE  IInv'
<1>1. /\ memory' = [memory EXCEPT !.pressed = state.memory.pressed]
      /\ input' = [state.input EXCEPT !.swap_ab = wanted.swap_ab]
      /\ gui' = state.gui
      /\ counters' = wanted.diagnostics
      /\ ApplyDiagnostics(session, wanted.diagnostics)
  BY DEF Restart, Replace, EmulatorAt, CopyStateFrom, ApplyCoreOptions
<1>2. /\ wanted \in Options /\ memory \in Memories /\ loaded \in BOOLEAN /\ updated \in BOOLEAN
      /\ mapped \in Boxes \cup {None}
  BY DEF IInv, TypeOK
<1>3. wanted.diagnostics \in BOOLEAN /\ wanted.swap_ab \in BOOLEAN
  BY <1>2 DEF Options
<1>4. session \in Sessions
  BY LoadedSession DEF IInv
<1>5. /\ session' \in Sessions /\ session'.path = session.path
      /\ reporting' \in BOOLEAN /\ registered' \in BOOLEAN
      /\ session'.enabled = reporting'
      /\ reporting' = (wanted.diagnostics /\ session'.path)
      /\ registered' => reporting'
  BY <1>1, <1>3, <1>4, DiagnosticsEffect
<1>6. /\ memory' \in Memories /\ memory'.box = memory.box /\ memory'.pressed = state.memory.pressed
      /\ input' \in Inputs /\ input'.swap_ab = wanted.swap_ab
      /\ gui' \in Guis
  BY <1>1, <1>2, <1>3 DEF States, Memories, Inputs
<1>7. session' # None
  BY <1>5, FrontendAssumption DEF Sessions
<1>8. TypeOK'
  BY <1>1, <1>2, <1>3, <1>5, <1>6, <1>7 DEF TypeOK, IInv, Sessions, WellFormed, options
<1>9. OptionsInForce'
  BY <1>1, <1>5, <1>6 DEF OptionsInForce, options
<1>10. PointersStable'
  BY <1>6 DEF PointersStable, IInv
<1>11. HeldInv' /\ SavedInv'
  BY <1>1, <1>6 DEF HeldInv, SavedInv, IInv, Held
<1> QED
  BY <1>8, <1>9, <1>10, <1>11 DEF IInv

\* Content that is loaded starts with what the frontend wants.
LEMMA LoadIInv == ASSUME IInv, LoadGame PROVE IInv'
<1>1. PICK path \in BOOLEAN :
        /\ EmulatorAt(NewMemory, [NewInput EXCEPT !.swap_ab = wanted.swap_ab], NewGui)
        /\ counters' = wanted.diagnostics
        /\ session' = [path |-> path, enabled |-> path /\ wanted.diagnostics]
        /\ reporting' = (path /\ wanted.diagnostics)
        /\ registered' \in IF reporting' THEN BOOLEAN ELSE {FALSE}
  BY DEF LoadGame
<1>2. /\ memory' = NewMemory /\ gui' = NewGui
      /\ input' = [NewInput EXCEPT !.swap_ab = wanted.swap_ab]
      /\ mapped' \in {memory'.box, None} /\ loaded' = TRUE
      /\ UNCHANGED <<options, saved>>
  BY <1>1 DEF LoadGame, EmulatorAt
<1>3. wanted \in Options /\ updated \in BOOLEAN
  BY DEF IInv, TypeOK
<1>4. wanted.diagnostics \in BOOLEAN /\ wanted.swap_ab \in BOOLEAN
  BY <1>3 DEF Options
<1>5. input' \in Inputs /\ input'.swap_ab = wanted.swap_ab
  BY <1>2, <1>4, NewTypes DEF Inputs
<1>6. /\ session' \in Sessions /\ session'.path = path /\ session'.enabled = reporting'
      /\ reporting' \in BOOLEAN /\ registered' \in BOOLEAN /\ (registered' => reporting')
  BY <1>1, <1>4 DEF Sessions
<1>7. session' # None
  BY <1>6, FrontendAssumption DEF Sessions
<1>8. memory'.box \in Boxes
  BY <1>2, NewTypes DEF Memories
<1>9. TypeOK'
  BY <1>1, <1>2, <1>3, <1>4, <1>5, <1>6, <1>7, <1>8, NewTypes
  DEF TypeOK, IInv, Sessions, WellFormed, options
<1>10. OptionsInForce'
  BY <1>1, <1>2, <1>4, <1>5, <1>6 DEF OptionsInForce, options
<1>11. PointersStable'
  BY <1>2 DEF PointersStable
<1>12. HeldInv' /\ SavedInv'
  BY <1>2, NewTypes DEF HeldInv, SavedInv, IInv
<1> QED
  BY <1>9, <1>10, <1>11, <1>12 DEF IInv

\* Without content there is nothing to keep but the save state.
LEMMA NothingIInv == ASSUME IInv, NothingLoaded PROVE IInv'
<1>1. /\ memory' = NewMemory /\ gui' = NewGui /\ input' = NewInput
      /\ counters' = FALSE /\ session' = None /\ reporting' = FALSE /\ registered' = FALSE
      /\ mapped' = None /\ loaded' = FALSE
      /\ UNCHANGED <<options, saved>>
  BY DEF NothingLoaded, EmulatorAt, FinishDiagnostics
<1>2. TypeOK'
  BY <1>1, NewTypes DEF TypeOK, IInv, WellFormed, options
<1>3. OptionsInForce' /\ PointersStable'
  BY <1>1 DEF OptionsInForce, PointersStable
<1>4. HeldInv' /\ SavedInv'
  BY <1>1, NewTypes DEF HeldInv, SavedInv, IInv
<1> QED
  BY <1>2, <1>3, <1>4 DEF IInv

\* retro_run reads the options when the frontend says that they changed, and
\* the buttons always.
LEMMA RunIInv == ASSUME IInv, Run PROVE IInv'
<1>1. PICK pressed \in SUBSET Buttons :
        IF ~loaded THEN UNCHANGED <<emulator, diagnostics>>
        ELSE /\ input' = SetButtons(pressed, IF updated THEN wanted.swap_ab ELSE input.swap_ab)
             /\ IF updated THEN ApplyCoreOptions(session)
                ELSE UNCHANGED <<counters, diagnostics>>
             /\ UNCHANGED <<gui, memory>>
  BY DEF Run
<1>2. updated' = FALSE /\ UNCHANGED <<wanted, loaded, mapped, saved>>
  BY DEF Run
<1>3. CASE ~loaded
  <2>1. UNCHANGED <<input, gui, memory, counters, session, reporting, registered>>
    BY <1>1, <1>3 DEF emulator, diagnostics
  <2>2. TypeOK'
    BY <1>2, <2>1 DEF TypeOK, IInv
  <2>3. OptionsInForce' /\ PointersStable' /\ HeldInv' /\ SavedInv'
    BY <1>2, <1>3, <2>1 DEF OptionsInForce, PointersStable, HeldInv, SavedInv, IInv
  <2> QED
    BY <2>2, <2>3 DEF IInv
<1>4. CASE loaded
  <2>1. wanted \in Options /\ input \in Inputs /\ updated \in BOOLEAN /\ counters \in BOOLEAN
    BY DEF IInv, TypeOK
  <2>2. wanted.diagnostics \in BOOLEAN /\ wanted.swap_ab \in BOOLEAN /\ input.swap_ab \in BOOLEAN
    BY <2>1 DEF Options, Inputs
  <2>3. session \in Sessions
    BY <1>4, LoadedSession DEF IInv
  <2>4. /\ input' \in Inputs
        /\ input'.swap_ab = IF updated THEN wanted.swap_ab ELSE input.swap_ab
    BY <1>1, <1>4, <2>1, <2>2, ButtonsType
  <2>5. UNCHANGED <<gui, memory>>
    BY <1>1, <1>4
  <2>6. input'.swap_ab = wanted.swap_ab
    BY <1>4, <2>1, <2>4 DEF IInv, OptionsInForce
  <2>7. /\ counters' = wanted.diagnostics
        /\ session' \in Sessions
        /\ reporting' \in BOOLEAN /\ registered' \in BOOLEAN
        /\ session'.enabled = reporting'
        /\ reporting' = (wanted.diagnostics /\ session'.path)
        /\ registered' => reporting'
    <3>1. CASE updated
      <4>1. counters' = wanted.diagnostics /\ ApplyDiagnostics(session, wanted.diagnostics)
        BY <1>1, <1>4, <3>1 DEF ApplyCoreOptions
      <4> QED
        BY <2>2, <2>3, <4>1, DiagnosticsEffect
    <3>2. CASE ~updated
      <4>1. UNCHANGED <<counters, session, reporting, registered>>
        BY <1>1, <1>4, <3>2 DEF diagnostics
      <4>2. /\ counters = wanted.diagnostics
            /\ reporting = (wanted.diagnostics /\ session.path)
            /\ reporting = session.enabled /\ (registered => reporting)
            /\ reporting \in BOOLEAN /\ registered \in BOOLEAN
        BY <1>4, <3>2 DEF IInv, OptionsInForce, TypeOK
      <4> QED
        BY <2>3, <4>1, <4>2
    <3> QED
      BY <2>1, <3>1, <3>2
  <2>8. session' # None
    BY <2>7, FrontendAssumption DEF Sessions
  <2>9. TypeOK'
    BY <1>2, <1>4, <2>1, <2>2, <2>4, <2>5, <2>7, <2>8 DEF TypeOK, IInv, Sessions
  <2>10. OptionsInForce'
    BY <1>2, <1>4, <2>6, <2>7 DEF OptionsInForce
  <2>11. PointersStable' /\ HeldInv' /\ SavedInv'
    BY <1>2, <2>5 DEF PointersStable, HeldInv, SavedInv, IInv
  <2> QED
    BY <2>9, <2>10, <2>11 DEF IInv
<1> QED
  BY <1>3, <1>4 DEF IInv, TypeOK

-----------------------------------------------------------------------------
(* The steps of the guest.                                                 *)

\* A call of the guest changes the GUI state, and the guest's memory with it
\* as Held says.
LEMMA GuestIInv ==
  ASSUME IInv, NEW next \in Guis, Guest(next), WellFormed(next),
         memory' \in Memories, memory'.box = memory.box, Held(next, memory')
  PROVE  IInv'
<1>1. gui' = next /\ UNCHANGED <<wanted, updated, loaded, input, counters, session, reporting,
                                 registered, mapped, saved>>
  BY DEF Guest, options, diagnostics
<1>2. TypeOK'
  BY <1>1 DEF TypeOK, IInv, WellFormed
<1>3. OptionsInForce' /\ PointersStable' /\ SavedInv'
  BY <1>1 DEF OptionsInForce, PointersStable, SavedInv, IInv
<1>4. HeldInv'
  BY <1>1 DEF HeldInv
<1> QED
  BY <1>2, <1>3, <1>4 DEF IInv

\* What the guest's calls find.
LEMMA GuestState ==
  ASSUME IInv
  PROVE  /\ gui \in Guis /\ memory \in Memories
         /\ WellFormed(gui) /\ Held(gui, memory) /\ MaxWindows \in Nat
BY FrontendAssumption DEF IInv, TypeOK, HeldInv, WellFormed

\* A window, the focus and the request for messages leave the keys alone.
LEMMA WindowIInv == ASSUME IInv, OpenGuiKeyMsg \/ CreateWindow \/ SetFocus PROVE IInv'
<1>1. /\ gui \in Guis /\ memory \in Memories
      /\ WellFormed(gui) /\ Held(gui, memory) /\ MaxWindows \in Nat
  BY GuestState
<1>2. CASE OpenGuiKeyMsg
  <2> DEFINE next == [gui EXCEPT !.messages = TRUE]
  <2>1. Guest(next) /\ memory' = memory
    BY <1>2 DEF OpenGuiKeyMsg
  <2>2. next \in Guis /\ WellFormed(next) /\ Held(next, memory)
    BY <1>1 DEF Guis, WellFormed, Held
  <2> QED
    BY <1>1, <2>1, <2>2, GuestIInv
<1>3. CASE CreateWindow
  <2> DEFINE next == [gui EXCEPT !.windows = @ + 1]
  <2>1. gui.windows < MaxWindows /\ Guest(next) /\ memory' = memory
    BY <1>3 DEF CreateWindow
  <2>2. gui.windows + 1 \in 0 .. MaxWindows
    BY <1>1, <2>1 DEF Guis
  <2>3. next \in Guis /\ WellFormed(next) /\ Held(next, memory)
    BY <1>1, <2>2 DEF Guis, WellFormed, Held
  <2> QED
    BY <1>1, <2>1, <2>3, GuestIInv
<1>4. CASE SetFocus
  <2>1. PICK window \in 1 .. gui.windows : Guest([gui EXCEPT !.focused = window])
    BY <1>4 DEF SetFocus
  <2> DEFINE next == [gui EXCEPT !.focused = window]
  <2>2. window \in 0 .. MaxWindows /\ memory' = memory
    BY <1>1, <1>4 DEF Guis, SetFocus
  <2>3. next \in Guis /\ WellFormed(next) /\ Held(next, memory)
    BY <1>1, <2>2 DEF Guis, WellFormed, Held
  <2> QED
    BY <1>1, <2>1, <2>2, <2>3, GuestIInv
<1> QED
  BY <1>2, <1>3, <1>4

\* A message releases the one key that is held, or presses one when none is.
LEMMA GuiExecIInv == ASSUME IInv, GuiExec PROVE IInv'
<1>1. /\ gui \in Guis /\ memory \in Memories
      /\ WellFormed(gui) /\ Held(gui, memory) /\ MaxWindows \in Nat
  BY GuestState
<1>2. Current \in Keys \cup {None}
  BY KeyCode DEF Current
<1>3. CASE Releases
  <2> DEFINE next == [gui EXCEPT !.message_buffer = TRUE, !.key_info_buffer = TRUE,
                                 !.reported = None]
  <2>1. Guest(next) /\ memory' = [memory EXCEPT !.pressed = @ \ {gui.reported}]
    BY <1>3 DEF GuiExec
  <2>2. memory.pressed = {gui.reported}
    BY <1>1, <1>3 DEF Held, Releases
  <2>3. memory' \in Memories /\ memory'.box = memory.box /\ memory'.pressed = {}
    BY <1>1, <2>1, <2>2 DEF Memories
  <2>4. next \in Guis /\ WellFormed(next) /\ next.reported = None
    BY <1>1 DEF Guis, WellFormed
  <2>5. Held(next, memory')
    BY <2>3, <2>4 DEF Held
  <2> QED
    BY <2>1, <2>3, <2>4, <2>5, GuestIInv
<1>4. CASE ~Releases
  <2> DEFINE next == [gui EXCEPT !.message_buffer = TRUE, !.key_info_buffer = TRUE,
                                 !.reported = Current]
  <2>1. /\ Guest(next) /\ memory' = [memory EXCEPT !.pressed = @ \cup {Current}]
        /\ gui.reported = None /\ Current # None
    BY <1>4 DEF GuiExec, Deliverable, Presses
  <2>2. memory.pressed = {} /\ Current \in Keys
    BY <1>1, <1>2, <2>1 DEF Held
  <2>3. memory' \in Memories /\ memory'.box = memory.box /\ memory'.pressed = {Current}
    BY <1>1, <2>1, <2>2 DEF Memories
  <2>4. next \in Guis /\ WellFormed(next) /\ next.reported = Current
    BY <1>1, <1>2 DEF Guis, WellFormed
  <2>5. Held(next, memory')
    BY <2>1, <2>3, <2>4 DEF Held
  <2> QED
    BY <2>1, <2>3, <2>4, <2>5, GuestIInv
<1> QED
  BY <1>3, <1>4

\* A message without a buffer is no message.
LEMMA GuiExecFailsIInv == ASSUME IInv, GuiExecWithoutMemory PROVE IInv'
<1>1. /\ gui \in Guis /\ memory \in Memories
      /\ WellFormed(gui) /\ Held(gui, memory) /\ MaxWindows \in Nat
  BY GuestState
<1>2. PICK first \in BOOLEAN :
        /\ gui.message_buffer => first
        /\ first => ~gui.key_info_buffer
        /\ Guest([gui EXCEPT !.message_buffer = first])
  BY DEF GuiExecWithoutMemory
<1> DEFINE next == [gui EXCEPT !.message_buffer = first]
<1>3. memory' = memory
  BY DEF GuiExecWithoutMemory
<1>4. next \in Guis /\ WellFormed(next) /\ Held(next, memory)
  BY <1>1, <1>2 DEF Guis, WellFormed, Held
<1> QED
  BY <1>1, <1>2, <1>3, <1>4, GuestIInv

-----------------------------------------------------------------------------
(* The invariant.                                                          *)

LEMMA NextIInv == ASSUME IInv, [Next]_vars PROVE IInv'
<1>1. ASSUME ChangeOption PROVE IInv'
  <2>1. /\ wanted' \in Options /\ updated' = TRUE
        /\ UNCHANGED <<loaded, input, gui, memory, counters, session, reporting, registered,
                       mapped, saved>>
    BY <1>1 DEF ChangeOption, emulator, diagnostics
  <2>2. TypeOK'
    BY <2>1 DEF IInv, TypeOK
  <2>3. OptionsInForce' /\ PointersStable' /\ HeldInv' /\ SavedInv'
    BY <2>1 DEF IInv, OptionsInForce, PointersStable, HeldInv, SavedInv
  <2> QED
    BY <2>2, <2>3 DEF IInv
<1>2. ASSUME LoadGame PROVE IInv'
  BY <1>2, LoadIInv
<1>3. ASSUME LoadGameFails \/ UnloadGame PROVE IInv'
  BY <1>3, NothingIInv DEF LoadGameFails, UnloadGame
<1>4. ASSUME Run PROVE IInv'
  BY <1>4, RunIInv
<1>5. ASSUME Reset PROVE IInv'
  <2>1. memory \in Memories
    BY DEF IInv, TypeOK
  <2>2. NewState \in States /\ Held(NewState.gui, NewState.memory) /\ WellFormed(NewState.gui)
    BY <2>1, NewTypes DEF NewState, States, Memories, Boxes, Held
  <2>3. loaded /\ Restart(NewState) /\ UNCHANGED <<options, loaded, mapped, saved>>
    BY <1>5 DEF Reset
  <2> QED
    BY <2>2, <2>3, RestartEffect
<1>6. ASSUME Serialize PROVE IInv'
  <2>1. /\ saved' = [memory |-> [memory EXCEPT !.box = 0], input |-> input, gui |-> gui]
        /\ UNCHANGED <<wanted, updated, loaded, input, gui, memory, counters, session, reporting,
                       registered, mapped>>
    BY <1>6 DEF Serialize, options, emulator, diagnostics
  <2>2. input \in Inputs /\ gui \in Guis /\ memory \in Memories /\ WellFormed(gui)
        /\ Held(gui, memory)
    BY DEF IInv, TypeOK, WellFormed, HeldInv
  <2>3. saved' \in States /\ Held(saved'.gui, saved'.memory) /\ WellFormed(saved'.gui)
    BY <2>1, <2>2 DEF States, Memories, Boxes, Held
  <2>4. TypeOK'
    BY <2>1, <2>3 DEF IInv, TypeOK, States
  <2>5. OptionsInForce' /\ PointersStable' /\ HeldInv' /\ SavedInv'
    BY <2>1, <2>3 DEF IInv, OptionsInForce, PointersStable, HeldInv, SavedInv
  <2> QED
    BY <2>4, <2>5 DEF IInv
<1>7. ASSUME Unserialize PROVE IInv'
  <2>1. loaded /\ Restart(saved) /\ UNCHANGED <<options, loaded, mapped, saved>> /\ saved # None
    BY <1>7 DEF Unserialize
  <2>2. saved \in States /\ Held(saved.gui, saved.memory) /\ WellFormed(saved.gui)
    BY <2>1 DEF IInv, SavedInv
  <2> QED
    BY <2>1, <2>2, RestartEffect
<1>8. ASSUME OpenGuiKeyMsg \/ CreateWindow \/ SetFocus PROVE IInv'
  BY <1>8, WindowIInv
<1>9. ASSUME GuiExec PROVE IInv'
  BY <1>9, GuiExecIInv
<1>10. ASSUME GuiExecWithoutMemory PROVE IInv'
  BY <1>10, GuiExecFailsIInv
<1>11. ASSUME UNCHANGED vars PROVE IInv'
  <2>1. UNCHANGED <<wanted, updated, loaded, input, gui, memory, counters, session, reporting,
                    registered, mapped, saved>>
    BY <1>11 DEF vars, options, emulator, diagnostics
  <2>2. TypeOK'
    BY <2>1 DEF IInv, TypeOK
  <2>3. OptionsInForce' /\ PointersStable' /\ HeldInv' /\ SavedInv'
    BY <2>1 DEF IInv, OptionsInForce, PointersStable, HeldInv, SavedInv
  <2> QED
    BY <2>2, <2>3 DEF IInv
<1> QED
  BY <1>1, <1>2, <1>3, <1>4, <1>5, <1>6, <1>7, <1>8, <1>9, <1>10, <1>11 DEF Next

LEMMA Invariant == Spec => []IInv
<1>1. Init => IInv
  BY InitIInv
<1>2. IInv /\ [Next]_vars => IInv'
  BY NextIInv
<1> QED
  BY <1>1, <1>2, PTL DEF Spec

-----------------------------------------------------------------------------
(* The theorems.                                                           *)

\* Every part of the session has its type: a diagnostic session is there
\* exactly with content, in every order of loads, failures and unloads.
THEOREM TypeCorrect == Spec => []TypeOK
<1>1. IInv => TypeOK
  BY DEF IInv
<1> QED
  BY <1>1, Invariant, PTL

\* apply_core_options after every reset and loaded state leaves the emulator
\* with the options the frontend has.
THEOREM OptionsInForceHolds == Spec => []OptionsInForce
<1>1. IInv => OptionsInForce
  BY DEF IInv
<1> QED
  BY <1>1, Invariant, PTL

\* GUI_Exec never leaves two keys down, nor one for ever: whatever the heap
\* refuses, and after a reset or a loaded state.
THEOREM KeyMessagesAlternateHolds == Spec => []KeyMessagesAlternate
<1>1. IInv => KeyMessagesAlternate
  BY DEF IInv, HeldInv, Held, KeyMessagesAlternate
<1> QED
  BY <1>1, Invariant, PTL

\* reset and unserialize_state copy the new state into the RAM whose address
\* the frontend has.
THEOREM PointersStableHolds == Spec => []PointersStable
<1>1. IInv => PointersStable
  BY DEF IInv
<1> QED
  BY <1>1, Invariant, PTL
=============================================================================
