----------------------------- MODULE Scheduler -----------------------------
(***************************************************************************)
(* The frame loop and the guest scheduler of dingooemu-core                *)
(* (crates/dingooemu-core/src/emulator.rs: tick, run_task_slice,           *)
(* run_active_cpu_slice) with the task, semaphore, delay and waveout_write *)
(* calls of sdk_hle that block, wake, create and stop contexts.            *)
(*                                                                         *)
(* A context is the main program (contexts[1], the emulator's own cpu and  *)
(* main_wait) or a guest task (contexts[i + 2] is tasks[i]), so            *)
(* scheduler_cursor is the source's cursor plus one and active_task is     *)
(* the cursor during a slice.  The unit of time is one guest instruction   *)
(* or one SDK call: CPU_CYCLES_PER_INSTRUCTION cycles.  A deadline is kept *)
(* as the time left until it, so cycle_count needs no absolute value.      *)
(* The guest program is any program: which instruction or SDK call comes   *)
(* next is a free choice.                                                  *)
(***************************************************************************)
EXTENDS Integers, Sequences

CONSTANTS
  MaxTasks,       \* MAX_GUEST_TASKS
  Priorities,     \* task priorities the guest uses (not OS_PRIO_SELF)
  MaxHandle,      \* bound: semaphores created in one behaviour
  MaxCount,       \* u32::MAX, where a semaphore count saturates
  FrameCycles,    \* CYCLES_PER_FRAME
  Quantum,        \* TASK_QUANTUM_CYCLES
  MaxDelay,       \* bound: longest delay the guest asks for
  AudioLimit,     \* queued audio at which waveout_write is deferred
  AsyncPlayer,    \* the host drains the queue at any time (rodio player)
  GuestMayBreak,  \* the guest executes BREAK
  UnknownPolicy   \* the host's --unknown-instruction-policy

ASSUME SchedulerAssumption ==
  /\ MaxTasks \in Nat /\ MaxHandle \in Nat /\ MaxDelay \in Nat
  /\ MaxCount \in Nat \ {0} /\ AudioLimit \in Nat \ {0}
  /\ FrameCycles \in Nat \ {0} /\ Quantum \in Nat \ {0}
  /\ Priorities \subseteq Nat
  /\ AsyncPlayer \in BOOLEAN /\ GuestMayBreak \in BOOLEAN
  /\ UnknownPolicy \in {"skip", "stop"}

VARIABLES
  contexts,               \* <<main>> \o tasks
  semaphores,             \* handle -> count, or NoSemaphore
  next_semaphore_handle,
  scheduler_cursor,
  phase,                  \* where tick is, and "host" between frames
  remaining_cycles, executed, idle_contexts, context_count,  \* tick's locals
  frame_cycles,           \* cycle_count, counted from the start of the frame
  framebuffer_submitted,
  queued,                 \* audio not yet played
  audible                 \* opened, not muted, volume above zero

semVars  == <<semaphores, next_semaphore_handle>>
audioVars == <<queued, audible>>
loopVars == <<scheduler_cursor, remaining_cycles, idle_contexts, context_count>>
vars == <<contexts, semVars, loopVars, phase, executed, frame_cycles,
          framebuffer_submitted, audioVars>>

NoSemaphore == -1
Handles == 1..MaxHandle

\* Option<TaskWait>: arg is the semaphore's handle, or the time left.
NoWait     == [kind |-> "none",  arg |-> 0]
AudioWrite == [kind |-> "audio", arg |-> 0]
Semaphore(h)  == [kind |-> "semaphore", arg |-> h]
UntilCycle(n) == [kind |-> "until", arg |-> n]
Wait == [kind : {"none", "audio", "semaphore", "until"}, arg : Nat]

\* A context: its Cpu's running flag and policy, whether its pc is still at
\* the waveout_write it has to repeat, its priority and what it waits for.
Context == [prio : Nat, cpu : {"running", "stopped"},
            at : {"code", "waveout_write"},
            policy : {"skip", "stop"}, wait : Wait]

\* slice_cycles: a quantum, or what is left of the frame.
MutSlice == Quantum
Slice    == IF remaining_cycles < Quantum THEN remaining_cycles ELSE Quantum

Active == contexts[scheduler_cursor]

\* Audio::can_write
CanWrite == ~audible \/ queued < AudioLimit

\* cycle_count grows by n: every deadline comes n nearer.
AgedWait(w, n) ==
  IF w.kind = "until" THEN UntilCycle(IF w.arg > n THEN w.arg - n ELSE 0) ELSE w
Elapse(cs, n) ==
  [i \in DOMAIN cs |-> [cs[i] EXCEPT !.wait = AgedWait(cs[i].wait, n)]]

\* active_context_waiting: a satisfied wait is cleared when it is looked at.
MutWakesWithoutSpace(w) == w.kind = "audio" \/ (w.kind = "until" /\ w.arg = 0)
MutWakesOnMissing(w) ==
  \/ w.kind = "audio" /\ CanWrite
  \/ w.kind = "until" /\ w.arg = 0
  \/ w.kind = "semaphore" /\ semaphores[w.arg] = NoSemaphore
Satisfied(w) ==
  \/ w.kind = "audio" /\ CanWrite
  \/ w.kind = "until" /\ w.arg = 0
Polled(cs, i) ==
  IF Satisfied(cs[i].wait) THEN [cs EXCEPT ![i].wait = NoWait] ELSE cs

-----------------------------------------------------------------------------
(* tick: the host calls it once per frame.                                 *)

Init ==
  /\ contexts = << [prio |-> 0, cpu |-> "running", at |-> "code",
                    policy |-> UnknownPolicy, wait |-> NoWait] >>
  /\ semaphores = [h \in Handles |-> NoSemaphore]
  /\ next_semaphore_handle = 1
  /\ scheduler_cursor = 1
  /\ phase = "host"
  /\ remaining_cycles = 0 /\ executed = 0
  /\ idle_contexts = 0 /\ context_count = 1
  /\ frame_cycles = 0
  /\ framebuffer_submitted = FALSE
  /\ queued = 0 /\ audible = FALSE

TickBegin ==
  /\ phase = "host"
  /\ phase' = "pick"
  /\ framebuffer_submitted' = FALSE
  /\ remaining_cycles' = FrameCycles
  /\ idle_contexts' = 0
  /\ frame_cycles' = 0
  /\ UNCHANGED <<contexts, semVars, scheduler_cursor, context_count, executed, audioVars>>

\* A cursor past the last context goes back to the main program.
PickCursor == IF scheduler_cursor > Len(contexts) THEN 1 ELSE scheduler_cursor

\* The top of the loop and the entry of run_active_cpu_slice: a context that
\* waits or is stopped executes nothing.
SliceBegin ==
  /\ phase = "pick" /\ remaining_cycles > 0
  /\ scheduler_cursor' = PickCursor
  /\ context_count' = Len(contexts)
  /\ executed' = 0
  /\ contexts' = Polled(contexts, PickCursor)
  /\ phase' = IF /\ contexts'[PickCursor].wait.kind = "none"
                 /\ contexts'[PickCursor].cpu = "running"
              THEN "run" ELSE "account"
  /\ UNCHANGED <<semVars, remaining_cycles, idle_contexts, frame_cycles,
                 framebuffer_submitted, audioVars>>

-----------------------------------------------------------------------------
(* The body of a slice: instruction blocks and SDK calls.                  *)

Running == phase = "run" /\ Active.cpu = "running" /\ Active.at = "code"

\* The loop of run_active_cpu_slice after n more units: it ends on a full
\* slice.
AfterUnits(n) == IF executed + n < Slice THEN "run" ELSE "account"

\* n instructions of one cached block.
InstructionBlock ==
  /\ Running
  /\ \E n \in 1..(Slice - executed) :
       /\ executed' = executed + n
       /\ frame_cycles' = frame_cycles + n
       /\ contexts' = Elapse(contexts, n)
       /\ phase' = AfterUnits(n)
  /\ UNCHANGED <<semVars, loopVars, framebuffer_submitted, audioVars>>

\* A block that ends in BREAK.  The slice loop does not look at the running
\* flag after a block: unless the pc is at a hook ("run"), it asks the stopped
\* cpu for one more block for ever ("spin").
BreakBlock ==
  /\ GuestMayBreak /\ Running
  /\ \E n \in 1..(Slice - executed) :
       /\ executed' = executed + n
       /\ frame_cycles' = frame_cycles + n
       /\ contexts' = [Elapse(contexts, n) EXCEPT ![scheduler_cursor].cpu = "stopped"]
       /\ phase' \in IF executed + n < Slice THEN {"run", "spin"} ELSE {"account"}
  /\ UNCHANGED <<semVars, loopVars, framebuffer_submitted, audioVars>>

\* handle_unknown_instruction: the policy is the active Cpu's own.
UnknownInstruction ==
  /\ Running
  /\ IF Active.policy = "stop"
     THEN /\ phase' = "failed"
          /\ UNCHANGED <<contexts, executed, frame_cycles>>
     ELSE /\ executed' = executed + 1
          /\ frame_cycles' = frame_cycles + 1
          /\ contexts' = Elapse(contexts, 1)
          /\ phase' = AfterUnits(1)
  /\ UNCHANGED <<semVars, loopVars, framebuffer_submitted, audioVars>>

\* The pc is TASK_RETURN_ADDRESS: the entry function has returned.
TaskReturn ==
  /\ phase = "run" /\ Active.at = "code"
  /\ contexts' = [contexts EXCEPT ![scheduler_cursor].cpu = "stopped"]
  /\ phase' = "account"
  /\ UNCHANGED <<semVars, loopVars, executed, frame_cycles,
                 framebuffer_submitted, audioVars>>

\* Any other error of an instruction or of an SDK call: tick returns it.
RunError ==
  /\ phase = "run"
  /\ phase' = "failed"
  /\ UNCHANGED <<contexts, semVars, loopVars, executed, frame_cycles,
                 framebuffer_submitted, audioVars>>

\* After an SDK call that left the contexts as cs and the frame submitted or
\* not: its cost, and the checks that end the slice, in the code's order.
MutSliceEnds(cs, submitted) == submitted \/ cs[scheduler_cursor].cpu = "stopped"
SliceEnds(cs, submitted) ==
  \/ submitted
  \/ cs[scheduler_cursor].wait.kind # "none"
  \/ cs[scheduler_cursor].cpu = "stopped"

SdkCall(cs, submitted) ==
  LET aged   == Elapse(cs, 1)
      polled == IF submitted THEN aged ELSE Polled(aged, scheduler_cursor)
  IN  /\ contexts' = polled
      /\ executed' = executed + 1
      /\ frame_cycles' = frame_cycles + 1
      /\ framebuffer_submitted' = submitted
      /\ phase' = IF SliceEnds(polled, submitted) THEN "account" ELSE AfterUnits(1)
      /\ UNCHANGED loopVars

\* The handler changed the contexts and then failed to write its result.
SdkFault(cs) ==
  /\ contexts' = cs
  /\ phase' = "failed"
  /\ UNCHANGED <<loopVars, executed, frame_cycles, framebuffer_submitted>>

Calling == phase = "run" /\ Active.at = "code"

\* Every SDK call without an effect on the state of this module.
OtherCall ==
  /\ Calling
  /\ SdkCall(contexts, FALSE)
  /\ UNCHANGED <<semVars, audioVars>>

\* sync_framebuffer: the guest submits the frame.
SubmitFrame ==
  /\ Calling
  /\ SdkCall(contexts, TRUE)
  /\ UNCHANGED <<semVars, audioVars>>

\* vxGoHome, abort, TaskMediaFunStop, and OSTaskDel(OS_PRIO_SELF).
StopSelf ==
  /\ Calling
  /\ SdkCall([contexts EXCEPT ![scheduler_cursor].cpu = "stopped"], FALSE)
  /\ UNCHANGED <<semVars, audioVars>>

NewTask(p) == [prio |-> p, cpu |-> "running", at |-> "code",
               policy |-> "skip", wait |-> NoWait]

\* OSTaskCreate: stopped tasks that are not yet reaped take up room.
CreateTask ==
  /\ Calling
  /\ \E p \in Priorities :
       SdkCall(IF Len(contexts) <= MaxTasks
               THEN Append(contexts, NewTask(p)) ELSE contexts, FALSE)
  /\ UNCHANGED <<semVars, audioVars>>

Tasks == {i \in DOMAIN contexts : i > 1}

\* OSTaskDel(p): the active task if it has that priority, otherwise the first
\* task in the vector that has it, which may already be stopped.
Deleted(p) ==
  {i \in Tasks :
     /\ contexts[i].prio = p
     /\ i = scheduler_cursor
        \/ /\ scheduler_cursor = 1 \/ Active.prio # p
           /\ \A j \in Tasks : contexts[j].prio = p => i <= j}

DeleteTask ==
  /\ Calling
  /\ \E p \in Priorities :
       LET gone == Deleted(p)
       IN  SdkCall([i \in DOMAIN contexts |->
                      IF i \in gone THEN [contexts[i] EXCEPT !.cpu = "stopped"]
                      ELSE contexts[i]], FALSE)
  /\ UNCHANGED <<semVars, audioVars>>

-----------------------------------------------------------------------------
(* Semaphores.                                                             *)

Waiters(h) == {i \in DOMAIN contexts : contexts[i].wait = Semaphore(h)}

\* OSSemCreate: handles are not reused within the bound MaxHandle.
SemCreate ==
  /\ Calling /\ next_semaphore_handle <= MaxHandle
  /\ \E n \in 0..MaxCount :
       semaphores' = [semaphores EXCEPT ![next_semaphore_handle] = n]
  /\ next_semaphore_handle' = next_semaphore_handle + 1
  /\ SdkCall(contexts, FALSE)
  /\ UNCHANGED audioVars

\* OSSemPend: take one, or wait; a missing handle changes nothing.
SemPend(h) ==
  /\ Calling
  /\ semaphores' = IF semaphores[h] > 0
                   THEN [semaphores EXCEPT ![h] = @ - 1] ELSE semaphores
  /\ LET cs == IF semaphores[h] = 0
               THEN [contexts EXCEPT ![scheduler_cursor].wait = Semaphore(h)]
               ELSE contexts
     IN  SdkCall(cs, FALSE) \/ SdkFault(cs)
  /\ UNCHANGED <<next_semaphore_handle, audioVars>>

\* OSSemPost wakes the main program first, then the waiting task with the
\* least priority number, the first of them in the vector.
MutWoken(h) == Waiters(h) \ {1}
Woken(h) ==
  {i \in Waiters(h) :
     \A j \in Waiters(h) :
       \/ i = 1
       \/ j # 1 /\ contexts[i].prio < contexts[j].prio
       \/ j # 1 /\ contexts[i].prio = contexts[j].prio /\ i <= j}

SemPost(h) ==
  /\ Calling
  /\ LET woken == Woken(h)
     IN  /\ semaphores' =
              IF woken = {} /\ semaphores[h] \in 0..(MaxCount - 1)
              THEN [semaphores EXCEPT ![h] = @ + 1] ELSE semaphores
         /\ SdkCall(IF semaphores[h] = NoSemaphore THEN contexts
                    ELSE [i \in DOMAIN contexts |->
                            IF i \in woken THEN [contexts[i] EXCEPT !.wait = NoWait]
                            ELSE contexts[i]], FALSE)
  /\ UNCHANGED <<next_semaphore_handle, audioVars>>

\* OSSemDel removes the semaphore and leaves its waiters as they are.
SemDel(h) ==
  /\ Calling
  /\ semaphores' = [semaphores EXCEPT ![h] = NoSemaphore]
  /\ SdkCall(contexts, FALSE) \/ SdkFault(contexts)
  /\ UNCHANGED <<next_semaphore_handle, audioVars>>

-----------------------------------------------------------------------------
(* Delays and audio.                                                       *)

\* OSTimeDly, delay_ms, udelay: a deadline that has already come is no wait.
Delay ==
  /\ Calling
  /\ \E n \in 0..MaxDelay :
       SdkCall(IF n = 0 THEN contexts
               ELSE [contexts EXCEPT ![scheduler_cursor].wait = UntilCycle(n)], FALSE)
  /\ UNCHANGED <<semVars, audioVars>>

\* waveout_write: the pc stays at the call when the queue is full, so that the
\* context repeats it.  A player of its own may make room between the call and
\* the look at the caller's new wait; the context then repeats at once.
WaveoutWrite ==
  /\ phase = "run"
  /\ \/ /\ CanWrite
        /\ queued' = IF audible THEN queued + 1 ELSE queued
        /\ SdkCall([contexts EXCEPT ![scheduler_cursor].at = "code"], FALSE)
     \/ /\ ~CanWrite
        /\ queued' = queued
        /\ SdkCall([contexts EXCEPT ![scheduler_cursor].wait = AudioWrite,
                                    ![scheduler_cursor].at = "waveout_write"], FALSE)
     \/ /\ ~CanWrite /\ AsyncPlayer
        /\ queued' = queued - 1
        /\ SdkCall([contexts EXCEPT ![scheduler_cursor].at = "waveout_write"], FALSE)
  /\ UNCHANGED <<semVars, audible>>

\* waveout_open, waveout_close, waveout_set_volume, HP_Mute_sw.
AudioControl ==
  /\ Calling
  /\ audible' \in BOOLEAN
  /\ queued' \in {0, queued}
  /\ SdkCall(contexts, FALSE)
  /\ UNCHANGED semVars

\* The host plays what is queued: between frames (take_frame_samples,
\* advance_frame), or at any time when a player of its own drains the queue.
DrainAudio ==
  /\ queued > 0
  /\ AsyncPlayer \/ phase = "host"
  /\ queued' = queued - 1
  /\ UNCHANGED <<contexts, semVars, loopVars, phase, executed, frame_cycles,
                 framebuffer_submitted, audible>>

-----------------------------------------------------------------------------
(* The end of a slice, of a frame and of the program.                      *)

\* (cursor + 1) % context_count, with the count taken before the slice.
MutNextCursor == scheduler_cursor
NextCursor == IF scheduler_cursor >= context_count THEN 1 ELSE scheduler_cursor + 1

\* Every context in turn executed nothing.
MutAllIdle == executed = 0 /\ idle_contexts + 1 >= context_count - 1
AllIdle == executed = 0 /\ idle_contexts + 1 >= context_count

\* The time that passes although no instruction ran: a whole slice when every
\* context is idle, and what is left of a frame that was submitted.
MutIdleCycles == 0
IdleCycles    == IF AllIdle THEN Slice ELSE 0

MutSkippedCycles == IF framebuffer_submitted THEN remaining_cycles - executed ELSE 0
MutSubmitSkips   == IdleCycles
SkippedCycles ==
  IF framebuffer_submitted THEN remaining_cycles - executed ELSE IdleCycles

ChargedCycles ==
  IF framebuffer_submitted THEN remaining_cycles ELSE executed + IdleCycles

SliceEnd ==
  /\ phase = "account"
  /\ phase' = "pick"
  /\ scheduler_cursor' = NextCursor
  /\ idle_contexts' = IF executed > 0 \/ AllIdle THEN 0 ELSE idle_contexts + 1
  /\ remaining_cycles' = remaining_cycles - ChargedCycles
  /\ frame_cycles' = frame_cycles + SkippedCycles
  /\ contexts' = Elapse(contexts, SkippedCycles)
  /\ executed' = 0
  /\ UNCHANGED <<semVars, context_count, framebuffer_submitted, audioVars>>

\* tasks.retain(is_running): at lists, in order, the contexts that stay.
\* The main program is not a task and always stays.
Kept == {1} \cup {i \in Tasks : contexts[i].cpu = "running"}
Retain ==
  \E n \in 1..Len(contexts) : \E at \in [1..n -> Kept] :
    /\ \A i, j \in 1..n : i < j => at[i] < at[j]
    /\ \A k \in Kept : \E i \in 1..n : at[i] = k
    /\ contexts' = [i \in 1..n |-> contexts[at[i]]]

TickEnd ==
  /\ phase = "pick" /\ remaining_cycles = 0
  /\ Retain
  /\ framebuffer_submitted' = TRUE
  /\ phase' = "host"
  /\ UNCHANGED <<semVars, loopVars, executed, frame_cycles, audioVars>>

\* The user closes the program, or the frontend stops after the main program.
HostStop ==
  /\ phase = "host"
  /\ phase' = "closed"
  /\ UNCHANGED <<contexts, semVars, loopVars, executed, frame_cycles,
                 framebuffer_submitted, audioVars>>

SemaphoreCall == SemCreate \/ \E h \in Handles : SemPend(h) \/ SemPost(h) \/ SemDel(h)

SliceStep ==
  \/ InstructionBlock \/ BreakBlock \/ UnknownInstruction \/ TaskReturn
  \/ RunError \/ OtherCall \/ SubmitFrame \/ StopSelf \/ CreateTask
  \/ DeleteTask \/ SemaphoreCall \/ Delay \/ WaveoutWrite \/ AudioControl

\* One run of tick, from the host's call to its return.
Tick == TickBegin \/ SliceBegin \/ SliceStep \/ SliceEnd \/ TickEnd

Next == Tick \/ DrainAudio \/ HostStop

Spec == Init /\ [][Next]_vars

\* tick is a loop on one thread that no other thread holds up, and the host
\* calls it again until it closes.  Nothing else is fair: the guest need not
\* make any call, the queue need not drain, the host need not close.
FairSpec == Spec /\ WF_vars(Tick)

-----------------------------------------------------------------------------
(* Properties.                                                             *)

InSlice == phase \in {"run", "spin", "account"}

SemaphoresOK ==
  /\ semaphores \in [Handles -> {NoSemaphore} \cup (0..MaxCount)]
  /\ next_semaphore_handle \in 1..(MaxHandle + 1)

AudioOK == queued \in Nat /\ audible \in BOOLEAN

LoopOK ==
  /\ contexts \in Seq(Context) /\ Len(contexts) >= 1
  /\ scheduler_cursor \in Nat \ {0}
  /\ phase \in {"host", "pick", "run", "spin", "account", "failed", "closed"}
  /\ remaining_cycles \in 0..FrameCycles
  /\ executed \in 0..FrameCycles
  /\ idle_contexts \in Nat
  /\ context_count \in Nat \ {0}
  /\ frame_cycles \in 0..FrameCycles
  /\ framebuffer_submitted \in BOOLEAN
  /\ InSlice => executed <= Slice
  /\ InSlice => scheduler_cursor <= context_count /\ context_count <= Len(contexts)

\* The type invariant: the unsigned subtractions of tick (remaining_cycles -=
\* executed, -= slice_cycles) never go below zero, and during a slice the
\* scheduler's index is that of a context, so self.tasks[index] exists.
TypeOK == LoopOK /\ SemaphoresOK /\ AudioOK

\* No lost wakeup: a semaphore with a token has no waiter, dead or alive.  So
\* post_semaphore never banks a token that somebody waits for, and
\* pend_semaphore never waits for a token that is there.
NoLostWakeup ==
  \A i \in DOMAIN contexts, h \in Handles :
    contexts[i].wait = Semaphore(h) => semaphores[h] <= 0

\* A context that cannot execute, whatever the other contexts leave alone.  A
\* host player may free audio space between the look at a waiting context and
\* the idle charge, so with one an audio wait counts as blocked.
Blocked(c) ==
  \/ c.cpu = "stopped"
  \/ c.wait.kind = "semaphore"
  \/ c.wait.kind = "until" /\ c.wait.arg > 0
  \/ c.wait.kind = "audio" /\ (AsyncPlayer \/ ~CanWrite)

\* tick lets a whole slice of emulated time pass idle only when not one of the
\* contexts could have used it: idle_contexts counts a full round in which
\* nobody became able to run.
IdleOnlyWhenBlocked ==
  phase = "account" /\ AllIdle => \A i \in DOMAIN contexts : Blocked(contexts[i])

\* A frame is CYCLES_PER_FRAME long, however it is spent (executed, idle,
\* ended early by a submitted frame): emulated time and frames stay in step.
FrameAccounting ==
  /\ phase = "pick" => frame_cycles + remaining_cycles = FrameCycles
  /\ InSlice => frame_cycles + remaining_cycles = FrameCycles + executed
  /\ phase = "host" => frame_cycles \in {0, FrameCycles}

\* The context that executes waits for nothing: set_active_wait never
\* overwrites a wait that is still to be satisfied, and an SDK call that blocks
\* its caller ends the caller's slice.
ActiveNeverWaits == phase = "run" => Active.wait.kind = "none"

\* Only a post of that semaphore ends a wait for it: no deadline, no audio
\* space, no deletion and no scheduling does.  (The end of a frame moves
\* the contexts to other positions.)
SemWaitEndsByPost ==
  [][\A i \in DOMAIN contexts :
       /\ contexts[i].wait.kind = "semaphore"
       /\ ~TickEnd
       => \/ contexts'[i].wait = contexts[i].wait
          \/ SemPost(contexts[i].wait.arg)]_vars

\* "the guest audio task waits and retries the same buffer so playback data is
\* not skipped" (docs/Standalone-Emulator.md): a context that waits for queue
\* space is still at its call, and it executes again only when the repeated
\* call will be accepted.  (A player of its own may make the room that ends a
\* wait in the last unit of a slice; another context may take it before the
\* next one, and the call is deferred once more.)
DeferredWriteRetried ==
  /\ \A i \in DOMAIN contexts :
       contexts[i].wait.kind = "audio" => contexts[i].at = "waveout_write"
  /\ ~AsyncPlayer /\ phase = "run" /\ Active.at = "waveout_write" => CanWrite

-----------------------------------------------------------------------------

\* Every call of tick returns, even when every context waits for ever.
FrameEnds == phase # "host" ~> phase \in {"host", "failed", "closed"}

CanRun(i) == i \in DOMAIN contexts /\ ~Blocked(contexts[i])

\* Starvation freedom: a context that can run gets a slice, whatever the others
\* do and whichever tasks before it are reaped (a task that moves to an earlier
\* position is a context that can run there).
StarvationFree ==
  \A i \in 1..(MaxTasks + 1) :
    CanRun(i) ~> \/ phase = "run" /\ scheduler_cursor = i
                 \/ ~CanRun(i)
                 \/ phase \in {"failed", "closed"}

\* A delay ends: its deadline comes, also when nobody executes anything.
DelayEnds ==
  \A i \in 1..(MaxTasks + 1) :
    (i \in DOMAIN contexts /\ contexts[i].wait.kind = "until")
      ~> \/ CanRun(i)
         \/ i \notin DOMAIN contexts
         \/ contexts[i].cpu = "stopped"
         \/ contexts[i].wait.kind # "until"
         \/ phase \in {"failed", "closed"}

-----------------------------------------------------------------------------
(* What the repository says and the code does not do.                      *)

\* "Delete a guest task using the uC/OS-II OSTaskDel convention"
\* (emulator.rs, delete_guest_task): a deleted task waits for nothing any more,
\* so a post while a live context waits wakes a live context.
PostReachesLiveWaiter ==
  [][\A h \in Handles :
       LET live == {i \in Waiters(h) : contexts[i].cpu = "running"}
       IN  /\ SemPost(h)
           /\ semaphores[h] # NoSemaphore
           /\ live # {}
           => \E i \in live : contexts'[i].wait # contexts[i].wait]_vars

\* "--unknown-instruction-policy stop turns the first unimplemented MIPS
\* instruction into an execution error" (docs/Standalone-Emulator.md): the
\* policy of every Cpu that executes guest code is the one the host set.
UnknownPolicyEverywhere ==
  \A i \in DOMAIN contexts : contexts[i].policy = UnknownPolicy

=============================================================================
